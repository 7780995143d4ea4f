----------------------------- MODULE MCBackends -----------------------------
(* The instances of the clients of PostgreSQL, MySQL and Kafka that TLC    *)
(* checks, one part at a time.  The parts of the Kafka client meet only in *)
(* what KafkaGroup and KafkaAssignment leave open, the brokers and the     *)
(* partitions known.                                                       *)
EXTENDS PSql, PSqlValues, SchemaUpdate, QtSqlTransaction, KafkaGroup, KafkaAssignment, KafkaClient

CONSTANTS p, q   \* programs

VARIABLE part

(* A value, and two rows of the same types and one that is too long.       *)
Value(type, null, bytes) == [type |-> type, null |-> null, bytes |-> bytes]
Number    == Value("int16", FALSE, <<1, 2>>)
Word      == Value("text", FALSE, <<3>>)
SomeGiven == {Number, Word, Value("text", TRUE, <<>>), Value(Null, TRUE, <<>>)}
SomeRows  == {<<Number, Word>>, <<Value("int16", TRUE, <<>>), Word>>, <<Number, Number, Number>>}

allvars == <<part, vars, valuevars, schemavars, qtvars, kvars, avars, cvars>>

BackendsInit ==
  /\ part \in {"psql", "parameters", "rows", "schema", "qt", "group", "shares", "client"}
  /\ Init /\ SchemaInit /\ QtInit
  /\ KafkaInit /\ ClientInit
  /\ AssignInit
  /\ ValuesInit
  /\ part # "parameters" => par.types = [i \in Index |-> Null]

OtherThanPSql == UNCHANGED <<schemavars, qtvars>>
Databases     == UNCHANGED <<vars, valuevars, schemavars, qtvars>>
Kafka         == UNCHANGED <<kvars, avars, cvars>>

InPart ==
  \/ part = "psql"   /\ Next       /\ UNCHANGED valuevars /\ OtherThanPSql /\ Kafka
  \/ part = "parameters" /\ ParametersNext /\ UNCHANGED vars /\ OtherThanPSql /\ Kafka
  \/ part = "rows"   /\ RowsNext   /\ UNCHANGED vars /\ OtherThanPSql /\ Kafka
  \/ part = "schema" /\ SchemaNext /\ UNCHANGED <<vars, valuevars, qtvars>> /\ Kafka
  \/ part = "qt"     /\ QtNext     /\ UNCHANGED <<vars, valuevars, schemavars>> /\ Kafka
  \/ part = "group"  /\ KafkaNext  /\ UNCHANGED <<avars, cvars>> /\ Databases
  \/ part = "shares" /\ AssignNext /\ UNCHANGED <<kvars, cvars>> /\ Databases
  \/ part = "client" /\ ClientNext /\ UNCHANGED <<kvars, avars>> /\ Databases

BackendsNext == InPart /\ UNCHANGED part

BackendsSpec == BackendsInit /\ [][BackendsNext]_allvars
========================================
