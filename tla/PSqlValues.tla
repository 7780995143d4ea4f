----------------------------- MODULE PSqlValues -----------------------------
(***************************************************************************)
(* The parameters of a prepared statement and the fields of its rows       *)
(* (db/psql/psql.h, psql.cpp).  operator<< appends a parameter to a        *)
(* buffer, exec hands the buffer to the server and keeps the first of them *)
(* for the next time; a statement is prepared again when a parameter has   *)
(* another type than before.  next and operator>> read the rows, field by  *)
(* field.  What the transaction does meanwhile is in PSql.                 *)
(*                                                                         *)
(* A value is the record of its type, whether it is null, and its bytes.   *)
(* The rows are the ones the server gave for the types of RowTypes.        *)
(***************************************************************************)
EXTENDS Integers, Sequences

CONSTANTS
  MaxFieldCount,  \* MAX_FIELD_COUNT: 64
  Given,          \* values that are given as parameters
  Places,         \* parameters in the text of a statement
  Rows,           \* the rows a result may begin with
  Byte,           \* the range of the smallest number: 256
  Milli,          \* microseconds of a millisecond: 1000
  Delta           \* milliseconds from 1970 to 2000

ASSUME ValuesAssumption ==
  /\ MaxFieldCount \in Nat \ {0} /\ Places \in Nat
  /\ \E half \in 1 .. Byte : Byte = 2 * half
  /\ Byte \in Nat /\ Milli \in Nat \ {0} /\ Delta \in Nat

ASSUME FieldsAssumption ==
  LET field == [type : STRING, null : BOOLEAN, bytes : Seq(Nat)]
  IN  Given \subseteq field /\ Rows \subseteq Seq(field)

Null == "null"   \* typeOids[PSql_null] is 0: the server finds the type

----------------------------------------
(* Numbers and times on the wire. *)

(* v as a signed number of so large a range. *)
Wrap(v, range) == LET m == v % range IN IF 2 * m >= range THEN m - range ELSE m

(* Every number is sent as a signed one; there is no type of one byte.     *)
SentNumber(v, range) == Wrap(v, range)
ReadNumber(w, range, signed) == IF signed THEN Wrap(w, range) ELSE w % range

(* Microseconds since 2000; C++ divides towards zero. *)
Quotient(a, b) == IF a < 0 THEN -((-a) \div b) ELSE a \div b
SentTime(msec) == (msec - Delta) * Milli
ReadTime(raw)  == Quotient(raw, Milli) + Delta

----------------------------------------
VARIABLES
  par,   \* the parameters: prepareParamCount_, ..Types_, ..Lengths_, ..IsNull_,
         \* prepareData_, and isPrepared_
  stmt,  \* the server: the types of the statement's parameters
  run,   \* history: the values given that no exec has dropped; what the server
         \* runs the statement with, and what it was to be; whether an exec
         \* prepared the statement without giving all its parameters
  res    \* the result: res_, the row it is at, currentFieldId_, haveResultInfo_,
         \* resultFieldCount_, resultFieldTypes_, and history: what was read last
         \* of the row

valuevars == <<par, stmt, run, res>>

Index       == 1 .. MaxFieldCount
GivenTypes  == {v.type : v \in Given}
NoStatement == <<Null>>
Guessed     == "guessed"   \* a type the server finds from the text
NotRun      == [runs |-> FALSE, values |-> <<>>, meant |-> <<>>]
NotRead     == [type |-> Null, field |-> 0, isNull |-> TRUE, bytes |-> <<>>]
NoResult    == [open |-> FALSE, row |-> <<>>, ready |-> FALSE, field |-> 0, count |-> -1,
                types |-> [k \in Index |-> Null], last |-> NotRead]

(* prepareParamCount_ begins at -1, and currentFieldId_, which counts from *)
(* 0, too; the types of the parameters are not initialized.                *)
ValuesInit ==
  /\ par \in [count : {-1}, types : [Index -> GivenTypes], lengths : {[k \in Index |-> 0]},
             nulls : {[k \in Index |-> FALSE]}, data : {<<>>}, prepared : {FALSE}]
  /\ stmt = NoStatement /\ res = NoResult
  /\ run = [want |-> <<>>, now |-> NotRun, short |-> FALSE]

----------------------------------------
(* Parameters. *)

(* prepare(): a new text. *)
PrepareText ==
  /\ par' = [par EXCEPT !.prepared = FALSE, !.count = 0, !.data = <<>>]
  /\ run' = [run EXCEPT !.want = <<>>, !.now = NotRun]
  /\ UNCHANGED <<stmt, res>>

(* setParamType *)
SetParamType(p, v) ==
  LET k == p.count + 1 IN
  [p EXCEPT !.prepared = @ /\ p.types[k] = v.type,
            !.types[k] = v.type, !.lengths[k] = Len(v.bytes), !.nulls[k] = v.null,
            !.count = k, !.data = @ \o v.bytes]

(* operator<<: a value beyond the limit is left out.  The callers prepare  *)
(* before they give values.                                                *)
GiveValue(v) ==
  /\ par.count \in 0 .. MaxFieldCount - 1
  /\ par' = SetParamType(par, v)
  /\ run' = [run EXCEPT !.want = Append(@, v), !.now = NotRun]
  /\ UNCHANGED <<stmt, res>>

(* A parameter begins where the one before it ends. *)
Begins(p, k) ==
  LET end[n \in 0 .. MaxFieldCount] == IF n = 0 THEN 0 ELSE end[n - 1] + p.lengths[n]
  IN  end[k - 1]
ValueAt(p, k) ==
  IF p.nulls[k] THEN <<>> ELSE SubSeq(p.data, Begins(p, k) + 1, Begins(p, k) + p.lengths[k])

\* Mutant: the bytes of the parameters that are dropped stay.
KeepBytes(p, keep) == [p EXCEPT !.count = keep]

(* The first parameters stay for the next time. *)
Keep(p, keep) == [p EXCEPT !.count = keep, !.data = SubSeq(@, 1, Begins(p, keep + 1))]

(* PQprepare: the server finds the types it is not told. *)
TypesPrepared(p) ==
  [k \in 1 .. (IF p.count > Places THEN p.count ELSE Places) |->
     IF k <= p.count /\ p.types[k] # Null THEN p.types[k] ELSE Guessed]

ResultEnded(r) == [r EXCEPT !.open = FALSE]

(* Whether an exec prepared less than the text asks for. *)
Short == IF par.prepared THEN run.short ELSE par.count < Places

(* exec without prepare, of a transaction that is to be rolled back, or    *)
(* that cannot be sent or prepared: the parameters stay, and a statement   *)
(* that could not be prepared counts as prepared.                          *)
ExecRefused ==
  /\ \/ UNCHANGED <<par, stmt, res>> /\ run' = [run EXCEPT !.now = NotRun]
     \/ /\ par.count >= 0
        /\ stmt' \in IF par.prepared THEN {stmt} ELSE {NoStatement, TypesPrepared(par)}
        /\ par' = [par EXCEPT !.prepared = TRUE]
        /\ run' = [run EXCEPT !.short = Short, !.now = NotRun]
        /\ res' = ResultEnded(res)

(* exec(keepFields) that is sent.  The server runs the statement when it   *)
(* gets as many parameters as the statement has.                           *)
ExecValues(keep) ==
  LET now == IF par.prepared THEN stmt ELSE TypesPrepared(par) IN
  /\ keep <= par.count
  /\ stmt' = now
  /\ par' = [Keep(par, keep) EXCEPT !.prepared = TRUE]
  /\ run' =
       [want  |-> SubSeq(run.want, 1, keep),
        short |-> Short,
        now   |-> IF now = NoStatement \/ par.count # Len(now) THEN NotRun
                  ELSE [runs   |-> TRUE,
                        values |-> [k \in 1 .. par.count |->
                                      [type |-> now[k], null |-> par.nulls[k], bytes |-> ValueAt(par, k)]],
                        meant  |-> run.want]]
  /\ res' = ResultEnded(res)

----------------------------------------
(* Rows. *)

(* initResult: what is known of the fields of the result before stays.     *)
ResultBegins(row) ==
  /\ ~res.open
  /\ res' = [res EXCEPT !.open = TRUE, !.row = row, !.ready = FALSE, !.last = NotRead]
  /\ UNCHANGED <<par, stmt, run>>

(* next() that finds out about the fields. *)
FieldsOf(row) ==
  [res EXCEPT !.count = Len(row),
              !.types = [k \in Index |-> IF k \in DOMAIN row THEN row[k].type ELSE res.types[k]]]

(* next(): the first row, another one, or the end; the rows have the same  *)
(* types.                                                                  *)
NextRow(row) ==
  /\ res.open
  /\ [k \in DOMAIN row |-> row[k].type] = [k \in DOMAIN res.row |-> res.row[k].type]
  /\ ~res.ready => row = res.row
  /\ res' =
       IF Len(row) > MaxFieldCount THEN [ResultEnded(res) EXCEPT !.count = Len(row)]
       ELSE [(IF res.ready THEN res ELSE FieldsOf(row)) EXCEPT
               !.row = row, !.field = 1, !.ready = TRUE, !.last = NotRead]
  /\ UNCHANGED <<par, stmt, run>>

NoRowLeft ==
  /\ res.open /\ res.ready
  /\ res' = [ResultEnded(res) EXCEPT !.last = NotRead]
  /\ UNCHANGED <<par, stmt, run>>

(* checkField: a reader of another type ends the result.  Before next the  *)
(* fields are those of the result before: a value of another type passes   *)
(* when it has the size of the one asked for, and a type outside the array *)
(* may be any.                                                             *)
FieldAt(r) == IF r.field \in DOMAIN r.row THEN r.row[r.field] ELSE [type |-> Null, null |-> TRUE, bytes |-> <<>>]
Readable(r, type) ==
  CASE ~r.open \/ r.field > r.count -> {FALSE}
    [] OTHER -> CASE type = Null -> {TRUE}
                  [] r.field \notin Index -> BOOLEAN
                  [] r.types[r.field] # type -> {FALSE}
                  [] OTHER -> IF FieldAt(r).null \/ FieldAt(r).type = type THEN {TRUE} ELSE BOOLEAN

(* operator>> and isNull, which read the field and stay. *)
ReadField(type, stay, ok) ==
  LET f == FieldAt(res)
      r == [res EXCEPT !.last = [type |-> type, field |-> res.field, isNull |-> ok => f.null,
                                 bytes |-> IF ok /\ type # Null THEN f.bytes ELSE <<>>]]
  IN
  /\ ok \in Readable(res, type)
  /\ stay => type = Null
  /\ res' = IF ~ok THEN ResultEnded(r) ELSE IF stay THEN r ELSE [r EXCEPT !.field = @ + 1]
  /\ UNCHANGED <<par, stmt, run>>

(* get(field) and isNull(field) go to a field. *)
GoTo(k) ==
  /\ res' = [res EXCEPT !.field = k, !.last = NotRead]
  /\ UNCHANGED <<par, stmt, run>>

ParametersNext ==
  \/ PrepareText \/ ExecRefused
  \/ \E v \in Given : GiveValue(v)
  \/ \E keep \in 0 .. MaxFieldCount : ExecValues(keep)

RowsNext ==
  \/ NoRowLeft
  \/ \E row \in Rows : ResultBegins(row) \/ NextRow(row)
  \/ \E type \in GivenTypes, stay, ok \in BOOLEAN : ReadField(type, stay, ok)
  \/ \E k \in Index : GoTo(k)

ValuesNext == ParametersNext \/ RowsNext

ValuesSpec == ValuesInit /\ [][ValuesNext]_valuevars

----------------------------------------
ValuesTypeOK ==
  /\ par.count \in -1 .. MaxFieldCount /\ par.prepared \in BOOLEAN
  /\ par.types \in [Index -> GivenTypes] /\ par.lengths \in [Index -> Nat]
  /\ stmt \in Seq(GivenTypes \cup {Guessed, Null})
  /\ res.open \in BOOLEAN /\ res.field \in Nat /\ res.count \in Nat \cup {-1}

Bytes(v) == IF v.null THEN <<>> ELSE v.bytes

(* Psql::exec and operator<< (psql.cpp:430, 790): what the server runs a   *)
(* statement with is what was given since the last exec that was sent, in  *)
(* order and with the types given, those that exec kept before it.  Where  *)
(* the server found the type, nothing told it one: the value is null, or   *)
(* an exec gave less than the text asks for.                               *)
StatementGetsValues ==
  LET now == run.now IN
  now.runs =>
    /\ Len(now.values) = Len(now.meant)
    /\ \A k \in DOMAIN now.values :
         LET sent == now.values[k]  v == now.meant[k] IN
         /\ sent.null = v.null /\ sent.bytes = Bytes(v)
         /\ sent.type = v.type \/ (sent.type = Guessed /\ (v.type = Null \/ run.short))

(* The buffer holds the values that wait for an exec and nothing else,     *)
(* whatever was kept, refused or prepared anew.                            *)
BufferTells ==
  /\ Len(run.want) = IF par.count < 0 THEN 0 ELSE par.count
  /\ par.count >= 0 => Len(par.data) = Begins(par, par.count + 1)
  /\ \A k \in 1 .. par.count :
       par.nulls[k] = run.want[k].null /\ ValueAt(par, k) = Bytes(run.want[k])

(* Once next() has reached a row: a value comes from the field it was read *)
(* at and has the type asked for, a reader of another type gets none, then *)
(* or later, and nothing is left of the fields of the result before.       *)
RowsRead ==
  LET last == res.last IN
  res.ready /\ ~last.isNull =>
    /\ last.field \in DOMAIN res.row
    /\ LET f == res.row[last.field] IN
         /\ ~f.null /\ last.type \in {Null, f.type}
         /\ last.type # Null => last.bytes = f.bytes

(* Every number and every time in milliseconds that a statement is run     *)
(* with comes back as it went.                                             *)
NumbersBack ==
  run.now.runs =>
    /\ \A range \in {Byte, Byte * Byte} :
         /\ \A v \in 0 .. range - 1 : ReadNumber(SentNumber(v, range), range, FALSE) = v
         /\ \A v \in -(range \div 2) .. range \div 2 - 1 :
              ReadNumber(SentNumber(v, range), range, TRUE) = v
    /\ \A msec \in 0 .. 2 * Delta : ReadTime(SentTime(msec)) = msec

(* The values of a prepared statement are the ones given, and the ones     *)
(* read those of the row.                                                  *)
ValuesKept == StatementGetsValues /\ BufferTells /\ RowsRead /\ NumbersBack
========================================
