--------------------------- MODULE TLSCredentials ---------------------------
(***************************************************************************)
(* The certificates and keys of TLS (crypt/tlscredentials.cpp): what an    *)
(* application adds, or has loaded from a directory and then activates,    *)
(* the chain that is built for each private key, and what the TLS library  *)
(* is given of it in a handshake.                                          *)
(*                                                                         *)
(* A certificate is the record of what the code looks at: its public key,  *)
(* the name and the key algorithm, its subject key id and the authority    *)
(* key id of its issuer.  A private key is named like its public key; a    *)
(* file is what can be parsed of it.  A loop over files, and each round of *)
(* the search for a chain, is a step; a call ends before the next.         *)
(***************************************************************************)
EXTENDS Integers, Sequences, SequencesExt

CONSTANTS
  Certs,       \* certificates: [key, algo, name, id, by]
  CertFiles,   \* files of certificates: sequences of them
  PrivateKeys, \* named like their public keys
  CrlFiles,    \* files of revocation lists: how many are in each
  NoKey,       \* what is read from a key file that cannot be used
  MaxFiles,    \* bound: files that are loaded and not activated
  MaxServed     \* bound: calls of the application

ASSUME CredAssumption ==
  /\ CertFiles \subseteq Seq(Certs) /\ CrlFiles \subseteq Nat
  /\ NoKey \notin PrivateKeys /\ MaxFiles \in Nat

VARIABLES
  allCerts,  \* in the order they were added
  trusted,   \* trustedCAs: its certificates
  crls,      \* how many revocation lists it has
  chains,    \* of each key its certificates; among: history: how many were known then
  loaded,    \* loadedCerts, loadedKeys, loadedCrls
  call,      \* what the call that runs has still to do, or has answered
  served      \* how many calls there were

credvars == <<allCerts, trusted, crls, chains, loaded, call, served>>

Nothing  == [certs |-> <<>>, keys |-> <<>>, crls |-> <<>>]
Files(l) == Len(l.certs) + Len(l.keys) + Len(l.crls)

Calling(certs, keys, lists, isTrustedCA) ==
  [certs |-> certs, keys |-> keys, crls |-> lists, trust |-> isTrustedCA,
   chain |-> <<>>, key |-> NoKey,   \* the chain at hand and its key
   rv |-> 0,      \* of the file at hand
   ok |-> TRUE,   \* what activateLoaded and addPrivateKey answer
   of |-> keys]   \* history: all the keys of the call

Returned == call.certs = <<>> /\ call.keys = <<>> /\ call.crls = <<>> /\ call.chain = <<>>

CredInit ==
  /\ allCerts = <<>> /\ trusted = {} /\ crls = 0 /\ chains = <<>>
  /\ loaded = Nothing /\ call = Calling(<<>>, <<>>, <<>>, FALSE) /\ served = 0

----------------------------------------
(* The calls.                                                              *)

Begin(certs, keys, lists, isTrustedCA) ==
  /\ Returned /\ served < MaxServed /\ served' = served + 1
  /\ call' = Calling(certs, keys, lists, isTrustedCA) /\ UNCHANGED <<allCerts, trusted, crls, chains>>

AddCerts ==
  /\ \E file \in CertFiles, isTrustedCA \in BOOLEAN : Begin(<<file>>, <<>>, <<>>, isTrustedCA)
  /\ UNCHANGED loaded

AddPrivateKey ==
  /\ \E key \in PrivateKeys \cup {NoKey} : Begin(<<>>, <<key>>, <<>>, FALSE)
  /\ UNCHANGED loaded

AddRevocationLists ==
  /\ \E file \in CrlFiles : Begin(<<>>, <<>>, <<file>>, FALSE)
  /\ UNCHANGED loaded

(* loadFromDir: the files are read, and parsed only when they are          *)
(* activated.                                                              *)
LoadFromDir ==
  /\ Returned /\ served < MaxServed /\ served' = served + 1
  /\ \E certs \in SeqOf(CertFiles, MaxFiles), keys \in SeqOf(PrivateKeys \cup {NoKey}, MaxFiles),
        lists \in SeqOf(CrlFiles, MaxFiles) :
       /\ Files(loaded) + Files([certs |-> certs, keys |-> keys, crls |-> lists]) \in 1 .. MaxFiles
       /\ loaded' = [certs |-> loaded.certs \o certs, keys |-> loaded.keys \o keys,
                     crls |-> loaded.crls \o lists]
  /\ UNCHANGED <<allCerts, trusted, crls, chains, call>>

ActivateLoaded ==
  /\ \E isTrustedCA \in BOOLEAN : Begin(loaded.certs, loaded.keys, loaded.crls, isTrustedCA)
  /\ loaded' = Nothing

----------------------------------------
(* Certificates, revocation lists.                                         *)

Known(c) == \E i \in 1 .. Len(allCerts) : allCerts[i] = c

(* addCerts.  A certificate that is known stays as it is.                  *)
TakeCert ==
  /\ call.certs # <<>> /\ Head(call.certs) # <<>>
  /\ LET c    == Head(Head(call.certs))
         rest == <<Tail(Head(call.certs))>> \o Tail(call.certs)
     IN IF Known(c)
        THEN /\ call' = [call EXCEPT !.certs = rest]
             /\ UNCHANGED <<allCerts, trusted>>
        ELSE /\ call' = [call EXCEPT !.certs = rest, !.rv = @ + 1]
             /\ allCerts' = Append(allCerts, c)
             /\ trusted' = IF call.trust THEN trusted \cup {c} ELSE trusted
  /\ UNCHANGED <<crls, chains, loaded, served>>

CertsTaken ==
  /\ call.certs # <<>> /\ Head(call.certs) = <<>>
  /\ call' = [call EXCEPT !.certs = Tail(@), !.ok = @ /\ call.rv > 0, !.rv = 0]
  /\ UNCHANGED <<allCerts, trusted, crls, chains, loaded, served>>

TakeLists ==
  /\ call.certs = <<>> /\ call.keys = <<>> /\ call.crls # <<>>
  /\ crls' = crls + Head(call.crls)
  /\ call' = [call EXCEPT !.crls = Tail(@), !.ok = @ /\ Head(call.crls) > 0]
  /\ UNCHANGED <<allCerts, trusted, chains, loaded, served>>

----------------------------------------
(* addPrivateKey.                                                          *)

HasChain(key) == \E n \in 1 .. Len(chains) : chains[n].key = key

(* The number of the first certificate that is one of fits.                *)
IsFirst(i, fits) == allCerts[i] \in fits /\ \A j \in 1 .. i - 1 : allCerts[j] \notin fits
NoneOf(fits) == \A i \in 1 .. Len(allCerts) : allCerts[i] \notin fits

OfKey(key) == {c \in Certs : c.key = key}

(* Who issued the last of these certificates, as far as the ids tell, and  *)
(* is not one of them.                                                     *)
Issuers(certs) == {c \in Certs : c.id = certs[Len(certs)].by /\ \A k \in 1 .. Len(certs) : certs[k] # c}

AtKey == call.certs = <<>> /\ call.keys # <<>> /\ call.chain = <<>>

(* The key cannot be used, has a chain or has no certificate.              *)
RefuseKey ==
  /\ AtKey
  /\ LET key == Head(call.keys) IN
     /\ key = NoKey \/ HasChain(key) \/ NoneOf(OfKey(key))
     /\ call' = [call EXCEPT !.keys = Tail(@), !.ok = FALSE]
  /\ UNCHANGED <<allCerts, trusted, crls, chains, loaded, served>>

(* StartChain that does not ask whether there is a chain for the key. *)
StartChainAgain ==
  /\ AtKey
  /\ LET key == Head(call.keys) IN
     /\ key # NoKey
     /\ \E i \in 1 .. Len(allCerts) :
          /\ IsFirst(i, OfKey(key))
          /\ call' = [call EXCEPT !.keys = Tail(@),
                                  !.chain = <<allCerts[i]>>, !.key = key]
  /\ UNCHANGED <<allCerts, trusted, crls, chains, loaded, served>>

StartChain ==
  /\ AtKey
  /\ LET key == Head(call.keys) IN
     /\ key # NoKey /\ ~HasChain(key)
     /\ \E i \in 1 .. Len(allCerts) :
          /\ IsFirst(i, OfKey(key))
          /\ call' = [call EXCEPT !.keys = Tail(@),
                                  !.chain = <<allCerts[i]>>, !.key = key]
  /\ UNCHANGED <<allCerts, trusted, crls, chains, loaded, served>>

ContinueChain ==
  /\ call.chain # <<>>
  /\ \E i \in 1 .. Len(allCerts) :
       /\ IsFirst(i, Issuers(call.chain))
       /\ call' = [call EXCEPT !.chain = Append(@, allCerts[i])]
  /\ UNCHANGED <<allCerts, trusted, crls, chains, loaded, served>>

EndChain ==
  /\ call.chain # <<>> /\ NoneOf(Issuers(call.chain))
  /\ chains' = Append(chains, [certs |-> call.chain, key |-> call.key,
                               among |-> Len(allCerts)])
  /\ call' = [call EXCEPT !.chain = <<>>]
  /\ UNCHANGED <<allCerts, trusted, crls, loaded, served>>

CredNext ==
  \/ AddCerts \/ AddPrivateKey \/ AddRevocationLists \/ LoadFromDir \/ ActivateLoaded
  \/ TakeCert \/ CertsTaken \/ TakeLists
  \/ RefuseKey \/ StartChain \/ ContinueChain \/ EndChain

CredSpec == CredInit /\ [][CredNext]_credvars

----------------------------------------
(* What the TLS library is given, and what is shown.                       *)

(* cert_chain: the number of the first chain for a name (any: all names)   *)
(* and kinds of keys; 0: none.                                             *)
Suits(n, context, types) ==
  LET first == chains[n].certs[1] IN first.name \in context /\ first.algo \in types
CertChain(context, types) ==
  IF \E n \in 1 .. Len(chains) : Suits(n, context, types)
  THEN CHOOSE n \in 1 .. Len(chains) :
         Suits(n, context, types) /\ \A m \in 1 .. n - 1 : ~Suits(m, context, types)
  ELSE 0

(* private_key_for: the key of the first chain that begins with it.        *)
PrivateKeyFor(c) ==
  IF \E n \in 1 .. Len(chains) : chains[n].certs[1] = c
  THEN chains[CHOOSE n \in 1 .. Len(chains) :
                chains[n].certs[1] = c /\ \A m \in 1 .. n - 1 : chains[m].certs[1] # c].key
  ELSE NoKey

----------------------------------------
(* Properties                                                              *)

CredTypeOK ==
  /\ allCerts \in Seq(Certs) /\ trusted \subseteq Certs /\ crls \in Nat
  /\ loaded.certs \in Seq(CertFiles) /\ call.keys \in Seq(PrivateKeys \cup {NoKey})

(* Begins with the certificate of its key, goes on with the issuer of each *)
(* (as far as ids tell), without a repetition, and ends where none of the  *)
(* certificates that were known continues it.                              *)
ChainOf(certs, key, among) ==
  /\ certs # <<>> /\ certs[1].key = key
  /\ \A k \in 1 .. Len(certs) - 1 : certs[k + 1].id = certs[k].by
  /\ \A j, k \in 1 .. Len(certs) : certs[j] = certs[k] => j = k
  /\ \A k \in 1 .. Len(certs) : \E i \in 1 .. among : allCerts[i] = certs[k]
WholeChain(ch) ==
  /\ ch.among <= Len(allCerts) /\ ChainOf(ch.certs, ch.key, ch.among)
  /\ \A i \in 1 .. ch.among : allCerts[i] \notin Issuers(ch.certs)

(* Whatever is added, loaded and activated in whatever order: each key has *)
(* one chain, and that is whole; the certificate a handshake shows for a   *)
(* name comes with its own private key; and a call that answers that all   *)
(* went well leaves a chain for each of its keys.                          *)
CredentialsFit ==
  /\ \A n \in 1 .. Len(chains) : WholeChain(chains[n])
  /\ \A m, n \in 1 .. Len(chains) : chains[m].key = chains[n].key => m = n
  /\ \A context \in SUBSET {c.name : c \in Certs}, types \in SUBSET {c.algo : c \in Certs} :
       LET n == CertChain(context, types) IN
       n # 0 => /\ chains[n].certs[1].name \in context /\ chains[n].certs[1].algo \in types
                /\ PrivateKeyFor(chains[n].certs[1]) = chains[n].certs[1].key
  /\ Returned /\ call.ok => \A k \in 1 .. Len(call.of) : HasChain(call.of[k])
========================================
