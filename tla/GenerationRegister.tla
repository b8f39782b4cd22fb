------------------------- MODULE GenerationRegister -------------------------
(***************************************************************************)
(* What the immutable-generation store promises to cooperating processes:  *)
(* one compare-and-append register.  The register is a set of numbered     *)
(* documents.  A client reads the newest one and may append exactly one    *)
(* successor of the document it read, and only while that document is      *)
(* still the newest.  A document that was acknowledged ("Published") is    *)
(* never lost again; one that was not may be lost by a power failure.      *)
(***************************************************************************)
EXTENDS Integers

CONSTANTS
  Clients,      \* processes using the store
  Documents,    \* raw documents
  NotRead,      \* the client holds no observation
  NoRecord      \* the client observed that there is no record

VARIABLES
  history,      \* set of numbered documents present in the store
  acked,        \* the ones some client was told are durably published
  known         \* what each client last observed

vars == <<history, acked, known>>

Record == [gen : Nat \ {0}, doc : Documents]

Newest(h) == {r \in h : \A s \in h : s.gen <= r.gen}

(* The newest record of a set of records, or NoRecord. *)
Tip(h) == IF h = {} THEN NoRecord ELSE CHOOSE r \in Newest(h) : TRUE

Init ==
  /\ history = {}
  /\ acked = {}
  /\ known = [c \in Clients |-> NotRead]

Read(c) ==
  /\ known' = [known EXCEPT ![c] = Tip(history)]
  /\ UNCHANGED <<history, acked>>

(* The append takes effect only against the document the client observed. *)
Append(c, d) ==
  /\ known[c] # NotRead
  /\ known[c] = Tip(history)
  /\ history' = history \cup
       {[gen |-> IF history = {} THEN 1 ELSE Tip(history).gen + 1, doc |-> d]}
  /\ UNCHANGED <<acked, known>>

(* The client learns that its append is the newest record and durable. *)
Acknowledge(c) ==
  /\ history # {}
  /\ acked' = acked \cup {Tip(history)}
  /\ known' = [known EXCEPT ![c] = Tip(history)]
  /\ UNCHANGED history

(* A refusal, an uncertain result or the death of the process. *)
Forget(c) ==
  /\ known' = [known EXCEPT ![c] = NotRead]
  /\ UNCHANGED <<history, acked>>

PowerLoss ==
  /\ \E kept \in SUBSET history : acked \subseteq kept /\ history' = kept
  /\ known' = [c \in Clients |-> NotRead]
  /\ UNCHANGED acked

Next ==
  \/ \E c \in Clients :
       \/ Read(c)
       \/ \E d \in Documents : Append(c, d)
       \/ Acknowledge(c)
       \/ Forget(c)
  \/ PowerLoss

Spec == Init /\ [][Next]_vars
=============================================================================
