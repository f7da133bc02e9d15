---------------------------- MODULE RequestLedger ----------------------------
(* What a client of the platform may rely on when it repeats a request: a    *)
(* request key stands for one body, its effect happens once however often it *)
(* is sent, and an answer, once given, is the answer of that key for as long *)
(* as the ledger lineage lasts.  Restoring a backup starts a new lineage at  *)
(* an earlier cut.                                                           *)
EXTENDS Naturals

CONSTANTS Keys, Runs, None

\* What a request asks for, and of which run.
Bodies == [op : {"create", "part", "end"}, run : Runs]

VARIABLES
  done,     \* done[k]: the body performed under key k, or None
  parts,    \* parts[r]: how many parts were begun in run r
  told,     \* the <<key, body>> answered in this lineage
  copy      \* the cut the last backup holds, or None

ledgerVars == <<done, parts, told, copy>>

LedgerInit ==
  /\ done = [k \in Keys |-> None]
  /\ parts = [r \in Runs |-> 0]
  /\ told = {}
  /\ copy = None

Performed(b) ==
  IF b.op = "part" THEN [parts EXCEPT ![b.run] = @ + 1] ELSE parts

Perform(k, b) ==
  /\ done[k] = None
  /\ done' = [done EXCEPT ![k] = b]
  /\ parts' = Performed(b)
  /\ UNCHANGED <<told, copy>>

Tell(k) ==
  /\ done[k] # None
  /\ told' = told \cup {<<k, done[k]>>}
  /\ UNCHANGED <<done, parts, copy>>

Copy ==
  /\ copy' = [done |-> done, parts |-> parts]
  /\ UNCHANGED <<done, parts, told>>

\* A new lineage owes nothing to the answers of the one it replaces.
Rewind ==
  /\ copy # None
  /\ done' = copy.done
  /\ parts' = copy.parts
  /\ told' = {}
  /\ UNCHANGED copy

LedgerNext ==
  \/ \E k \in Keys, b \in Bodies : Perform(k, b)
  \/ \E k \in Keys : Tell(k)
  \/ Copy
  \/ Rewind

LedgerSpec == LedgerInit /\ [][LedgerNext]_ledgerVars
=============================================================================
