---------------------------- MODULE EvidenceLog ----------------------------
(***************************************************************************)
(* What the platform promises an evidence producer: every stream (one host *)
(* and one of its journals) is an append-only log whose records take       *)
(* effect once, in order; `through` counts exactly those records; a stream *)
(* in dispute is closed for good.                                          *)
(***************************************************************************)
EXTENDS Naturals, Sequences

CONSTANTS Streams, Records, MaxSeq, MaxBatch

VARIABLES log, through, closed

logVars == <<log, through, closed>>

LogInit ==
    /\ log = [s \in Streams |-> <<>>]
    /\ through = [s \in Streams |-> 0]
    /\ closed = [s \in Streams |-> FALSE]

Suffixes == UNION {[1..n -> Records] : n \in 0..MaxBatch}

Extend(s) ==
    /\ ~closed[s]
    /\ \E suffix \in Suffixes : log' = [log EXCEPT ![s] = @ \o suffix]
    /\ through' = [through EXCEPT ![s] = Len(log'[s])]
    /\ \E c \in BOOLEAN : closed' = [closed EXCEPT ![s] = c]

LogSpec == LogInit /\ [][\E s \in Streams : Extend(s)]_logVars
=============================================================================
