--------------------------- MODULE AffectedCells ---------------------------
(***************************************************************************)
(* Which cells one revocation reaches.  Cells that share a scope or a      *)
(* resource stop together; a caller with several cells to revoke (a fact's *)
(* dependents, a host's cells, a producer's registrations) walks over them *)
(* and skips those an earlier closure has reached.                         *)
(*                                                                         *)
(* Source: crates/rx-application/src/engine/invalidation.rs.  All of it    *)
(* happens inside one transaction: the actions are the loop's rounds.      *)
(***************************************************************************)
EXTENDS Naturals, FiniteSets

CONSTANTS
    Cells,
    Links,      \* scope and resource names
    MaxLinks    \* bound: names one cell uses

VARIABLES
    uses,       \* [Cells -> SUBSET Links]: scopes and step resources of a cell
    origins,    \* the cells the caller must revoke
    pc,         \* "scan" | "widen" | "apply" | "done"
    selected,   \* the closure under construction
    visited,    \* cells reached by an earlier closure of this caller
    hits        \* [Cells -> Nat]: how often the cell was invalidated

closureVars == <<uses, origins, pc, selected, visited, hits>>

ClosureInit ==
    /\ uses \in [Cells -> {u \in SUBSET Links : Cardinality(u) <= MaxLinks}]
    /\ origins \in SUBSET Cells
    /\ pc = "scan"
    /\ selected = {}
    /\ visited = {}
    /\ hits = [c \in Cells |-> 0]

\* A slip for the mutation runs: every origin starts a closure of its own.
PickAgain(c) ==
    /\ pc = "scan" /\ c \in origins /\ hits[c] < 2
    /\ selected' = {c} /\ pc' = "widen"
    /\ UNCHANGED <<uses, origins, visited, hits>>

\* The caller's loop: the next cell it must revoke and has not reached.
Pick(c) ==
    /\ pc = "scan" /\ c \in origins \ visited
    /\ selected' = {c} /\ pc' = "widen"
    /\ UNCHANGED <<uses, origins, visited, hits>>

\* One round of affected_cells_from.
Reached(S) == {c \in Cells : uses[c] \cap UNION {uses[d] : d \in S} # {}}

Widen ==
    /\ pc = "widen"
    /\ selected' = selected \cup Reached(selected)
    /\ pc' = IF selected' = selected THEN "apply" ELSE "widen"
    /\ UNCHANGED <<uses, origins, visited, hits>>

\* invalidate_cell for every selected cell.
Apply ==
    /\ pc = "apply"
    /\ hits' = [c \in Cells |-> IF c \in selected THEN hits[c] + 1 ELSE hits[c]]
    /\ visited' = visited \cup selected
    /\ pc' = "scan"
    /\ UNCHANGED <<uses, origins, selected>>

Finish ==
    /\ pc = "scan" /\ origins \subseteq visited
    /\ pc' = "done"
    /\ UNCHANGED <<uses, origins, selected, visited, hits>>

ClosureNext == (\E c \in Cells : Pick(c)) \/ Widen \/ Apply \/ Finish

ClosureSpec == ClosureInit /\ [][ClosureNext]_closureVars

-----------------------------------------------------------------------------
Shares(c, d) == c = d \/ uses[c] \cap uses[d] # {}

\* No shared name leads out of the group.
Whole(group) == \A d \in group, e \in Cells : Shares(d, e) => e \in group

\* c is reached from o by a chain of shared names: every whole group that o
\* is in has c in it.
ConnectedWith(o, c) == \A group \in SUBSET Cells : o \in group /\ Whole(group) => c \in group

\* invalidate_fact_closures and its siblings revoke exactly the cells that
\* are connected with one they were asked about, through any chain of
\* shared names, and no cell twice (a second invalidation would move the
\* epoch past the fence sent for the first).
RevokesConnectedCellsOnce ==
    pc = "done" =>
        \A c \in Cells :
            hits[c] = IF \E o \in origins : ConnectedWith(o, c) THEN 1 ELSE 0

\* No cell is invalidated while one that shares a name with it is left out.
NoHalfRevokedGroup ==
    pc \in {"scan", "done"} =>
        \A c, d \in Cells : Shares(c, d) => hits[c] = hits[d]

\* The two together: a revocation reaches its whole group, each cell once.
RevocationIsWhole == RevokesConnectedCellsOnce /\ NoHalfRevokedGroup
=============================================================================
