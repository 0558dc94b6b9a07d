----------------------------- MODULE MaintArena -----------------------------
(***************************************************************************)
(* The scratch arena of maintenance_arena.c, shared by OTA, factory image, *)
(* flash maintenance, log download and the log index. Each function holds  *)
(* the arena's mutex for its whole body, so each is one step.              *)
(***************************************************************************)
EXTENDS Naturals

\* arena_state; owner "free" is MAINT_ARENA_FREE.
FreshArena == [owner |-> "free", content |-> "free", gen |-> 0, building |-> FALSE]

\* owner_writes_scratch: the others only hold the arena.
owner_writes_scratch(o) == o \in {"ota", "factory", "index", "autotune"}

\* Mutant: the index can be evicted under its builder.
CanClaimUnpinned(a, o) == a.owner \in {"free", o, "index"}

\* maint_arena_claim grants a free arena, one's own, and the log index's while
\* the index is not being built.
CanClaim(a, o) ==
  \/ a.owner \in {"free", o}
  \/ a.owner = "index" /\ o # "index" /\ ~a.building

Claim(a, o) ==
  LET fresh == owner_writes_scratch(o) /\ o # a.content
  IN  [a EXCEPT !.owner = o,
                !.content = IF fresh THEN o ELSE @,
                !.gen = IF fresh THEN @ + 1 ELSE @]

\* maint_arena_release by whoever is not the owner does nothing.
Release(a, o) == IF a.owner = o THEN [a EXCEPT !.owner = "free"] ELSE a

\* maint_arena_set_index_building
SetBuilding(a, b) == [a EXCEPT !.building = b]
====
