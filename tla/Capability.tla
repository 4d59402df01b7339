----------------------------- MODULE Capability ------------------------------
(***************************************************************************)
(* kernel/cap: the table of one capability space (cspace.c) and the tree of *)
(* capabilities derived from each other in it (capability.c).               *)
(*                                                                          *)
(* Every operation runs under the lock of its capability space, so it is    *)
(* one step here, but for cspace_resize, which tests the capacity before it *)
(* takes the lock.  The system calls give source and destination in the     *)
(* same space.  Object identifiers and badges are copied along and are left *)
(* out; so is cap_copy, which refuses every call: no function of the build  *)
(* sets the inheritable flag it asks for.                                   *)
(*                                                                          *)
(* Free slots are chained through the field that links a capability into a  *)
(* list of children.  An insertion asks only that its slot is free, not     *)
(* that it was taken off the chain: SYS_CAP_MOVE inserts at slot 1 without. *)
(* That overwrites the slot's link, and the chain is broken for good.  From *)
(* then on the model has no cspace_alloc_slot, which would follow the chain *)
(* into valid capabilities; nothing in the kernel calls it.                 *)
(***************************************************************************)
EXTENDS Integers, Sequences, FiniteSets, SequencesExt

CONSTANTS
  Capacity,     \* capacity the space is created with
  MaxCapacity,  \* CSPACE_MAX_CAPACITY
  MaxDepth,     \* CAP_MAX_DERIVE_DEPTH
  StackSize,    \* REVOKE_STACK_SIZE
  Types,        \* object types that capabilities are minted for
  Asked,        \* sets of rights that callers ask for
  UsedMax,      \* bound on used_count
  Resizers      \* calls of cspace_resize at a time

ASSUME CapabilityAssumption ==
  /\ Capacity \in Nat \ {0} /\ MaxCapacity \in Nat /\ Capacity <= MaxCapacity
  /\ MaxDepth \in Nat /\ StackSize \in Nat \ {0} /\ UsedMax \in Nat \ {0}
  /\ Resizers \in Nat

VARIABLES
  cap,       \* cap_table
  capacity,  \* capacity
  free,      \* the free list, its head first; empty once it is broken
  intact,    \* whether the free list's links are whole
  used,      \* used_count
  resizing   \* capacities that calls of cspace_resize have found larger

vars == <<cap, capacity, free, intact, used, resizing>>

NoSlot == -1   \* CAP_SLOT_INVALID
Root == 0      \* root_slot
Slots == 0 .. capacity - 1
Right == {"READ", "WRITE", "EXECUTE", "GRANT", "REVOKE"}
Mandatory == {"READ"}

\* s_cap_type_rights_table: the rights an object type allows.  READ is
\* mandatory for every type.
Allowed(type) ==
  Right \ CASE type \in {"INODE", "MEMORY_REGION"} -> {}
            [] type \in {"THREAD", "CSPACE", "CHANNEL", "FD"} -> {"EXECUTE"}
            [] type \in {"ENDPOINT", "NOTIFICATION", "CONNECTION", "SHM"} -> {"EXECUTE", "REVOKE"}
            [] type \in {"VM_SPACE", "DEVICE"} -> {"REVOKE"}
            [] type = "PAGE_FRAME" -> {"GRANT", "REVOKE"}
            [] type = "INTERRUPT" -> {"WRITE", "EXECUTE", "REVOKE"}

\* cap_validate_rights_for_type
RightsValid(type, rights) == Mandatory \subseteq rights /\ rights \subseteq Allowed(type)

FreeCap == [state |-> "FREE", type |-> "NONE", rights |-> {}, parent |-> NoSlot,
            depth |-> 0, children |-> <<>>]

Valid(s) == s \in Slots /\ cap[s].state = "VALID"

\* The table t without the link of slot s into a list of children.
Unlinked(t, s) == [p \in DOMAIN t |-> [t[p] EXCEPT !.children = Remove(@, s)]]

Init ==
  /\ capacity = Capacity
  /\ cap = [s \in 0 .. MaxCapacity - 1 |->
              IF s = Root
              THEN [FreeCap EXCEPT !.state = "VALID", !.type = "CSPACE", !.rights = Allowed("CSPACE")]
              ELSE FreeCap]
  /\ free = [k \in 1 .. Capacity - 1 |-> k] /\ intact = TRUE
  /\ used = 1
  /\ resizing = {}

\* The table after cap_insert_locked has filled slot s.
Filled(s, type, rights, parent) ==
  [p \in DOMAIN cap |->
     CASE p = s ->
            [state |-> "VALID", type |-> type, rights |-> rights, parent |-> parent,
             depth |-> IF parent = NoSlot THEN 0 ELSE cap[parent].depth + 1,
             children |-> <<>>]
       [] p = parent -> [cap[p] EXCEPT !.children = Append(@, s)]
       [] OTHER -> cap[p]]

\* Bug: off by one in the limit on the depth.
InsertableDeeper(s, type, rights, parent) ==
  /\ cap[s].state = "FREE" /\ used < UsedMax
  /\ RightsValid(type, rights)
  /\ parent # NoSlot => Valid(parent) /\ cap[parent].depth <= MaxDepth

\* cap_insert_locked accepts its arguments.
Insertable(s, type, rights, parent) ==
  /\ cap[s].state = "FREE" /\ used < UsedMax
  /\ RightsValid(type, rights)
  /\ parent # NoSlot => Valid(parent) /\ cap[parent].depth < MaxDepth

\* What an insertion at slot s does to the free list and the counter.
Inserted(s) ==
  /\ free' = IF Contains(free, s) THEN <<>> ELSE free
  /\ intact' = (intact /\ ~Contains(free, s))
  /\ used' = used + 1

\* Bug: the new capability is not counted.
MintUncounted(s, type, rights) ==
  /\ Valid(Root) /\ {"WRITE", "GRANT"} \subseteq cap[Root].rights
  /\ Insertable(s, type, rights, NoSlot)
  /\ cap' = Filled(s, type, rights, NoSlot)
  /\ free' = IF Contains(free, s) THEN <<>> ELSE free
  /\ intact' = (intact /\ ~Contains(free, s))
  /\ UNCHANGED <<capacity, used, resizing>>

\* cap_mint: the capability in the root slot must allow it.
Mint(s, type, rights) ==
  /\ Valid(Root) /\ {"WRITE", "GRANT"} \subseteq cap[Root].rights
  /\ Insertable(s, type, rights, NoSlot)
  /\ cap' = Filled(s, type, rights, NoSlot)
  /\ Inserted(s)
  /\ UNCHANGED <<capacity, resizing>>

\* Bug: rights need not be a subset of the source's.
DeriveAny(src, s, rights) ==
  /\ Valid(src) /\ "GRANT" \in cap[src].rights
  /\ rights # cap[src].rights
  /\ Insertable(s, cap[src].type, rights, src)
  /\ cap' = Filled(s, cap[src].type, rights, src)
  /\ Inserted(s)
  /\ UNCHANGED <<capacity, resizing>>

\* cap_derive: a child with strictly fewer rights.
Derive(src, s, rights) ==
  /\ Valid(src) /\ "GRANT" \in cap[src].rights
  /\ rights \subseteq cap[src].rights /\ rights # cap[src].rights
  /\ Insertable(s, cap[src].type, rights, src)
  /\ cap' = Filled(s, cap[src].type, rights, src)
  /\ Inserted(s)
  /\ UNCHANGED <<capacity, resizing>>

\* Bug: the children keep the parent_slot of the source.
MoveKeepsParent(src, s) ==
  LET c == cap[src]
      t == Unlinked(Filled(s, c.type, c.rights, c.parent), src)
  IN /\ Valid(src) /\ "GRANT" \in c.rights
     /\ Insertable(s, c.type, c.rights, c.parent)
     /\ cap' = [t EXCEPT ![s].children = c.children, ![src] = FreeCap]
     /\ Inserted(s)
     /\ UNCHANGED <<capacity, resizing>>

\* cap_move: insert at the destination under the same parent, hand over the
\* children, clear the source.  The source slot stays off the free list, and
\* used_count has counted the capability twice.
Move(src, s) ==
  LET c == cap[src]
      t == Unlinked(Filled(s, c.type, c.rights, c.parent), src)
  IN /\ Valid(src) /\ "GRANT" \in c.rights
     /\ Insertable(s, c.type, c.rights, c.parent)
     /\ cap' = [p \in DOMAIN cap |->
                  CASE p = src -> FreeCap
                    [] p = s -> [t[p] EXCEPT !.children = c.children]
                    [] Contains(c.children, p) -> [t[p] EXCEPT !.parent = s]
                    [] OTHER -> t[p]]
     /\ Inserted(s)
     /\ UNCHANGED <<capacity, resizing>>

\* One turn of cap_revoke's loop on r, its explicit stack and the state.  The
\* children are pushed while the stack has room; the slot joins the free list.
Turn(r) ==
  LET s == Last(r.stack)
      rest == Front(r.stack)
      kids == r.cap[s].children
      room == StackSize - Len(rest)
      pushed == SubSeq(kids, 1, IF Len(kids) <= room THEN Len(kids) ELSE room)
  IN IF r.stack = <<>> THEN r
     ELSE IF r.cap[s].state # "VALID" THEN [r EXCEPT !.stack = rest]
     ELSE [stack |-> rest \o pushed,
           cap |-> [Unlinked(r.cap, s) EXCEPT ![s] = FreeCap],
           free |-> IF intact THEN <<s>> \o r.free ELSE <<>>,
           used |-> IF r.used > 0 THEN r.used - 1 ELSE 0]

\* Bug: only the children of the revoked capability are pushed.
RevokedChildren(s) ==
  LET gone == <<s>> \o cap[s].children
  IN [stack |-> <<>>,
      cap |-> [p \in DOMAIN cap |-> IF Contains(gone, p) THEN FreeCap
                                    ELSE [cap[p] EXCEPT !.children = Remove(@, s)]],
      free |-> IF intact THEN gone \o free ELSE <<>>,
      used |-> used - Len(gone)]

\* The loop: a slot is pushed once at most, so it has ended after as many
\* turns as there are slots.
Revoked(s) ==
  LET after[n \in 0 .. capacity] ==
        IF n = 0 THEN [stack |-> <<s>>, cap |-> cap, free |-> free, used |-> used]
        ELSE Turn(after[n - 1])
  IN after[capacity]

\* cap_revoke: the capability and all derived from it, back to the free list.
Revoke(s) ==
  /\ Valid(s) /\ "REVOKE" \in cap[s].rights
  /\ LET r == Revoked(s) IN cap' = r.cap /\ free' = r.free /\ used' = r.used
  /\ UNCHANGED <<capacity, intact, resizing>>

\* Bug: the children are not detached.
DeleteLeavesChildren(s) ==
  /\ Valid(s)
  /\ cap' = [Unlinked(cap, s) EXCEPT ![s] = FreeCap]
  /\ UNCHANGED <<capacity, free, intact, used, resizing>>

\* cap_delete: the capability goes, its children become roots of their own
\* that keep their depth.  The slot stays off the free list and counted.
Delete(s) ==
  /\ Valid(s)
  /\ cap' = [p \in DOMAIN cap |->
               IF p = s THEN FreeCap
               ELSE IF Contains(cap[s].children, p) THEN [cap[p] EXCEPT !.parent = NoSlot]
               ELSE Unlinked(cap, s)[p]]
  /\ UNCHANGED <<capacity, free, intact, used, resizing>>

\* cspace_alloc_slot: the head of the free list goes to the caller, still FREE.
AllocSlot ==
  /\ intact /\ free # <<>>
  /\ free' = Tail(free)
  /\ cap' = [cap EXCEPT ![Head(free)] = FreeCap]
  /\ UNCHANGED <<capacity, intact, used, resizing>>

\* Bug: a slot that is already free is accepted.
FreeSlotTwice(s) ==
  /\ s \in Slots /\ cap[s].children = <<>>
  /\ cap' = [Unlinked(cap, s) EXCEPT ![s] = FreeCap]
  /\ free' = IF intact THEN <<s>> \o free ELSE <<>>
  /\ used' = IF used > 0 THEN used - 1 ELSE 0
  /\ UNCHANGED <<capacity, intact, resizing>>

\* cspace_free_slot, for a capability without children: it does not detach
\* them, so a caller has to revoke or delete a parent instead.
FreeSlot(s) ==
  /\ Valid(s) /\ cap[s].children = <<>>
  /\ cap' = [Unlinked(cap, s) EXCEPT ![s] = FreeCap]
  /\ free' = IF intact THEN <<s>> \o free ELSE <<>>
  /\ used' = IF used > 0 THEN used - 1 ELSE 0
  /\ UNCHANGED <<capacity, intact, resizing>>

\* cspace_resize: the test, before the lock ...
ResizeCall(n) ==
  /\ Cardinality(resizing) < Resizers
  /\ n > capacity /\ n <= MaxCapacity
  /\ resizing' = resizing \cup {n}
  /\ UNCHANGED <<cap, capacity, free, intact, used>>

\* ... and under it the new slots, if there still are any, pushed on the free
\* list one by one.  The table is not allocated anew.
Resize(n) ==
  /\ n \in resizing
  /\ cap' = [s \in DOMAIN cap |-> IF s \in capacity .. n - 1 THEN FreeCap ELSE cap[s]]
  /\ free' = IF intact /\ n > capacity THEN [k \in 1 .. n - capacity |-> n - k] \o free ELSE free
  /\ capacity' = n
  /\ resizing' = resizing \ {n}
  /\ UNCHANGED <<intact, used>>

Next ==
  \/ \E s \in Slots, type \in Types, rights \in Asked : Mint(s, type, rights)
  \/ \E src, s \in Slots, rights \in Asked : Derive(src, s, rights)
  \/ \E src, s \in Slots : Move(src, s)
  \/ \E s \in Slots : Revoke(s)
  \/ \E s \in Slots : Delete(s)
  \/ \E s \in Slots : FreeSlot(s)
  \/ AllocSlot
  \/ \E n \in 1 .. MaxCapacity : ResizeCall(n) \/ Resize(n)

Spec == Init /\ [][Next]_vars

(***************************************************************************)
(* Properties                                                               *)
(***************************************************************************)

\* Type correctness of the table, the free list and the counter.
TypeOK ==
  /\ capacity \in Capacity .. MaxCapacity
  /\ DOMAIN cap = 0 .. MaxCapacity - 1
  /\ \A s \in DOMAIN cap :
       /\ cap[s].state \in {"FREE", "VALID"}
       /\ cap[s].rights \subseteq Right
       /\ cap[s].parent \in DOMAIN cap \cup {NoSlot}
       /\ cap[s].depth \in 0 .. MaxDepth
       /\ cap[s].children \in Seq(DOMAIN cap)
  /\ free \in Seq(DOMAIN cap) /\ intact \in BOOLEAN /\ used \in 0 .. UsedMax
  /\ resizing \subseteq 1 .. MaxCapacity

\* Parent slots and lists of children describe one tree (checks a and b of
\* cap_integrity_check): a parent is valid and lists its child once, and a
\* list holds nobody else's children, through moves, deletions of inner nodes
\* and revocations.
TreeExact ==
  \A p, s \in Slots :
    /\ IsInjective(cap[p].children)
    /\ Contains(cap[p].children, s) <=> Valid(p) /\ Valid(s) /\ cap[s].parent = p

\* The depth grows from parent to child (check c as its comment has it, "child
\* >= parent + 1": a move of a former child resets its own depth only), so no
\* chain of derivations is longer than CAP_MAX_DERIVE_DEPTH, and none is a cycle.
DepthsGrow ==
  \A s \in Slots : Valid(s) /\ cap[s].parent # NoSlot =>
    /\ cap[s].depth > cap[cap[s].parent].depth
    /\ cap[s].depth <= MaxDepth

\* A capability has no right that its parent lacks, names an object of its
\* parent's type, and has only rights its type allows (checks d and e),
\* whatever moved between the derivation and now.
RightsAttenuated ==
  \A s \in Slots : Valid(s) =>
    /\ RightsValid(cap[s].type, cap[s].rights)
    /\ cap[s].parent # NoSlot =>
         /\ cap[s].rights \subseteq cap[cap[s].parent].rights
         /\ cap[s].type = cap[cap[s].parent].type

\* s and the capabilities derived from it, by parent slots.
Family(s) ==
  LET gen[n \in 0 .. capacity] ==
        IF n = 0 THEN {s}
        ELSE gen[n - 1] \cup {c \in Slots : Valid(c) /\ cap[c].parent \in gen[n - 1]}
  IN gen[capacity]

\* cap_revoke's walk over lists of children with its explicit stack ends with
\* every capability derived from the target cleared and, while the free list is
\* whole, given back to it, and with all others as they were, but for the link
\* to the target.  The code makes them FREE; RevokedRefused has what the header
\* and the tests expect.
RevokeExact ==
  [][\A s \in Slots : Revoke(s) =>
       /\ \A d \in Family(s) : cap'[d] = FreeCap /\ (intact => Contains(free', d))
       /\ \A o \in Slots \ Family(s) :
            cap'[o] = [cap[o] EXCEPT !.children = Remove(@, s)]]_vars

\* As long as every insertion used a slot from cspace_alloc_slot, or one that a
\* move or a deletion left behind, the free list holds free slots of the table,
\* each once: cspace_alloc_slot never hands out a slot that is in use or was
\* handed out before.
FreeListSound ==
  intact => /\ IsInjective(free)
            /\ \A k \in DOMAIN free : free[k] \in Slots /\ cap[free[k]].state = "FREE"

\* used_count never falls below the number of valid capabilities, so its test
\* for zero never hides a decrement.
UsedCovers == Cardinality({s \in Slots : Valid(s)}) <= used

-----------------------------------------------------------------------------
\* capability.h:198, test_capability_revoke.c:1298: a revoked slot is REVOKED,
\* not FREE, and an insertion at it is refused.
RevokedRefused ==
  [][\A s \in Slots, type \in Types, rights \in Asked :
       Revoke(s) => ~Insertable(s, type, rights, NoSlot)']_vars
==============================================================================
