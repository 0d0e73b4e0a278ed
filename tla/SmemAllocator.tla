--------------------------- MODULE SmemAllocator ---------------------------
(***************************************************************************)
(* Placement of a kernel's shared memory while its code is emitted:        *)
(* SharedMemoryAllocator and SharedMemoryAllocationContext                 *)
(* (backends/contexts/smem_alloc_ctx.py), the barriers placed when the     *)
(* body is complete (mbarrier_alloc_ctx.py), and the size check at the     *)
(* launch (codegen.py).                                                    *)
(*                                                                         *)
(* Emission is sequential, so the nondeterminism is the kernel: which      *)
(* tensors it allocates and frees, in which order, of which sizes and      *)
(* swizzles, and what else it asks for.  Tensor names may be used again:   *)
(* a second allocation under a name stands for another tensor.             *)
(***************************************************************************)
EXTENDS Integers, FiniteSets, SequencesExt

CONSTANTS
    Tensors,        \* shared tensors of the kernel
    BarrierTensor,  \* the tensor made for all the barriers at the end
    Sizes,          \* storage sizes in bytes
    Alignments,     \* results of _get_swizzle_alignment
    MinAlign,       \* its smallest result, 128
    Top,            \* end of the initial free slot, 2^32 - 1
    BarrierBytes,   \* size of one mbarrier, 8
    MaxBarriers,    \* bound: barriers requested
    Limit,          \* shared_memory_per_block of the target
    MayBridge,      \* bound: whether a tensor lying between two free slots may be freed
    None            \* owner of a free byte

ASSUME SizeAssumption ==
    /\ Sizes \subseteq Nat \ {0}
    /\ MayBridge \in BOOLEAN
    /\ Top \in Nat \ {0} /\ Limit \in Nat /\ BarrierBytes \in Nat \ {0} /\ MaxBarriers \in Nat
ASSUME AlignAssumption ==
    /\ MinAlign \in Nat \ {0} /\ MinAlign \in Alignments
    /\ \A a \in Alignments : a \in Nat /\ a >= MinAlign /\ a % MinAlign = 0

ASSUME NameAssumption == BarrierTensor \notin Tensors /\ None \notin Tensors \union {BarrierTensor}

Owners == Tensors \union {BarrierTensor}

VARIABLES
    freeSlots,         \* free_slots: sequence of <<start, end>>
    addr2nbytes,       \* [allocated addresses -> rounded size]
    allocated,         \* bytes in live blocks
    maximumAllocated,  \* end of the highest block there ever was
    addrOf,            \* shared_value_allocator_addr: [live tensors -> address]
    barriers,          \* number of barriers asked for (len(counts))
    workspaceBytes,    \* size of the shared workspace; 0 while nothing asked for it
    arena,             \* [workspace |-> its offset, bytes |-> dynamic_smem_bytes]
    phase,             \* how far the emission has come, or how it failed
    touched,           \* history: bytes that ever belonged to a tensor of the kernel
    bridged            \* history: whether a tensor between two free slots was freed

allocator == <<freeSlots, addr2nbytes, allocated, maximumAllocated, bridged>>
vars == <<allocator, addrOf, barriers, workspaceBytes, arena, phase, touched>>

Failures == {"noSlot", "asserted", "keyError", "tooLarge"}
Bytes == 0 .. Top - 1
Block(addr) == addr .. addr + addr2nbytes[addr] - 1

TypeOK ==
    /\ \A i \in DOMAIN freeSlots : freeSlots[i] \in (0 .. Top) \X (0 .. Top)
    /\ DOMAIN addr2nbytes \subseteq Bytes
    /\ \A a \in DOMAIN addr2nbytes : addr2nbytes[a] \in 1 .. Top - a
    /\ allocated \in 0 .. Top /\ maximumAllocated \in 0 .. Top
    /\ DOMAIN addrOf \subseteq Owners /\ Range(addrOf) \subseteq Bytes
    /\ barriers \in 0 .. MaxBarriers /\ workspaceBytes \in Sizes \union {0}
    /\ arena \in [workspace : Nat, bytes : Nat]
    /\ phase \in {"body", "barriersPlaced", "sized", "launched"} \union Failures
    /\ touched \subseteq Bytes /\ bridged \in BOOLEAN

Init ==
    /\ freeSlots = << <<0, Top>> >>
    /\ addr2nbytes = <<>>
    /\ allocated = 0 /\ maximumAllocated = 0
    /\ addrOf = <<>>
    /\ barriers = 0 /\ workspaceBytes = 0
    /\ arena = [workspace |-> 0, bytes |-> 0]
    /\ phase = "body"
    /\ touched = {} /\ bridged = FALSE
-----------------------------------------------------------------------------
AlignUp(n, a) == ((n + a - 1) \div a) * a

\* The place of the i-th slot when the list is sorted by start; the sort is stable.
Rank(slots, i) ==
    Cardinality({j \in DOMAIN slots : \/ slots[j][1] < slots[i][1]
                                      \/ slots[j][1] = slots[i][1] /\ j <= i})

Sorted(slots) ==
    [k \in DOMAIN slots |-> slots[CHOOSE i \in DOMAIN slots : Rank(slots, i) = k]]

Slot(start, end) == IF start < end THEN << <<start, end>> >> ELSE <<>>

\* Mutant: the slot is tested with its own start, not the aligned one.
Fits_UnalignedStart(slot, nbytes, a) == slot[1] + nbytes <= slot[2]

Fits(slot, nbytes, a) == AlignUp(slot[1], a) + nbytes <= slot[2]

\* Mutant: the tail starts at the block instead of behind it.
Leftovers_TailAtBlock(slot, addr, nbytes) == Slot(slot[1], addr) \o Slot(addr, slot[2])

\* Mutant: what lies before the aligned start is dropped.
Leftovers_NoHead(slot, addr, nbytes) == Slot(addr + nbytes, slot[2])

Leftovers(slot, addr, nbytes) == Slot(slot[1], addr) \o Slot(addr + nbytes, slot[2])

\* SharedMemoryAllocator.allocate: the first slot, in list order, that holds the request.
Allocate(o, n, a, next) ==
    LET nbytes  == AlignUp(n, a)
        fitting == {i \in DOMAIN freeSlots : Fits(freeSlots[i], nbytes, a)}
        first   == Min(fitting)
        addr    == AlignUp(freeSlots[first][1], a)
    IN  IF fitting = {}
          THEN phase' = "noSlot" /\ UNCHANGED <<allocator, addrOf>>
          ELSE /\ freeSlots' = Sorted(RemoveAt(freeSlots, first) \o
                                     Leftovers(freeSlots[first], addr, nbytes))
               /\ addr2nbytes' = [x \in DOMAIN addr2nbytes \union {addr} |->
                                     IF x = addr THEN nbytes ELSE addr2nbytes[x]]
               /\ maximumAllocated' = Max({maximumAllocated, addr + nbytes})
               /\ allocated' = allocated + nbytes
               /\ addrOf' = [x \in DOMAIN addrOf \union {o} |->
                                IF x = o THEN addr ELSE addrOf[x]]
               /\ phase' = next
               /\ UNCHANGED bridged

\* AllocateSharedInst.
AllocateShared(t) ==
    /\ phase = "body" /\ t \in Tensors \ DOMAIN addrOf
    /\ \E n \in Sizes, a \in Alignments : Allocate(t, n, a, "body")
    /\ touched' = IF t \in DOMAIN addrOf'
                    THEN touched \union (addrOf'[t] .. addrOf'[t] + addr2nbytes'[addrOf'[t]] - 1)
                    ELSE touched
    /\ UNCHANGED <<barriers, workspaceBytes, arena>>

Before(addr) == {i \in DOMAIN freeSlots : freeSlots[i][2] <= addr}
After(addr)  == {i \in DOMAIN freeSlots : freeSlots[i][1] > addr}

TouchesLeft(addr) ==
    Before(addr) # {} /\ freeSlots[Max(Before(addr))][2] = addr
TouchesRight(addr) ==
    After(addr) # {} /\ freeSlots[Min(After(addr))][1] = addr + addr2nbytes[addr]

\* Mutant: a block that touches the slot before it is appended beside it.
Merged_RightOnly(addr) ==
    LET end == addr + addr2nbytes[addr]
    IN  IF TouchesRight(addr)
          THEN [freeSlots EXCEPT ![Min(After(addr))] = <<addr, @[2]>>]
          ELSE Sorted(Append(freeSlots, <<addr, end>>))

\* SharedMemoryAllocator.free: the block joins the slots it touches.  When it
\* touches two, the one before it is extended over both and the one after it
\* is not removed.
Merged(addr) ==
    LET end   == addr + addr2nbytes[addr]
        left  == Max(Before(addr))
        right == Min(After(addr))
    IN  CASE TouchesLeft(addr) /\ TouchesRight(addr) ->
               [freeSlots EXCEPT ![left] = <<@[1], freeSlots[right][2]>>]
          [] TouchesLeft(addr) /\ ~TouchesRight(addr) ->
               [freeSlots EXCEPT ![left] = <<@[1], end>>]
          [] TouchesRight(addr) /\ ~TouchesLeft(addr) ->
               [freeSlots EXCEPT ![right] = <<addr, @[2]>>]
          [] OTHER -> Sorted(Append(freeSlots, <<addr, end>>))

Without(f, x) == [y \in DOMAIN f \ {x} |-> f[y]]

\* FreeSharedInst: the assertion on the slots, then the look-up of the size.
FreeShared(t) ==
    LET addr == addrOf[t] IN
    /\ phase = "body" /\ t \in DOMAIN addrOf
    /\ IF Cardinality(Before(addr)) + Cardinality(After(addr)) # Len(freeSlots)
         THEN phase' = "asserted" /\ UNCHANGED <<allocator, addrOf>>
       ELSE IF addr \notin DOMAIN addr2nbytes
         THEN phase' = "keyError" /\ UNCHANGED <<allocator, addrOf>>
       ELSE /\ bridged' = (bridged \/ (TouchesLeft(addr) /\ TouchesRight(addr)))
            /\ bridged' => MayBridge
            /\ freeSlots' = Merged(addr)
            /\ allocated' = allocated - addr2nbytes[addr]
            /\ addr2nbytes' = Without(addr2nbytes, addr)
            /\ addrOf' = Without(addrOf, t)
            /\ UNCHANGED <<maximumAllocated, phase>>
    /\ UNCHANGED <<barriers, workspaceBytes, arena, touched>>

\* request_shared_workspace: one region for every instruction that asks.
RequestWorkspace ==
    /\ phase = "body"
    /\ \E n \in Sizes : workspaceBytes' = Max({workspaceBytes, n})
    /\ UNCHANGED <<allocator, addrOf, barriers, arena, phase, touched>>

\* allocate_barriers only counts; the addresses are given at the end.
AllocateBarriers ==
    /\ phase = "body"
    /\ \E n \in 1 .. MaxBarriers - barriers : barriers' = barriers + n
    /\ UNCHANGED <<allocator, addrOf, workspaceBytes, arena, phase, touched>>

\* BarrierAllocContext.finalize, which runs before the allocator's own: the
\* barriers take the first free slots as they are after the last statement.
FinalizeBarriers ==
    /\ phase = "body"
    /\ IF barriers = 0
         THEN phase' = "barriersPlaced" /\ UNCHANGED <<allocator, addrOf>>
         ELSE Allocate(BarrierTensor, barriers * BarrierBytes, MinAlign, "barriersPlaced")
    /\ UNCHANGED <<barriers, workspaceBytes, arena, touched>>

\* Mutant: the arena is sized before the barriers and the workspace are added.
FinalizeArena_WithoutWorkspace ==
    /\ phase = "barriersPlaced"
    /\ arena' = [workspace |-> AlignUp(maximumAllocated, MinAlign), bytes |-> maximumAllocated]
    /\ phase' = "sized"
    /\ UNCHANGED <<allocator, addrOf, barriers, workspaceBytes, touched>>

\* SharedMemoryAllocationContext.finalize: the workspace goes behind the highest block.
FinalizeArena ==
    /\ phase = "barriersPlaced"
    /\ LET offset == AlignUp(maximumAllocated, MinAlign) IN
         arena' = IF workspaceBytes = 0
                    THEN [workspace |-> 0, bytes |-> maximumAllocated]
                    ELSE [workspace |-> offset, bytes |-> offset + workspaceBytes]
    /\ phase' = "sized"
    /\ UNCHANGED <<allocator, addrOf, barriers, workspaceBytes, touched>>

\* launch_kernel refuses an arena above the device limit.
LaunchKernel ==
    /\ phase = "sized"
    /\ phase' = IF arena.bytes > Limit THEN "tooLarge" ELSE "launched"
    /\ UNCHANGED <<allocator, addrOf, barriers, workspaceBytes, arena, touched>>

Next ==
    \/ \E t \in Tensors : AllocateShared(t) \/ FreeShared(t)
    \/ RequestWorkspace \/ AllocateBarriers
    \/ FinalizeBarriers \/ FinalizeArena \/ LaunchKernel

Spec == Init /\ [][Next]_vars
-----------------------------------------------------------------------------
BytesOf(o) == addrOf[o] .. addrOf[o] + addr2nbytes[addrOf[o]] - 1

\* Two live tensors never share a byte ("merge three slots" in free, so that
\* the list stays a list of disjoint free ranges).
LiveApart == \A o, u \in DOMAIN addrOf : o # u => BytesOf(o) \cap BytesOf(u) = {}

\* The free list is sorted, has a used byte between any two slots, and holds
\* exactly the bytes of no live tensor.
FreeListExact ==
    /\ \A i, j \in DOMAIN freeSlots : i < j => freeSlots[i][2] < freeSlots[j][1]
    /\ UNION {freeSlots[i][1] .. freeSlots[i][2] - 1 : i \in DOMAIN freeSlots}
         = Bytes \ UNION {BytesOf(o) : o \in DOMAIN addrOf}

\* The assertion in free holds and the size of a live tensor is on record.
FreeNeverFails == phase \notin {"asserted", "keyError"}

\* What a launched kernel may touch lies inside the arena it asks for, and the
\* workspace shares no byte with any tensor it ever had or with the barriers.
ArenaHolds ==
    phase = "launched" =>
      LET workspace == arena.workspace .. arena.workspace + workspaceBytes - 1
          tensors   == touched \union UNION {BytesOf(o) : o \in DOMAIN addrOf}
      IN  /\ tensors \union workspace \subseteq 0 .. arena.bytes - 1
          /\ tensors \cap workspace = {}
          /\ arena.bytes <= Limit

\* The owner of every byte, the refinement mapping.
OwnerOfBytes == [b \in Bytes |->
    IF \E o \in DOMAIN addrOf : b \in BytesOf(o)
      THEN CHOOSE o \in DOMAIN addrOf : b \in BytesOf(o) ELSE None]

Arena == INSTANCE SharedArena
           WITH Free <- None,
                Sizes <- Sizes \union {b * BarrierBytes : b \in 1 .. MaxBarriers},
                owner <- OwnerOfBytes

\* The free list implements an arena of single bytes, lowest fit first (SharedArena):
\* fragmentation never hides room, and no byte changes its owner on the way.  The owners
\* (OwnerOfBytes) are a function of the two variables of the subscript.
ImplementsArena == Arena!Init /\ [][addrOf' # addrOf /\ Arena!Next]_<<addrOf, addr2nbytes>>
=============================================================================
