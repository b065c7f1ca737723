-------------------------------- MODULE Image --------------------------------
(***************************************************************************)
(* levitator::binfile::BinaryFile (binary_file.hpp, binary_file.cpp): a     *)
(* file's image in a vector that moves when it grows, shared by threads     *)
(* under a recursive mutex.  What is stored in it holds one RelPtr, and is  *)
(* named by its place, 1, 2, ...                                            *)
(*                                                                         *)
(* Clients keep the rules of the header: lock before a pointer is           *)
(* retrieved, and keep none across an allocation of their own.  construct() *)
(* is called with the lock and without it, as StateFile does.               *)
(***************************************************************************)
EXTENDS RelPtr, Sequences

CONSTANTS
    Threads,
    Bases,      \* where the vector's buffer may be
    SizeLimit,  \* objects in the image
    DepthLimit, \* bound of nested locks
    None        \* the owner of a free mutex

ASSUME ThreadsAssumption == None \notin Threads
ASSUME LimitsAssumption == SizeLimit \in Nat /\ DepthLimit \in Nat
ASSUME BasesAssumption == Bases \subseteq Nat \ {0}

VARIABLES
    owner, depth,   \* the mutex
    base,           \* the address of m_state.cache's buffer
    image,          \* m_state.cache: for each object whether it was constructed,
                    \* its pointer's m_offset, and as histories: whether it was
                    \* allocated without a lock around, and what its pointer was
                    \* meant to lead to, 0 for nullptr
    held,           \* raw pointers that a thread has fetched, and of which object
    building        \* where allocate() has told a thread to construct, and which

vars == <<owner, depth, base, image, held, building>>
mutexVars == <<owner, depth>>

NoRef == [addr |-> Nullptr, obj |-> 0]
NoRefs == [to |-> NoRef, from |-> NoRef]

Init ==
    /\ owner = None /\ depth = 0
    /\ base \in Bases /\ image = <<>>
    /\ held = [t \in Threads |-> NoRefs]
    /\ building = [t \in Threads |-> NoRef]

Objects == 1 .. Len(image)
Address(obj) == base + obj - 1
Pointer(obj) == [at |-> Address(obj), offset |-> image[obj].offset]
InImage(addr) == base <= addr /\ addr < base + Len(image)
Place(addr) == addr - base + 1

Free(t) == building[t] = NoRef
Lockable(t) == owner \in {None, t}
Locked(t) == Free(t) /\ owner = t
Forget(t) == held' = [held EXCEPT ![t] = NoRefs]

-----------------------------------------------------------------------------
(* The lock: guards and locked references, which nest.                     *)

Lock(t) ==
    /\ Free(t) /\ Lockable(t) /\ depth < DepthLimit
    /\ owner' = t /\ depth' = depth + 1
    /\ UNCHANGED <<base, image, held, building>>

\* Mutant: the first guard to go unlocks the mutex for all of them.
UnlockAll(t) ==
    /\ Locked(t)
    /\ owner' = None /\ depth' = 0
    /\ UNCHANGED <<base, image, building, held>>

\* With the last guard the pointers that it protected go.
Unlock(t) ==
    /\ Locked(t)
    /\ depth' = depth - 1
    /\ IF depth = 1 THEN owner' = None /\ Forget(t) ELSE UNCHANGED <<owner, held>>
    /\ UNCHANGED <<base, image, building>>

-----------------------------------------------------------------------------
(* Allocation and construction.                                            *)

AlignVal == 1   \* alignof_any<void>

\* align_shift() of an address<void>, which is what allocate() asks for.
AlignShift(addr) == (AlignVal - (addr % AlignVal)) % AlignVal

Blank(bare) == [built |-> FALSE, offset |-> 0, bare |-> bare, meant |-> 0]

\* std::vector::resize: the first n objects, with blank ones behind them.
Resized(n, bare) == [i \in 1 .. n |-> IF i <= Len(image) THEN image[i] ELSE Blank(bare)]

\* Mutant: the address behind the new object is returned.
AllocateBehind(t) ==
    LET n == 1 + AlignShift(base) IN
    /\ Free(t) /\ Lockable(t) /\ Len(image) + n <= SizeLimit
    /\ base' \in Bases
    /\ image' = Resized(Len(image) + n, owner # t)
    /\ building' = [building EXCEPT ![t] =
            [addr |-> base' + Len(image'), obj |-> Len(image')]]
    /\ Forget(t) /\ UNCHANGED mutexVars

\* Mutant: the address of the object before is returned.
AllocateBefore(t) ==
    LET n == 1 + AlignShift(base) IN
    /\ Free(t) /\ Lockable(t) /\ Len(image) + n <= SizeLimit
    /\ base' \in Bases
    /\ image' = Resized(Len(image) + n, owner # t)
    /\ building' = [building EXCEPT ![t] =
            [addr |-> base' + Len(image') - 2, obj |-> Len(image')]]
    /\ Forget(t) /\ UNCHANGED mutexVars

\* allocate(), which has unlocked when it returns: the vector grows, its new bytes
\* zero, and may be moved.
Allocate(t) ==
    LET n == 1 + AlignShift(base) IN
    /\ Free(t) /\ Lockable(t) /\ Len(image) + n <= SizeLimit
    /\ base' \in Bases
    /\ image' = Resized(Len(image) + n, owner # t)
    /\ building' = [building EXCEPT ![t] =
            [addr |-> base' + Len(image') - 1, obj |-> Len(image')]]
    /\ Forget(t) /\ UNCHANGED mutexVars

\* The placement new of construct(), its pointer null.  What is written to a buffer
\* that has been freed, or behind the vector's end, is lost.  Without a lock it may come
\* down on an object that another thread has built in the meantime, which is a new one
\* from then on.
Construct(t) ==
    /\ ~Free(t)
    /\ LET addr == building[t].addr IN
       image' = IF InImage(addr)
                THEN [image EXCEPT ![Place(addr)].built = TRUE,
                                   ![Place(addr)].offset = RelPtrTo(addr, Nullptr).offset,
                                   ![Place(addr)].meant = 0]
                ELSE image
    /\ building' = [building EXCEPT ![t] = NoRef]
    /\ UNCHANGED <<owner, depth, base, held>>

\* resize(), as pop_back() uses it: a vector that shrinks is not moved.  To pop more
\* than there is throws.
PopBack(t, n) ==
    /\ Free(t) /\ Lockable(t) /\ n <= Len(image)
    /\ image' = Resized(Len(image) - n, FALSE)
    /\ Forget(t) /\ UNCHANGED <<owner, depth, base, building>>

\* The image is flushed, and another BinaryFile reads it from the file.
Reload ==
    /\ owner = None /\ \A t \in Threads : Free(t)
    /\ base' \in Bases
    /\ UNCHANGED <<owner, depth, image, held, building>>

-----------------------------------------------------------------------------
(* Pointers.                                                               *)

Fetch(t, which, obj) ==
    /\ Locked(t)
    /\ held' = [held EXCEPT ![t][which] = [addr |-> Address(obj), obj |-> obj]]
    /\ UNCHANGED <<owner, depth, base, image, building>>

Put(addr, offset, meant) ==
    image' = [image EXCEPT ![Place(addr)].offset = offset, ![Place(addr)].meant = meant]

\* *to = from, a fetched pointer or null.  One to itself is null.
Assign(t) ==
    LET to == held[t].to  from == held[t].from IN
    /\ Locked(t) /\ InImage(to.addr)
    /\ Put(to.addr, RelPtrTo(to.addr, from.addr).offset,
           IF from.obj = to.obj THEN 0 ELSE from.obj)
    /\ UNCHANGED <<owner, depth, base, held, building>>

\* *to = *from.
Copy(t) ==
    LET to == held[t].to  from == held[t].from IN
    /\ Locked(t) /\ InImage(to.addr) /\ InImage(from.addr)
    /\ LET p == Pointer(Place(from.addr))
           meant == image[Place(from.addr)].meant
       IN Put(to.addr, Copied(to.addr, p).offset, IF meant = to.obj THEN 0 ELSE meant)
    /\ UNCHANGED <<owner, depth, base, held, building>>

-----------------------------------------------------------------------------
Step(t) ==
    \/ Lock(t) \/ Unlock(t) \/ Allocate(t) \/ Construct(t)
    \/ \E n \in 1 .. SizeLimit : PopBack(t, n)
    \/ \E obj \in Objects, which \in {"to", "from"} : Fetch(t, which, obj)
    \/ Assign(t) \/ Copy(t)

Next == Reload \/ \E t \in Threads : Step(t)

Spec == Init /\ [][Next]_vars

-----------------------------------------------------------------------------
ImageTypeOK ==
    /\ owner \in Threads \cup {None} /\ depth \in Nat
    /\ base \in Bases
    /\ image \in Seq([built : BOOLEAN, offset : Int, bare : BOOLEAN, meant : Nat])
    /\ held \in [Threads -> [to : [addr : Int, obj : Nat], from : [addr : Int, obj : Nat]]]
    /\ building \in [Threads -> [addr : Int, obj : Nat]]

\* A pointer in the image leads to the object that it was set to, directly or as a
\* copy of another pointer, wherever the image has been moved to since, by whichever
\* thread, or loaded again; one that is null is told from one that is set.
PointersFollow ==
    \A obj \in Objects :
        LET meant == image[obj].meant IN
        /\ IsSet(Pointer(obj)) <=> meant # 0
        /\ meant # 0 => Target(Pointer(obj)) = Address(meant)

\* A raw pointer that was fetched with the mutex locked leads to its object as long
\* as the thread keeps the lock: nobody else moves or shrinks the image.
LockedRefsLive ==
    \A t \in Threads, which \in {"to", "from"} :
        LET ref == held[t][which] IN
        ref # NoRef => owner = t /\ ref.obj \in Objects /\ ref.addr = Address(ref.obj)

\* What construct() builds is built in the image if its caller has locked; without a
\* lock the object may be lost to an allocation between its own and its construction.
LockedBuildsLand ==
    \A obj \in Objects :
        image[obj].built \/ image[obj].bare \/ \E t \in Threads : building[t].obj = obj

\* What a thread constructs with the lock it constructs in fresh bytes: no object of any
\* thread is built over, wherever the image has been moved to.
BuildsOverNothing ==
    [][\A t \in Threads, obj \in Objects :
          owner = t /\ ~Free(t) /\ building'[t] = NoRef /\ image[obj].built =>
              image'[obj] = image[obj]]_vars
=============================================================================
