---------------------------- MODULE ImageProofs ----------------------------
(* Theorems about Image, for any number of threads, any places of the buffer *)
(* and any size: its pointers follow, what is fetched under the lock is good *)
(* under the lock, and what is built under the lock is built in the image.   *)
(* And lemmas about the pointers themselves.                                 *)
EXTENDS Image, TLAPS

Entries == [built : BOOLEAN, offset : Int, bare : BOOLEAN, meant : Nat]
Refs == [addr : Int, obj : Nat]

-----------------------------------------------------------------------------
(* Pointers.                                                               *)

\* A copy of a pointer leads where the pointer does, wherever the copy is.
LEMMA CopyLeadsToTarget ==
  ASSUME NEW at \in Int, NEW p \in Pointers, Target(p) # Nullptr,
         IsSet(p), Target(p) # at
  PROVE  IsSet(Copied(at, p)) /\ Target(Copied(at, p)) = Target(p)
  BY DEF Pointers, Copied, IsSet, Target, MakeOffset, Nullptr

\* A null pointer leads to itself, and so a list has no end: `next' of its last
\* link leads to a place that is not null.
LEMMA NullLeadsToItself ==
  ASSUME NEW p \in Pointers, ~IsSet(p), p.at # Nullptr
  PROVE  Target(p) = p.at /\ NextLink(p) # Nullptr
  BY DEF Pointers, IsSet, Target, NextLink, Nullptr

\* A pointer from outside the image, made relative to it, leads to its object only if
\* it stands at the image's beginning.
LEMMA OffsetPtrOnlyAtBase ==
  ASSUME NEW at \in Int, NEW obj \in Int, NEW base_ \in Int, obj # Nullptr
  PROVE  Target(OffsetPtrTo(at, obj, base_)) = obj <=> at = base_
  BY DEF OffsetPtrTo, Target, MakeOffset, Nullptr

-----------------------------------------------------------------------------
(* The image.                                                              *)

LEMMA NeverPadded == \A addr \in Int : AlignShift(addr) = 0
  BY DEF AlignShift, AlignVal

LEMMA RefsFacts ==
  /\ NoRef \in Refs /\ NoRef.obj = 0
  /\ \A ref \in Refs : ref.addr \in Int /\ ref.obj \in Nat
  BY DEF NoRef, Refs, Nullptr

\* resize() adds blank objects or drops the last ones, and changes no other.
LEMMA ResizedFacts ==
  ASSUME image \in Seq(Entries), NEW n \in Nat, NEW bare \in BOOLEAN
  PROVE  /\ Resized(n, bare) \in Seq(Entries) /\ Len(Resized(n, bare)) = n
         /\ \A i \in 1 .. n : Resized(n, bare)[i] =
                IF i <= Len(image) THEN image[i] ELSE Blank(bare)
  <1>1. Blank(bare) \in Entries
    BY DEF Blank, Entries
  <1>2. \A i \in 1 .. n : i <= Len(image) => image[i] \in Entries
    OBVIOUS
  <1>3. [i \in 1 .. n |-> IF i <= Len(image) THEN image[i] ELSE Blank(bare)] \in [1 .. n -> Entries]
    BY <1>1, <1>2
  <1> QED
    BY <1>3 DEF Resized

-----------------------------------------------------------------------------
(* The inductive invariant.  An offset is what it was meant to be, in places *)
(* and not in addresses, so that it says nothing of where the image is; and  *)
(* what is under construction with the mutex locked is where it should be.   *)

TypeInv ==
    /\ owner \in Threads \cup {None} /\ depth \in Nat
    /\ base \in Bases /\ image \in Seq(Entries)
    /\ held \in [Threads -> [to : Refs, from : Refs]]
    /\ building \in [Threads -> Refs]

MutexInv == owner = None <=> depth = 0

OffsetsInv ==
    \A obj \in Objects :
        /\ image[obj].meant # obj
        /\ image[obj].offset = IF image[obj].meant = 0 THEN 0 ELSE image[obj].meant - obj

BuildsInv ==
    \A obj \in Objects :
        \/ image[obj].built \/ image[obj].bare
        \/ \E t \in Threads : owner = t /\ building[t] = [addr |-> Address(obj), obj |-> obj]

ImageInv == TypeInv /\ MutexInv /\ OffsetsInv /\ LockedRefsLive /\ BuildsInv

LEMMA TypeFacts ==
  ASSUME TypeInv
  PROVE  /\ base \in Nat \ {0} /\ Len(image) \in Nat
         /\ \A i \in Objects : /\ image[i] \in Entries /\ Address(i) \in Nat \ {0}
                               /\ image[i].offset \in Int /\ image[i].meant \in Nat
  <1>1. base \in Nat \ {0} /\ Len(image) \in Nat
    BY BasesAssumption DEF TypeInv
  <1>2. \A i \in Objects : image[i] \in Entries
    BY DEF TypeInv, Objects
  <1> QED
    BY <1>1, <1>2 DEF Objects, Address, Entries

LEMMA InitInv == Init => ImageInv
  <1> SUFFICES ASSUME Init PROVE ImageInv
    OBVIOUS
  <1>1. TypeInv /\ Objects = {}
    BY RefsFacts DEF Init, TypeInv, NoRefs, Objects
  <1>2. MutexInv /\ OffsetsInv /\ BuildsInv
    BY <1>1 DEF Init, MutexInv, OffsetsInv, BuildsInv
  <1>3. LockedRefsLive
    BY DEF Init, LockedRefsLive, NoRefs
  <1> QED
    BY <1>1, <1>2, <1>3 DEF ImageInv

\* A thread that may lock finds no pointers of other threads, and nothing that is
\* built under their lock.
LEMMA OthersHoldNothing ==
  ASSUME ImageInv, NEW t \in Threads, Lockable(t)
  PROVE  /\ \A u \in Threads \ {t} : held[u].to = NoRef /\ held[u].from = NoRef
         /\ Free(t) => \A obj \in Objects : image[obj].built \/ image[obj].bare
  <1>1. \A u \in Threads \ {t} : owner # u
    BY ThreadsAssumption DEF Lockable
  <1>2. \A u \in Threads \ {t} : held[u].to = NoRef /\ held[u].from = NoRef
    BY <1>1 DEF ImageInv, LockedRefsLive
  <1>3. ASSUME Free(t), NEW obj \in Objects PROVE image[obj].built \/ image[obj].bare
    <2>1. [addr |-> Address(obj), obj |-> obj] # NoRef
      BY DEF Objects, NoRef
    <2> QED
      BY <1>1, <1>3, <2>1 DEF ImageInv, BuildsInv, Free
  <1> QED
    BY <1>2, <1>3

\* The mutex alone: pointers that are held keep their objects where they are.
LEMMA LockInv ==
  ASSUME ImageInv, NEW t \in Threads, Lock(t)
  PROVE  ImageInv'
  <1> USE DEF ImageInv
  <1>1. TypeInv' /\ MutexInv'
    BY ThreadsAssumption DEF Lock, TypeInv, MutexInv
  <1>2. OffsetsInv'
    BY DEF Lock, OffsetsInv, Objects
  <1>3. LockedRefsLive'
    BY OthersHoldNothing DEF Lock, LockedRefsLive, Objects, Address
  <1>4. BuildsInv'
    BY OthersHoldNothing DEF Lock, BuildsInv, Objects
  <1> QED
    BY <1>1, <1>2, <1>3, <1>4

LEMMA UnlockInv ==
  ASSUME ImageInv, NEW t \in Threads, Unlock(t)
  PROVE  ImageInv'
  <1> USE DEF ImageInv
  <1>0. Lockable(t) /\ Free(t) /\ owner = t
    BY DEF Unlock, Locked, Lockable
  <1>1. TypeInv' /\ MutexInv'
    <2>1. depth # 0
      BY <1>0, ThreadsAssumption DEF MutexInv
    <2>2. NoRefs \in [to : Refs, from : Refs]
      BY RefsFacts DEF NoRefs
    <2> QED
      BY <1>0, <2>1, <2>2, ThreadsAssumption DEF Unlock, TypeInv, MutexInv, Forget
  <1>2. OffsetsInv'
    BY DEF Unlock, OffsetsInv, Objects
  <1>3. LockedRefsLive'
    <2>1. CASE depth = 1
      BY <2>1, <1>0, OthersHoldNothing DEF Unlock, LockedRefsLive, Forget, NoRefs, TypeInv
    <2>2. CASE depth # 1
      BY <2>2 DEF Unlock, LockedRefsLive, Objects, Address
    <2> QED
      BY <2>1, <2>2
  <1>4. BuildsInv'
    BY <1>0, OthersHoldNothing DEF Unlock, BuildsInv, Objects
  <1> QED
    BY <1>1, <1>2, <1>3, <1>4

\* allocate(), resize() and loading: the image moves, grows or shrinks while nobody
\* else has pointers to it.
LEMMA ForgetFacts ==
  ASSUME ImageInv, NEW t \in Threads, Lockable(t), Forget(t)
  PROVE  /\ held' \in [Threads -> [to : Refs, from : Refs]]
         /\ \A u \in Threads : held'[u].to = NoRef /\ held'[u].from = NoRef
  <1>1. NoRefs \in [to : Refs, from : Refs]
    BY RefsFacts DEF NoRefs
  <1>2. held \in [Threads -> [to : Refs, from : Refs]]
    BY DEF ImageInv, TypeInv
  <1> QED
    BY <1>1, <1>2, OthersHoldNothing DEF Forget, NoRefs

LEMMA AllocateInv ==
  ASSUME ImageInv, NEW t \in Threads, Allocate(t)
  PROVE  ImageInv'
  <1>1. TypeInv /\ base \in Nat \ {0} /\ Len(image) \in Nat /\ image \in Seq(Entries)
    BY TypeFacts DEF ImageInv, TypeInv
  <1>n. PICK n \in Nat : n = Len(image) + 1
    BY <1>1
  <1>b. PICK bare \in BOOLEAN : bare = (owner # t)
    OBVIOUS
  <1>2. /\ Free(t) /\ Lockable(t) /\ Forget(t) /\ UNCHANGED <<owner, depth>>
        /\ base' \in Bases /\ image' = Resized(n, bare)
        /\ building' = [building EXCEPT ![t] =
                            [addr |-> base' + Len(image') - 1, obj |-> Len(image')]]
    BY <1>1, <1>n, <1>b, NeverPadded DEF Allocate, mutexVars
  <1>3. /\ image' \in Seq(Entries) /\ Len(image') = n
        /\ \A i \in 1 .. n : image'[i] = IF i <= Len(image) THEN image[i] ELSE Blank(bare)
    BY <1>1, <1>2, ResizedFacts
  <1>4. base' \in Nat \ {0}
    BY <1>2, BasesAssumption
  <1>5. TypeInv' /\ MutexInv'
    <2>1. [addr |-> base' + Len(image') - 1, obj |-> Len(image')] \in Refs
      BY <1>1, <1>3, <1>4, <1>n DEF Refs
    <2>2. building' \in [Threads -> Refs]
      BY <1>1, <1>2, <2>1 DEF TypeInv
    <2> QED
      BY <1>1, <1>2, <1>3, <2>2, ForgetFacts DEF ImageInv, TypeInv, MutexInv
  <1>6. OffsetsInv'
    BY <1>1, <1>3, <1>n DEF ImageInv, OffsetsInv, Objects, Blank
  <1>7. LockedRefsLive'
    BY <1>2, ForgetFacts DEF LockedRefsLive
  <1>8. BuildsInv'
    <2> SUFFICES ASSUME NEW obj \in 1 .. n, ~image'[obj].built, ~image'[obj].bare
                 PROVE  owner' = t /\ building'[t] = [addr |-> Address(obj)', obj |-> obj]
      BY <1>3 DEF BuildsInv, Objects
    <2>1. obj = n
      BY <1>1, <1>2, <1>3, <1>n, OthersHoldNothing DEF Objects
    <2>2. image'[obj].bare = bare
      BY <1>1, <1>3, <1>n, <2>1 DEF Blank
    <2>3. owner = t
      BY <1>b, <2>2
    <2> QED
      BY <1>1, <1>2, <1>3, <1>n, <2>1, <2>3 DEF Address, TypeInv
  <1> QED
    BY <1>5, <1>6, <1>7, <1>8 DEF ImageInv

LEMMA PopBackInv ==
  ASSUME ImageInv, NEW t \in Threads, NEW k \in Nat, PopBack(t, k)
  PROVE  ImageInv'
  <1>1. TypeInv /\ Len(image) \in Nat /\ image \in Seq(Entries)
    BY TypeFacts DEF ImageInv, TypeInv
  <1>n. PICK n \in Nat : n = Len(image) - k
    BY <1>1 DEF PopBack
  <1>2. /\ Free(t) /\ Lockable(t) /\ Forget(t) /\ UNCHANGED <<owner, depth, base, building>>
        /\ n <= Len(image) /\ image' = Resized(n, FALSE)
    BY <1>1, <1>n DEF PopBack
  <1>3. /\ image' \in Seq(Entries) /\ Len(image') = n
        /\ \A i \in 1 .. n : image'[i] = image[i]
    <2>1. FALSE \in BOOLEAN
      OBVIOUS
    <2>2. /\ image' \in Seq(Entries) /\ Len(image') = n
          /\ \A i \in 1 .. n : image'[i] = IF i <= Len(image) THEN image[i] ELSE Blank(FALSE)
      BY <1>1, <1>2, <2>1, ResizedFacts, Zenon
    <2>3. \A i \in 1 .. n : i \in 1 .. n /\ i <= Len(image)
      BY <1>1, <1>2
    <2> QED
      BY <2>2, <2>3, Zenon
  <1>4. TypeInv' /\ MutexInv'
    BY <1>1, <1>2, <1>3, ForgetFacts DEF ImageInv, TypeInv, MutexInv
  <1>5. OffsetsInv'
    BY <1>1, <1>2, <1>3, \A i \in 1 .. n : i \in 1 .. Len(image) DEF ImageInv, OffsetsInv, Objects
  <1>6. LockedRefsLive'
    BY <1>2, ForgetFacts DEF LockedRefsLive
  <1>7. BuildsInv'
    BY <1>1, <1>2, <1>3, OthersHoldNothing, \A i \in 1 .. n : i \in 1 .. Len(image)
       DEF BuildsInv, Objects
  <1> QED
    BY <1>4, <1>5, <1>6, <1>7 DEF ImageInv

LEMMA ReloadInv ==
  ASSUME ImageInv, Reload
  PROVE  ImageInv'
  <1> USE DEF ImageInv, Reload
  <1>1. TypeInv' /\ MutexInv' /\ OffsetsInv'
    BY DEF TypeInv, MutexInv, OffsetsInv, Objects
  <1>2. \A t \in Threads : owner # t
    BY ThreadsAssumption
  <1>3. LockedRefsLive'
    BY <1>2 DEF LockedRefsLive
  <1>4. BuildsInv'
    BY <1>2 DEF BuildsInv, Objects
  <1> QED
    BY <1>1, <1>3, <1>4

\* A thread that has the mutex fetches a pointer, or sets one that it has fetched.
LEMMA FetchInv ==
  ASSUME ImageInv, NEW t \in Threads, NEW which \in {"to", "from"}, NEW obj \in Objects,
         Fetch(t, which, obj)
  PROVE  ImageInv'
  <1> DEFINE ref == [addr |-> Address(obj), obj |-> obj]
  <1>1. TypeInv /\ Address(obj) \in Nat \ {0} /\ obj \in Nat \ {0}
    BY TypeFacts DEF ImageInv, Objects
  <1>2. ref \in Refs
    BY <1>1 DEF Refs
  <1>3. held' \in [Threads -> [to : Refs, from : Refs]]
    BY <1>1, <1>2 DEF TypeInv, Fetch
  <1>4. \A u \in Threads, w \in {"to", "from"} :
            held'[u][w] = IF u = t /\ w = which THEN ref ELSE held[u][w]
    BY <1>1 DEF TypeInv, Fetch
  <1>5. UNCHANGED <<owner, depth, base, image, building>> /\ owner = t
    BY DEF Fetch, Locked
  <1>6. TypeInv' /\ MutexInv' /\ OffsetsInv' /\ BuildsInv'
    BY <1>1, <1>3, <1>5
       DEF ImageInv, TypeInv, MutexInv, OffsetsInv, BuildsInv, Objects, Address
  <1>7. LockedRefsLive'
    BY <1>4, <1>5 DEF ImageInv, LockedRefsLive, Objects, Address
  <1> QED
    BY <1>6, <1>7 DEF ImageInv

\* What is held under the lock is in the image; a pointer that is null is not.
LEMMA HeldFacts ==
  ASSUME ImageInv, NEW t \in Threads, NEW which \in {"to", "from"}, Locked(t)
  PROVE  LET ref == held[t][which] IN
         /\ ref = NoRef \/ (ref.obj \in Objects /\ ref.addr = Address(ref.obj))
         /\ InImage(ref.addr) => ref # NoRef /\ Place(ref.addr) = ref.obj
  <1> DEFINE ref == held[t][which]
  <1>1. ref = NoRef \/ (ref.obj \in Objects /\ ref.addr = Address(ref.obj))
    BY DEF ImageInv, LockedRefsLive
  <1>2. base \in Nat \ {0} /\ Len(image) \in Nat
    BY TypeFacts DEF ImageInv
  <1>3. ~InImage(NoRef.addr)
    BY <1>2 DEF InImage, NoRef, Nullptr
  <1>4. \A obj \in Objects : Place(Address(obj)) = obj
    BY <1>2 DEF Place, Address, Objects
  <1> QED
    BY <1>1, <1>3, <1>4

\* A function on 1 .. n is a sequence of n.
LEMMA SeqFacts ==
  ASSUME NEW n \in Nat, NEW f \in [1 .. n -> Entries]
  PROVE  f \in Seq(Entries) /\ Len(f) = n
  <1>1. f = [i \in 1 .. n |-> f[i]] /\ \A i \in 1 .. n : f[i] \in Entries
    OBVIOUS
  <1>2. [i \in 1 .. n |-> f[i]] \in Seq(Entries) /\ Len([i \in 1 .. n |-> f[i]]) = n
    BY <1>1
  <1> QED
    BY <1>1, <1>2, Zenon

\* Changing the pointer of one object keeps the invariant if it is changed as meant.
LEMMA PutInv ==
  ASSUME ImageInv, NEW obj \in Objects, NEW meant \in Nat, NEW offset \in Int,
         image' = [image EXCEPT ![obj].offset = offset, ![obj].meant = meant],
         UNCHANGED <<owner, depth, base, held, building>>,
         meant # obj, offset = IF meant = 0 THEN 0 ELSE meant - obj
  PROVE  ImageInv'
  <1>1. TypeInv /\ obj \in 1 .. Len(image) /\ Len(image) \in Nat
    BY TypeFacts DEF ImageInv, Objects
  <1>2. \A i \in 1 .. Len(image) : image[i] \in Entries
    BY <1>1 DEF TypeInv
  <1>e. PICK e \in Entries : e = [image[obj] EXCEPT !.offset = offset, !.meant = meant]
    BY <1>1, <1>2 DEF Entries
  <1>3. /\ image' \in Seq(Entries) /\ Len(image') = Len(image)
        /\ \A i \in 1 .. Len(image) : i # obj => image'[i] = image[i]
        /\ image'[obj] = e
    <2>1. image' = [image EXCEPT ![obj] = e]
      BY <1>e
    <2>2. PICK n \in Nat : n = Len(image)
      BY <1>1
    <2>3. image \in [1 .. n -> Entries] /\ obj \in 1 .. n
      BY <1>1, <2>2 DEF TypeInv
    <2>4. /\ image' \in [1 .. n -> Entries] /\ image'[obj] = e
          /\ \A i \in 1 .. n : i # obj => image'[i] = image[i]
      BY <2>1, <2>3
    <2>5. image' \in Seq(Entries) /\ Len(image') = n
      BY <2>2, <2>4, SeqFacts, Zenon
    <2> QED
      BY <2>2, <2>4, <2>5
  <1>4. /\ image'[obj].offset = offset /\ image'[obj].meant = meant
        /\ \A i \in 1 .. Len(image) : /\ image'[i].built = image[i].built
                                       /\ image'[i].bare = image[i].bare
    BY <1>1, <1>2, <1>3, <1>e DEF Entries
  <1>5. TypeInv' /\ MutexInv' /\ LockedRefsLive'
    BY <1>1, <1>3 DEF ImageInv, TypeInv, MutexInv, LockedRefsLive, Objects, Address
  <1>6. OffsetsInv'
    BY <1>1, <1>3, <1>4 DEF ImageInv, OffsetsInv, Objects
  <1>7. BuildsInv'
    BY <1>1, <1>3, <1>4 DEF ImageInv, BuildsInv, Objects, Address
  <1> QED
    BY <1>5, <1>6, <1>7 DEF ImageInv

LEMMA AssignInv ==
  ASSUME ImageInv, NEW t \in Threads, Assign(t)
  PROVE  ImageInv'
  <1> DEFINE to == held[t].to  from == held[t].from
             meant == IF from.obj = to.obj THEN 0 ELSE from.obj
             offset == RelPtrTo(to.addr, from.addr).offset
  <1>1. Locked(t) /\ InImage(to.addr) /\ TypeInv
    BY DEF Assign, ImageInv
  <1>2. /\ to.obj \in Objects /\ to.addr = Address(to.obj) /\ Place(to.addr) = to.obj
        /\ from = NoRef \/ (from.obj \in Objects /\ from.addr = Address(from.obj))
    BY <1>1, HeldFacts
  <1>3. from.obj \in Nat /\ from.addr \in Int
    BY <1>1 DEF TypeInv, Refs
  <1>4. /\ base \in Nat \ {0} /\ to.obj \in Nat \ {0} /\ (from.obj = 0 <=> from = NoRef)
    BY <1>2, TypeFacts DEF ImageInv, Objects, NoRef
  <1>5. offset = IF meant = 0 THEN 0 ELSE meant - to.obj
    <2>1. CASE from = NoRef
      BY <1>4, <2>1 DEF RelPtrTo, MakeOffset, NoRef, Nullptr
    <2>2. CASE from # NoRef
      <3>1. /\ to.addr = base + to.obj - 1 /\ from.addr = base + from.obj - 1
            /\ from.obj \in Nat \ {0}
        BY <1>2, <1>3, <1>4, <2>2 DEF Address
      <3>2. from.addr # 0
        BY <1>4, <3>1
      <3>3. offset = from.addr - to.addr
        BY <3>2 DEF RelPtrTo, MakeOffset, Nullptr
      <3>4. offset = from.obj - to.obj
        BY <1>4, <3>1, <3>3
      <3> QED
        BY <1>4, <3>1, <3>4
    <2> QED
      BY <2>1, <2>2
  <1>6. meant \in Nat /\ meant # to.obj /\ offset \in Int
    BY <1>3, <1>4, <1>5
  <1>7. image' = [image EXCEPT ![to.obj].offset = offset, ![to.obj].meant = meant]
    BY <1>2 DEF Assign, Put
  <1>8. UNCHANGED <<owner, depth, base, held, building>>
    BY DEF Assign
  <1> HIDE DEF to, from, meant, offset
  <1> QED
    BY <1>2, <1>5, <1>6, <1>7, <1>8, PutInv

LEMMA CopyInv ==
  ASSUME ImageInv, NEW t \in Threads, Copy(t)
  PROVE  ImageInv'
  <1> DEFINE to == held[t].to  from == held[t].from
             m == image[from.obj].meant
             meant == IF m = to.obj THEN 0 ELSE m
             offset == Copied(to.addr, Pointer(from.obj)).offset
  <1>1. Locked(t) /\ InImage(to.addr) /\ InImage(from.addr)
    BY DEF Copy
  <1>2. /\ to.obj \in Objects /\ to.addr = Address(to.obj) /\ Place(to.addr) = to.obj
        /\ from.obj \in Objects /\ Place(from.addr) = from.obj
    BY <1>1, HeldFacts
  <1>3. /\ base \in Nat \ {0} /\ to.obj \in Nat \ {0} /\ from.obj \in Nat \ {0}
        /\ m \in Nat /\ image[from.obj].offset \in Int
    <2>1. TypeInv /\ base \in Nat \ {0} /\ Len(image) \in Nat
      BY TypeFacts DEF ImageInv
    <2>2. m \in Nat /\ image[from.obj].offset \in Int
      BY <1>2, <2>1, TypeFacts
    <2>3. to.obj \in Nat \ {0} /\ from.obj \in Nat \ {0}
      BY <1>2, <2>1 DEF Objects
    <2> QED
      BY <2>1, <2>2, <2>3
  <1>4. m # from.obj /\ image[from.obj].offset = IF m = 0 THEN 0 ELSE m - from.obj
    BY <1>2 DEF ImageInv, OffsetsInv
  <1>5. offset = IF meant = 0 THEN 0 ELSE meant - to.obj
    BY <1>2, <1>3, <1>4 DEF Copied, Pointer, IsSet, Target, MakeOffset, Address, Nullptr
  <1>6. meant \in Nat /\ meant # to.obj /\ offset \in Int
    BY <1>3, <1>5
  <1>7. image' = [image EXCEPT ![to.obj].offset = offset, ![to.obj].meant = meant]
    BY <1>2 DEF Copy, Put
  <1>8. UNCHANGED <<owner, depth, base, held, building>>
    BY DEF Copy
  <1> HIDE DEF to, from, m, meant, offset
  <1> QED
    BY <1>2, <1>5, <1>6, <1>7, <1>8, PutInv

\* What is built while the mutex is locked is built where it is; without the lock it
\* may be built into another object, whose pointer is null then.
LEMMA ConstructInv ==
  ASSUME ImageInv, NEW t \in Threads, Construct(t)
  PROVE  ImageInv'
  <1> DEFINE addr == building[t].addr
  <1>1. TypeInv /\ base \in Nat \ {0} /\ Len(image) \in Nat
    BY TypeFacts DEF ImageInv
  <1>2. /\ UNCHANGED <<owner, depth, base, held>>
        /\ building' = [building EXCEPT ![t] = NoRef]
        /\ building' \in [Threads -> Refs]
        /\ \A u \in Threads \ {t} : building'[u] = building[u]
    BY <1>1, RefsFacts DEF Construct, TypeInv
  <1>a. addr \in Int
    BY <1>1 DEF TypeInv, Refs
  <1>3. CASE ~InImage(addr)
    <2>1. image' = image
      BY <1>3 DEF Construct
    <2>2. TypeInv' /\ MutexInv' /\ OffsetsInv' /\ LockedRefsLive'
      BY <1>1, <1>2, <2>1
         DEF ImageInv, TypeInv, MutexInv, OffsetsInv, LockedRefsLive, Objects, Address
    <2>3. \A obj \in Objects : addr # Address(obj)
      BY <1>1, <1>3 DEF InImage, Address, Objects
    <2>4. BuildsInv'
      <3> SUFFICES ASSUME NEW obj \in Objects, ~image[obj].built, ~image[obj].bare
                   PROVE  \E u \in Threads : /\ owner = u
                              /\ building'[u] = [addr |-> Address(obj), obj |-> obj]
        BY <1>2, <2>1 DEF BuildsInv, Objects, Address
      <3>1. PICK u \in Threads :
                owner = u /\ building[u] = [addr |-> Address(obj), obj |-> obj]
        BY DEF ImageInv, BuildsInv
      <3>2. u # t
        BY <2>3, <3>1
      <3> QED
        BY <1>2, <3>1, <3>2
    <2> QED
      BY <2>2, <2>4 DEF ImageInv
  <1>4. CASE InImage(addr)
    <2>p. PICK k \in Objects : k = Place(addr) /\ addr = Address(k)
      BY <1>1, <1>4, <1>a DEF InImage, Place, Objects, Address
    <2>1. RelPtrTo(addr, Nullptr).offset = 0
      BY DEF RelPtrTo, MakeOffset
    <2>2. image' = [image EXCEPT ![k].built = TRUE, ![k].offset = 0, ![k].meant = 0]
      BY <1>4, <2>p, <2>1 DEF Construct
    <2>3. PICK n \in Nat : n = Len(image)
      BY <1>1
    <2>4. image \in [1 .. n -> Entries] /\ k \in 1 .. n
      BY <1>1, <2>3, <2>p DEF TypeInv, Objects
    <2>5. image[k] \in Entries
      BY <2>4
    <2>6. PICK e \in Entries :
              e = [image[k] EXCEPT !.built = TRUE, !.offset = 0, !.meant = 0]
      <3>1. [image[k] EXCEPT !.built = TRUE, !.offset = 0, !.meant = 0] \in Entries
        BY <2>5, TRUE \in BOOLEAN, 0 \in Int, 0 \in Nat, Zenon DEF Entries
      <3> QED
        BY <3>1, Zenon
    <2>7. e.built /\ e.offset = 0 /\ e.meant = 0
      BY <2>5, <2>6 DEF Entries
    <2>8. image' = [image EXCEPT ![k] = e]
      BY <2>2, <2>6
    <2>9. /\ image' \in [1 .. n -> Entries] /\ image'[k] = e
          /\ \A i \in 1 .. n : i # k => image'[i] = image[i]
      BY <2>4, <2>8
    <2>10. image' \in Seq(Entries) /\ Len(image') = n
      BY <2>9, SeqFacts, Zenon
    <2>11. TypeInv' /\ MutexInv' /\ LockedRefsLive'
      BY <1>1, <1>2, <2>3, <2>10
         DEF ImageInv, TypeInv, MutexInv, LockedRefsLive, Objects, Address
    <2>12. OffsetsInv'
      BY <1>1, <2>3, <2>4, <2>7, <2>9, <2>10 DEF ImageInv, OffsetsInv, Objects
    <2>13. BuildsInv'
      <3> SUFFICES ASSUME NEW obj \in 1 .. n, ~image'[obj].built, ~image'[obj].bare
                   PROVE  \E u \in Threads : /\ owner = u
                              /\ building'[u] = [addr |-> Address(obj), obj |-> obj]
        BY <1>2, <2>10 DEF BuildsInv, Objects, Address
      <3>1. obj # k
        BY <2>7, <2>9
      <3>2. PICK u \in Threads :
                owner = u /\ building[u] = [addr |-> Address(obj), obj |-> obj]
        BY <2>3, <2>9, <3>1 DEF ImageInv, BuildsInv, Objects
      <3>3. Address(obj) # Address(k)
        BY <1>1, <2>4, <3>1 DEF Address
      <3>4. building[u].addr = Address(obj)
        BY <3>2
      <3>5. u # t
        BY <2>p, <3>3, <3>4
      <3> QED
        BY <1>2, <3>2, <3>5
    <2> QED
      BY <2>11, <2>12, <2>13 DEF ImageInv
  <1> QED
    BY <1>3, <1>4

-----------------------------------------------------------------------------
(* The theorems.                                                           *)

LEMMA NextInv == ImageInv /\ [Next]_vars => ImageInv'
  <1> SUFFICES ASSUME ImageInv, [Next]_vars PROVE ImageInv'
    OBVIOUS
  <1>1. CASE Reload
    BY <1>1, ReloadInv
  <1>2. CASE UNCHANGED vars
    BY <1>2 DEF vars, ImageInv, TypeInv, MutexInv, OffsetsInv, LockedRefsLive, BuildsInv,
                Objects, Address
  <1>3. ASSUME NEW t \in Threads, Step(t) PROVE ImageInv'
    <2>1. CASE Lock(t)
      BY <2>1, LockInv
    <2>2. CASE Unlock(t)
      BY <2>2, UnlockInv
    <2>3. CASE Allocate(t)
      BY <2>3, AllocateInv
    <2>4. CASE Construct(t)
      BY <2>4, ConstructInv
    <2>5. ASSUME NEW n \in 1 .. SizeLimit, PopBack(t, n) PROVE ImageInv'
      <3>1. n \in Nat
        BY LimitsAssumption
      <3> QED
        BY <2>5, <3>1, PopBackInv
    <2>6. ASSUME NEW obj \in Objects, NEW which \in {"to", "from"}, Fetch(t, which, obj)
          PROVE  ImageInv'
      BY <2>6, FetchInv
    <2>7. CASE Assign(t)
      BY <2>7, AssignInv
    <2>8. CASE Copy(t)
      BY <2>8, CopyInv
    <2> QED
      BY <1>3, <2>1, <2>2, <2>3, <2>4, <2>5, <2>6, <2>7, <2>8 DEF Step
  <1> QED
    BY <1>1, <1>2, <1>3 DEF Next

LEMMA ImageInvariant == Spec => []ImageInv
  BY InitInv, NextInv, PTL DEF Spec

\* What the image holds has its type: the mutex has an owner, the vector its objects.
THEOREM ImageTypeCorrect == Spec => []ImageTypeOK
  <1>1. ImageInv => ImageTypeOK
    BY DEF ImageInv, TypeInv, ImageTypeOK, Entries, Refs
  <1> QED
    BY <1>1, ImageInvariant, PTL

\* Pointers of the image follow what they were set to when the vector is moved, and
\* when another process loads the file.
THEOREM PointersCorrect == Spec => []PointersFollow
  <1>1. ImageInv => PointersFollow
    <2> SUFFICES ASSUME ImageInv, NEW obj \in Objects
                 PROVE  /\ IsSet(Pointer(obj)) <=> image[obj].meant # 0
                        /\ image[obj].meant # 0 =>
                               Target(Pointer(obj)) = Address(image[obj].meant)
      BY DEF PointersFollow
    <2>1. /\ base \in Nat \ {0} /\ obj \in Nat \ {0} /\ image[obj].offset \in Int
          /\ image[obj].meant \in Nat
      BY TypeFacts DEF ImageInv, Objects
    <2>2. /\ image[obj].meant # obj
          /\ image[obj].offset = IF image[obj].meant = 0 THEN 0 ELSE image[obj].meant - obj
      BY DEF ImageInv, OffsetsInv
    <2> QED
      BY <2>1, <2>2 DEF Pointer, IsSet, Target, Address, Nullptr
  <1> QED
    BY <1>1, ImageInvariant, PTL

\* A thread that keeps the lock may use the raw pointers that it fetched under it.
THEOREM LockedRefsCorrect == Spec => []LockedRefsLive
  BY ImageInvariant, PTL DEF ImageInv

\* An object that was allocated under the caller's lock is constructed in the image.
THEOREM LockedBuildsCorrect == Spec => []LockedBuildsLand
  <1>1. ImageInv => LockedBuildsLand
    <2> SUFFICES ASSUME BuildsInv, NEW obj \in Objects, ~image[obj].built, ~image[obj].bare
                 PROVE  \E t \in Threads : building[t].obj = obj
      BY DEF LockedBuildsLand, ImageInv
    <2>1. PICK t \in Threads : building[t] = [addr |-> Address(obj), obj |-> obj]
      BY DEF BuildsInv
    <2>2. building[t].obj = obj
      BY <2>1
    <2> QED
      BY <2>2
  <1> QED
    BY <1>1, ImageInvariant, PTL

-----------------------------------------------------------------------------
(* What is under construction with the mutex locked has its place in the     *)
(* image, and no pointer has been set there.                                 *)

FreshInv ==
    \A t \in Threads : owner = t /\ ~Free(t) =>
        /\ building[t].obj \in Objects
        /\ building[t].addr = Address(building[t].obj)
        /\ image[building[t].obj].meant = 0

\* With the mutex locked only construct() is open to a thread that has allocated; other
\* threads can do no more than construct, too.
LEMMA FreshStep ==
  ASSUME ImageInv, FreshInv, [Next]_vars
  PROVE  FreshInv'
  <1>1. TypeInv /\ base \in Nat \ {0} /\ Len(image) \in Nat /\ image \in Seq(Entries)
    BY TypeFacts DEF ImageInv, TypeInv
  <1>2. ASSUME NEW t \in Threads, Lock(t) \/ Unlock(t) \/ (\E n \in 1 .. SizeLimit : PopBack(t, n))
                                 \/ Assign(t) \/ Copy(t)
        PROVE  FreshInv'
    <2>1. /\ Free(t) /\ owner \in {None, t} /\ owner' \in {None, t}
          /\ UNCHANGED building
      BY <1>2 DEF Lock, Unlock, PopBack, Assign, Copy, Locked, Lockable
    <2> QED
      BY <2>1, ThreadsAssumption DEF FreshInv, Free
  <1>3. ASSUME NEW t \in Threads, NEW obj \in Objects, NEW which \in {"to", "from"},
               Fetch(t, which, obj)
        PROVE  FreshInv'
    BY <1>3 DEF FreshInv, Fetch, Free, Objects, Address
  <1>4. ASSUME NEW t \in Threads, Allocate(t) PROVE FreshInv'
    <2>n. PICK n \in Nat : n = Len(image) + 1
      BY <1>1
    <2>b. PICK bare \in BOOLEAN : bare = (owner # t)
      OBVIOUS
    <2>1. /\ owner \in {None, t} /\ UNCHANGED owner
          /\ base' \in Bases /\ image' = Resized(n, bare)
          /\ building' = [building EXCEPT ![t] =
                              [addr |-> base' + Len(image') - 1, obj |-> Len(image')]]
      BY <1>1, <1>4, <2>n, <2>b, NeverPadded DEF Allocate, mutexVars, Lockable
    <2>2. Len(image') = n /\ image'[n] = Blank(bare)
      <3>1. /\ image' \in Seq(Entries) /\ Len(image') = n
            /\ \A i \in 1 .. n : image'[i] = IF i <= Len(image) THEN image[i] ELSE Blank(bare)
        BY <1>1, <2>1, ResizedFacts
      <3> QED
        BY <1>1, <2>n, <3>1
    <2>3. building'[t] = [addr |-> base' + n - 1, obj |-> n]
      BY <1>1, <2>1, <2>2 DEF TypeInv
    <2>4. building'[t].obj = n /\ building'[t].addr = base' + n - 1 /\ image'[n].meant = 0
      BY <2>2, <2>3 DEF Blank
    <2>5. n \in Objects' /\ Address(n)' = base' + n - 1
      BY <1>1, <2>n, <2>2 DEF Objects, Address
    <2>6. \A u \in Threads : owner' = u => u = t
      BY <2>1, ThreadsAssumption
    <2> QED
      BY <2>4, <2>5, <2>6 DEF FreshInv
  <1>5. ASSUME NEW t \in Threads, Construct(t) PROVE FreshInv'
    <2>1. /\ UNCHANGED <<owner, base>> /\ building' = [building EXCEPT ![t] = NoRef]
      BY <1>5 DEF Construct
    <2>2. /\ DOMAIN image' = DOMAIN image /\ Len(image') = Len(image)
          /\ \A i \in Objects : image'[i].meant \in {image[i].meant, 0}
      <3>1. CASE image' = image
        BY <3>1
      <3>2. CASE \E k \in Objects : \E offset : image' = [image EXCEPT ![k].built = TRUE,
                                      ![k].offset = offset, ![k].meant = 0]
        <4>k. PICK k \in Objects : \E offset : image' = [image EXCEPT ![k].built = TRUE,
                                      ![k].offset = offset, ![k].meant = 0]
          BY <3>2
        <4>1. PICK offset : image' = [image EXCEPT ![k].built = TRUE,
                                      ![k].offset = offset, ![k].meant = 0]
          BY <4>k
        <4>2. PICK n \in Nat : n = Len(image)
          BY <1>1
        <4>3. image \in [1 .. n -> Entries] /\ k \in 1 .. n /\ image[k] \in Entries
          BY <1>1, <4>2 DEF Objects
        <4>4. PICK e : e = [image[k] EXCEPT !.built = TRUE, !.offset = offset, !.meant = 0]
          OBVIOUS
        <4>5. e.meant = 0
          BY <4>3, <4>4 DEF Entries
        <4>6. image' = [image EXCEPT ![k] = e]
          BY <4>1, <4>4
        <4>7. /\ DOMAIN image' = 1 .. n
              /\ \A i \in 1 .. n : image'[i] = IF i = k THEN e ELSE image[i]
          BY <4>3, <4>6
        <4>8. Len(image') = n
          BY <1>5, <1>1, <4>2, <4>6, <4>3
        <4> QED
          BY <4>2, <4>3, <4>5, <4>7, <4>8 DEF Objects
      <3>3. ASSUME InImage(building[t].addr) PROVE Place(building[t].addr) \in Objects
        <4>1. building[t].addr \in Int
          BY <1>1 DEF TypeInv, Refs
        <4> QED
          BY <1>1, <3>3, <4>1 DEF InImage, Place, Objects
      <3> QED
        BY <1>5, <3>1, <3>2, <3>3 DEF Construct
    <2>3. \A u \in Threads : ~(building'[u] = NoRef) => building'[u] = building[u]
      BY <1>1, <2>1 DEF TypeInv
    <2> QED
      BY <2>1, <2>2, <2>3 DEF FreshInv, Free, Objects, Address
  <1>6. CASE Reload \/ UNCHANGED vars
    <2>1. CASE Reload
      BY <2>1, ThreadsAssumption DEF Reload, FreshInv
    <2>2. CASE UNCHANGED vars
      BY <2>2 DEF vars, FreshInv, Free, Objects, Address
    <2> QED
      BY <1>6, <2>1, <2>2
  <1> QED
    BY <1>2, <1>3, <1>4, <1>5, <1>6 DEF Next, Step

\* What is constructed under the caller's lock goes to fresh bytes and builds over no
\* object, also when other threads construct without a lock.
THEOREM BuildsOverNothingCorrect == Spec => BuildsOverNothing
  <1>1. Init => FreshInv
    BY DEF Init, FreshInv, Free
  <1>2. ImageInv /\ FreshInv /\ [Next]_vars => FreshInv'
    BY FreshStep
  <1>3. ImageInv /\ FreshInv /\ [Next]_vars =>
          [\A t \in Threads, obj \in Objects :
              owner = t /\ ~Free(t) /\ building'[t] = NoRef /\ image[obj].built =>
                  image'[obj] = image[obj]]_vars
    <2> SUFFICES ASSUME ImageInv, FreshInv, Next, NEW t \in Threads, NEW obj \in Objects,
                        owner = t, ~Free(t), building'[t] = NoRef, image[obj].built
                 PROVE  image'[obj] = image[obj]
      OBVIOUS
    <2>1. TypeInv /\ base \in Nat \ {0} /\ Len(image) \in Nat /\ image \in Seq(Entries)
      BY TypeFacts DEF ImageInv, TypeInv
    <2>2. PICK u \in Threads : Construct(u)
      <3>1. \A u \in Threads : Allocate(u) => building'[t] = building[t] \/ u = t
        BY <2>1 DEF Allocate, TypeInv
      <3>2. ~Allocate(t)
        BY DEF Allocate
      <3>3. building'[t] # building[t]
        BY DEF Free
      <3> QED
        BY <3>1, <3>2, <3>3 DEF Next, Step, Reload, Lock, Unlock, PopBack, Fetch, Assign, Copy
    <2>3. u = t
      BY <2>1, <2>2 DEF Construct, TypeInv, Free
    <2>4. PICK k \in Objects : /\ k = building[t].obj /\ building[t].addr = Address(k)
                               /\ image[k].meant = 0
      BY DEF FreshInv
    <2>5. InImage(building[t].addr) /\ Place(building[t].addr) = k
      BY <2>1, <2>4 DEF InImage, Place, Address, Objects
    <2>6. image' = [image EXCEPT ![k].built = TRUE, ![k].offset = 0, ![k].meant = 0]
      <3>1. RelPtrTo(building[t].addr, Nullptr).offset = 0
        BY DEF RelPtrTo, MakeOffset
      <3> QED
        BY <2>2, <2>3, <2>5, <3>1 DEF Construct
    <2>7. image[k] \in Entries /\ image \in [1 .. Len(image) -> Entries] /\ k \in 1 .. Len(image)
      BY <2>1 DEF Objects
    <2>8. CASE obj # k
      <3>1. PICK e : e = [image[k] EXCEPT !.built = TRUE, !.offset = 0, !.meant = 0]
        OBVIOUS
      <3>2. image' = [image EXCEPT ![k] = e]
        BY <2>6, <3>1
      <3>3. obj \in 1 .. Len(image)
        BY DEF Objects
      <3> QED
        BY <2>7, <2>8, <3>2, <3>3
    <2>9. CASE obj = k
      <3>1. image[k].offset = 0
        BY <2>4 DEF ImageInv, OffsetsInv
      <3>2. [image[k] EXCEPT !.built = TRUE, !.offset = 0, !.meant = 0] = image[k]
        BY <2>4, <2>7, <2>9, <3>1 DEF Entries
      <3>3. image'[k] = [image[k] EXCEPT !.built = TRUE, !.offset = 0, !.meant = 0]
        BY <2>6, <2>7
      <3> QED
        BY <2>9, <3>2, <3>3
    <2> QED
      BY <2>8, <2>9
  <1> QED
    BY <1>1, <1>2, <1>3, ImageInvariant, PTL DEF Spec, BuildsOverNothing
=============================================================================
