-------------------------------- MODULE RelPtr --------------------------------
(***************************************************************************)
(* The pointers of binary_file.hpp: RelPtr, stored in the file's image and  *)
(* relative to its own place, OffsetPtr, held outside the image and meant   *)
(* to be relative to it, and the links made of them.  Addresses are         *)
(* integers, nullptr is 0.                                                  *)
(***************************************************************************)
EXTENDS Integers

Nullptr == 0

\* A pointer is where it is and m_offset.
Pointers == [at : Int, offset : Int]

MakeOffset(obj, base) == IF obj = Nullptr THEN 0 ELSE obj - base

\* RelPtr(T *) and operator=(pointer_type).
RelPtrTo(at, obj) == [at |-> at, offset |-> MakeOffset(obj, at)]

IsSet(p) == p.offset # 0

\* make_pointer(): what -> and * use, of an OffsetPtr too.
Target(p) == p.at + p.offset

\* Mutant: the offset is copied as it is.
CopyOffset(at, p) == [at |-> at, offset |-> p.offset]

\* The copy constructor and operator=(const RelPtr &).
Copied(at, p) ==
    [at |-> at, offset |-> IF IsSet(p) THEN MakeOffset(Target(p), at) ELSE 0]

\* offset(base): the target as an offset from another address.
OffsetFrom(p, base) == -1 * MakeOffset(base, p.at) + p.offset

\* OffsetPtr(pobj, func), with the image at base; its operator=, of pointers to
\* the same image, copies like RelPtr's.
OffsetPtrTo(at, obj, base) == [at |-> at, offset |-> MakeOffset(obj, base)]
OffsetPtrCopied(at, p, base) ==
    [at |-> at, offset |-> IF IsSet(p) THEN MakeOffset(Target(p), base) ELSE 0]

\* linked_list_iterator::operator++: where a link's `next' leads, whether it is set
\* or not; end() is a null pointer.
NextLink(next) == Target(next)
=============================================================================
