-------------------------------- MODULE FDSet --------------------------------
(***************************************************************************)
(* jab::file::FDSet (File.hpp, File.cpp): a set of descriptors for          *)
(* select(), with its largest member cached for the nfds argument.  A set   *)
(* that has been handed out for writing has a cache that is not valid.      *)
(***************************************************************************)
EXTENDS Integers

NullFd == -1

Zero == [fds |-> {}, max |-> NullFd, valid |-> TRUE]

FindMax(set) ==
    IF set.fds = {} THEN NullFd
    ELSE CHOOSE fd \in set.fds : \A other \in set.fds : other <= fd

\* max_fd(): the cache, looked up first if it is not valid.
MaxFd(set) == IF set.valid THEN set.max ELSE FindMax(set)

\* Mutant: the descriptor added last is taken for the largest.
SetFdLast(set, fd) ==
    IF fd = NullFd THEN set ELSE [fds |-> set.fds \cup {fd}, max |-> fd, valid |-> TRUE]

\* set_impl: the null descriptor is left out.
SetFd(set, fd) ==
    IF fd = NullFd THEN set
    ELSE LET added == [set EXCEPT !.fds = @ \cup {fd}]
             max == MaxFd(added)
         IN [added EXCEPT !.max = IF fd > max THEN fd ELSE max, !.valid = TRUE]

\* select() leaves the ready descriptors, and a cache that is not valid.
Selected(set, ready) ==
    [fds |-> set.fds \cap ready, max |-> MaxFd(set), valid |-> FALSE]

\* The argument of select() covers every member.
Covered(set) == \A fd \in set.fds : fd < MaxFd(set) + 1
=============================================================================
