--------------------------- MODULE StateFileProofs ---------------------------
(***************************************************************************)
(* Theorems about StateFile and Config: how every command line is parsed,   *)
(* what becomes of a file that processes use side by side, fail to write    *)
(* and are killed over, and whose file is rejected.                         *)
(***************************************************************************)
EXTENDS StateFile, SequenceTheorems, WellFoundedInduction, TLAPS

-----------------------------------------------------------------------------
(* The command line.  Parse folds it from the left.                        *)

Folding(args, n, it) ==
    it = [s \in SUBSET (1 .. n) |->
             IF s = {} THEN Defaults ELSE Argument(it[s \ {Max(s)}], args[Max(s)])]

\* The least-number principle, as an induction over a set.
LEMMA Induction ==
  ASSUME NEW S, 0 \in S, \A n \in Nat : n \in S => n + 1 \in S
  PROVE  \A n \in Nat : n \in S
  <1> SUFFICES ASSUME NEW k \in Nat, k \notin S PROVE FALSE
    OBVIOUS
  <1> DEFINE Others == {n \in Nat : n \notin S}
  <1>1. PICK m \in Others : \A n \in Others : ~(<<n, m>> \in OpToRel(<, Nat))
    <2>1. Others \subseteq Nat /\ Others # {}
      OBVIOUS
    <2> QED
      BY <2>1, NatLessThanWellFounded, WFMin
  <1>2. m # 0 /\ m - 1 \in Nat
    OBVIOUS
  <1>3. m - 1 \in S
    <2> SUFFICES ASSUME m - 1 \in Others PROVE FALSE
      BY <1>2
    <2>1. <<m - 1, m>> \in Nat \X Nat /\ <<m - 1, m>>[1] < <<m - 1, m>>[2]
      BY <1>2
    <2> QED
      BY <1>1, <2>1 DEF OpToRel
  <1> QED
    BY <1>2, <1>3

LEMMA MaxOfRange ==
  ASSUME NEW n \in Nat, NEW s \in SUBSET (1 .. (n + 1)), n + 1 \in s
  PROVE  Max(s) = n + 1
  <1>1. n + 1 \in s /\ \A k \in s : n + 1 >= k
    OBVIOUS
  <1>2. \A x \in s : (\A k \in s : x >= k) => x = n + 1
    OBVIOUS
  <1> QED
    BY <1>1, <1>2 DEF Max

LEMMA FoldingExists ==
  ASSUME NEW args
  PROVE  \A n \in Nat : \E it : Folding(args, n, it)
  <1> DEFINE S == {n \in Nat : \E it : Folding(args, n, it)}
  <1>1. 0 \in S
    <2> DEFINE it == [s \in SUBSET (1 .. 0) |-> Defaults]
    <2>1. \A s \in SUBSET (1 .. 0) : s = {}
      OBVIOUS
    <2>2. Folding(args, 0, it)
      BY <2>1 DEF Folding
    <2> QED
      BY <2>2
  <1>2. ASSUME NEW n \in Nat, n \in S
        PROVE  n + 1 \in S
    <2>1. PICK it : Folding(args, n, it)
      BY <1>2
    <2> DEFINE longer == [s \in SUBSET (1 .. (n + 1)) |->
                             IF n + 1 \in s THEN Argument(it[s \ {n + 1}], args[n + 1])
                             ELSE it[s]]
    <2>2. ASSUME NEW s \in SUBSET (1 .. (n + 1))
          PROVE  longer[s] = IF s = {} THEN Defaults
                             ELSE Argument(longer[s \ {Max(s)}], args[Max(s)])
      <3>1. CASE n + 1 \in s
        <4>1. Max(s) = n + 1 /\ s # {}
          BY <3>1, MaxOfRange
        <4>2. longer[s \ {n + 1}] = it[s \ {n + 1}]
          OBVIOUS
        <4>3. longer[s] = Argument(it[s \ {n + 1}], args[n + 1])
          BY <3>1
        <4> QED
          BY <4>1, <4>2, <4>3
      <3>2. CASE n + 1 \notin s
        <4>1. s \in SUBSET (1 .. n) /\ s \ {Max(s)} \in SUBSET (1 .. n)
          <5>1. \A k \in s : k \in 1 .. n
            <6> TAKE k \in s
            <6>1. k \in 1 .. (n + 1) /\ k # n + 1
              BY <3>2
            <6> QED
              BY <6>1
          <5> QED
            BY <5>1
        <4>2. it[s] = IF s = {} THEN Defaults ELSE Argument(it[s \ {Max(s)}], args[Max(s)])
          BY <2>1, <4>1 DEF Folding
        <4>3. n + 1 \notin s \ {Max(s)} /\ s \ {Max(s)} \in SUBSET (1 .. (n + 1))
          BY <3>2
        <4>4. longer[s] = it[s] /\ longer[s \ {Max(s)}] = it[s \ {Max(s)}]
          BY <3>2, <4>3
        <4> QED
          BY <4>2, <4>4
      <3> QED
        BY <3>1, <3>2
    <2>3. longer = [s \in SUBSET (1 .. (n + 1)) |->
                       IF s = {} THEN Defaults
                       ELSE Argument(longer[s \ {Max(s)}], args[Max(s)])]
      <3>1. longer = [s \in SUBSET (1 .. (n + 1)) |-> longer[s]]
        OBVIOUS
      <3> HIDE DEF longer
      <3> QED
        BY <2>2, <3>1
    <2>4. Folding(args, n + 1, longer)
      BY <2>3 DEF Folding
    <2> QED
      BY <2>4
  <1>3. \A n \in Nat : n \in S
    <2> HIDE DEF S
    <2> QED
      BY <1>1, <1>2, Induction
  <1> QED
    BY <1>3

\* Parse folds Argument over the command line, from the left: the configuration after
\* each argument, and the one that the fold ends with.
Folded(args, c) ==
    /\ c[0] = Defaults
    /\ \A k \in 1 .. Len(args) : c[k] = Argument(c[k - 1], args[k])

LEMMA ParseFolds ==
  ASSUME NEW args \in Seq(Args)
  PROVE  \E c : Folded(args, c) /\ FoldLeft(Argument, Defaults, args) = c[Len(args)]
  <1>1. Len(args) \in Nat /\ DOMAIN args = 1 .. Len(args)
    OBVIOUS
  <1> DEFINE it == CHOOSE it : Folding(args, Len(args), it)
             c == [k \in 0 .. Len(args) |-> it[1 .. k]]
  <1>2. Folding(args, Len(args), it)
    BY <1>1, FoldingExists
  <1>3. FoldLeft(Argument, Defaults, args) = it[1 .. Len(args)]
    BY <1>1 DEF FoldLeft, MapThenFoldSet, Folding
  <1> HIDE DEF it
  <1>4. c[0] = Defaults
    <2>1. 1 .. 0 = {} /\ {} \in SUBSET (1 .. Len(args))
      OBVIOUS
    <2> QED
      BY <1>1, <1>2, <2>1 DEF Folding
  <1>5. ASSUME NEW k \in 1 .. Len(args)
        PROVE  c[k] = Argument(c[k - 1], args[k])
    <2>1. k - 1 \in Nat /\ (k - 1) + 1 = k
      BY <1>1
    <2>2. Max(1 .. k) = k
      <3>1. k \in 1 .. k /\ 1 .. k \in SUBSET (1 .. k)
        BY <2>1
      <3>2. \A n \in Nat : n + 1 = k => Max(1 .. k) = n + 1
        BY <3>1, MaxOfRange
      <3> QED
        BY <2>1, <3>2
    <2>3. (1 .. k) \ {k} = 1 .. (k - 1) /\ 1 .. k # {} /\ 1 .. k \in SUBSET (1 .. Len(args))
      <3>1. k \in Nat /\ k <= Len(args) /\ k \in 1 .. k
        BY <1>1, <2>1
      <3>2. \A j : j \in (1 .. k) \ {k} <=> j \in 1 .. (k - 1)
        BY <3>1
      <3>3. \A j \in 1 .. k : j \in 1 .. Len(args)
        BY <1>1, <3>1
      <3> QED
        BY <3>1, <3>2, <3>3
    <2>4. it[1 .. k] = Argument(it[1 .. (k - 1)], args[k])
      BY <1>2, <2>2, <2>3 DEF Folding
    <2> QED
      BY <1>1, <2>1, <2>4
  <1> HIDE DEF c
  <1>6. c[Len(args)] = it[1 .. Len(args)]
    BY <1>1 DEF c
  <1> QED
    BY <1>3, <1>4, <1>5, <1>6 DEF Folded

Configs ==
    [next : {"switch", "count", "path", "nothing", "error"}, threads : Int,
     path : Paths, local : Words \cup {Unset}]

\* What each argument does, by what is expected.
LEMMA ArgumentFacts ==
  ASSUME NEW cf, cf \in Configs, NEW arg \in Args, NEW r, r = Argument(cf, arg)
  PROVE  /\ r \in Configs /\ GetInt(arg) \in Int
         /\ cf.next \in {"nothing", "error"} => r.next = "error"
         /\ cf.next = "count" =>
                \/ GetInt(arg) < 1 /\ r.next = "error"
                \/ /\ GetInt(arg) >= 1 /\ r.next = "switch" /\ r.threads = GetInt(arg)
                   /\ r.path = cf.path /\ r.local = cf.local
         /\ cf.next = "path" => /\ r.next = "switch" /\ r.path = arg
                                  /\ r.threads = cf.threads /\ r.local = cf.local
         /\ cf.next = "switch" /\ arg \in Words =>
                /\ r.next = "nothing" /\ r.local = arg
                /\ r.path = cf.path /\ r.threads = cf.threads
         /\ cf.next = "switch" /\ arg \notin Words =>
                /\ r.path = cf.path /\ r.threads = cf.threads /\ r.local = cf.local
                /\ r.next = CASE arg = "-h" -> "switch" [] arg = "-j" -> "count"
                              [] arg = "-f" -> "path" [] OTHER -> "error"
  <1>1. GetInt(arg) \in Int
    BY WordsAssumption DEF GetInt
  <1>2. arg \in Paths /\ {"-h", "-j", "-f"} \cap Words = {}
    BY WordsAssumption DEF Paths, Switches
  <1> USE DEF Configs, Fails
  <1>3. CASE cf.next = "count"
    <2>1. r = Count(cf, arg)
      BY <1>3 DEF Argument
    <2>2. CASE GetInt(arg) < 1
      <3>1. r = Fails(cf)
        BY <2>1, <2>2 DEF Count
      <3> QED
        BY <1>1, <1>3, <2>2, <3>1
    <2>3. CASE GetInt(arg) >= 1
      <3>1. r = [cf EXCEPT !.threads = GetInt(arg), !.next = "switch"]
        BY <1>1, <2>1, <2>3 DEF Count
      <3> QED
        BY <1>1, <1>3, <2>3, <3>1
    <2> QED
      BY <1>1, <2>2, <2>3
  <1>4. CASE cf.next = "path"
    <2>1. r = Path(cf, arg)
      BY <1>4 DEF Argument
    <2> QED
      BY <1>1, <1>2, <1>4, <2>1 DEF Path
  <1>5. CASE cf.next \in {"nothing", "error"}
    <2>1. r = Fails(cf)
      BY <1>5 DEF Argument
    <2> QED
      BY <1>1, <1>5, <2>1
  <1>6. CASE cf.next = "switch"
    <2>1. CASE arg \in Words
      <3>1. r = [cf EXCEPT !.local = arg, !.next = "nothing"]
        BY <1>2, <1>6, <2>1 DEF Argument
      <3> QED
        BY <1>1, <1>6, <2>1, <3>1
    <2>2. CASE arg = "-h"
      <3>1. r = cf
        BY <1>2, <1>6, <2>2 DEF Argument
      <3> QED
        BY <1>1, <1>2, <1>6, <2>2, <3>1
    <2>3. CASE arg = "-j"
      <3>1. r = [cf EXCEPT !.next = "count"]
        BY <1>2, <1>6, <2>3 DEF Argument
      <3> QED
        BY <1>1, <1>2, <1>6, <2>3, <3>1
    <2>4. CASE arg = "-f"
      <3>1. r = [cf EXCEPT !.next = "path"]
        BY <1>2, <1>6, <2>4 DEF Argument
      <3> QED
        BY <1>1, <1>2, <1>6, <2>4, <3>1
    <2>5. CASE arg \notin Words /\ arg \notin {"-h", "-j", "-f"}
      <3>1. r = Fails(cf)
        BY <1>6, <2>5 DEF Argument
      <3> QED
        BY <1>1, <1>6, <2>5, <3>1
    <2> QED
      BY <2>1, <2>2, <2>3, <2>4, <2>5
  <1> QED
    BY <1>3, <1>4, <1>5, <1>6 DEF Configs

\* So every beginning of a command line has a configuration.
LEMMA FoldedTypes ==
  ASSUME NEW args \in Seq(Args), NEW c, Folded(args, c)
  PROVE  \A k \in 0 .. Len(args) : c[k] \in Configs
  <1> DEFINE S == {k \in Nat : k <= Len(args) => c[k] \in Configs}
  <1>1. 0 \in S
    <2>1. Defaults \in Configs
      BY DEF Configs, Defaults, Paths
    <2> QED
      BY <2>1 DEF Folded
  <1>2. ASSUME NEW k \in Nat, k \in S
        PROVE  k + 1 \in S
    <2> SUFFICES ASSUME k + 1 <= Len(args) PROVE c[k + 1] \in Configs
      OBVIOUS
    <2>1. k + 1 \in 1 .. Len(args) /\ (k + 1) - 1 = k /\ Len(args) \in Nat
      OBVIOUS
    <2>2. c[k] \in Configs /\ args[k + 1] \in Args
      BY <1>2, <2>1
    <2>3. c[k + 1] = Argument(c[k], args[k + 1])
      BY <2>1 DEF Folded
    <2> QED
      BY <2>2, <2>3, ArgumentFacts
  <1> HIDE DEF S
  <1>3. \A k \in Nat : k \in S
    BY <1>1, <1>2, Induction
  <1> QED
    BY <1>3 DEF S

LEMMA ParsePath ==
  ASSUME NEW args \in Seq(Args)
  PROVE  Parse(args) \in Configs /\ Parse(args).path \in Paths
  <1>1. PICK c : Folded(args, c) /\ FoldLeft(Argument, Defaults, args) = c[Len(args)]
    BY ParseFolds
  <1>2. c[Len(args)] \in Configs
    <2>1. Len(args) \in 0 .. Len(args)
      OBVIOUS
    <2> QED
      BY <1>1, <2>1, FoldedTypes
  <1>3. Parse(args) = IF c[Len(args)].next = "nothing" THEN c[Len(args)] ELSE Fails(c[Len(args)])
    BY <1>1 DEF Parse
  <1> QED
    BY <1>2, <1>3 DEF Configs, Fails

LEMMA GreatestExists ==
  ASSUME NEW n \in Nat, NEW s \in SUBSET (0 .. n), s # {}
  PROVE  \E i \in s : \A j \in s : j <= i
  <1> DEFINE Below == {k \in Nat : n - k \in s}
  <1>1. Below # {}
    <2>1. PICK i \in s : TRUE
      OBVIOUS
    <2>2. n - i \in Nat /\ n - (n - i) = i
      OBVIOUS
    <2> QED
      BY <2>1, <2>2
  <1>2. PICK k \in Below : \A j \in Below : ~(<<j, k>> \in OpToRel(<, Nat))
    <2>1. Below \subseteq Nat
      OBVIOUS
    <2> QED
      BY <1>1, <2>1, NatLessThanWellFounded, WFMin
  <1>3. ASSUME NEW j \in s PROVE j <= n - k
    <2> SUFFICES ASSUME j > n - k PROVE FALSE
      OBVIOUS
    <2>1. n - j \in Below /\ n - j \in Nat /\ n - j < k
      OBVIOUS
    <2>2. <<n - j, k>> \in Nat \X Nat /\ <<n - j, k>>[1] < <<n - j, k>>[2]
      BY <2>1
    <2> QED
      BY <1>2, <2>1, <2>2 DEF OpToRel
  <1> QED
    BY <1>2, <1>3

\* What a beginning of a command line has been read as, if the whole has a reading: the
\* last -f and the last -j whose arguments are in it count.
Latest(args, switches, switch, k, value, default) ==
    LET at == {i \in switches : args[i] = switch /\ i < k}
    IN /\ at = {} => value = default
       /\ \A i \in at : (\A j \in at : j <= i) => value = args[i + 1]

LEMMA LatestGrows ==
  ASSUME NEW args, NEW n \in Nat, NEW switches \in SUBSET (1 .. n), NEW switch,
         NEW k \in Nat, NEW value, NEW default, NEW next,
         Latest(args, switches, switch, k, value, default),
         IF k \in switches /\ args[k] = switch THEN next = args[k + 1] ELSE next = value
  PROVE  Latest(args, switches, switch, k + 1, next, default)
  <1> DEFINE at(m) == {i \in switches : args[i] = switch /\ i < m}
  <1>1. CASE k \in switches /\ args[k] = switch
    <2>1. k \in at(k + 1) /\ \A i \in at(k + 1) : i <= k /\ i \in Int
      BY <1>1
    <2>2. \A i \in at(k + 1) : (\A j \in at(k + 1) : j <= i) => i = k
      BY <2>1
    <2> QED
      BY <1>1, <2>1, <2>2 DEF Latest
  <1>2. CASE ~(k \in switches /\ args[k] = switch)
    <2>1. at(k + 1) = at(k)
      <3>1. \A i \in switches : i \in Int /\ (args[i] = switch => i # k)
        BY <1>2
      <3>2. \A i \in switches : args[i] = switch => (i < k + 1 <=> i < k)
        BY <3>1
      <3> QED
        BY <3>2
    <2> QED
      BY <1>2, <2>1 DEF Latest
  <1> QED
    BY <1>1, <1>2

LEMMA LatestGiven ==
  ASSUME NEW args, NEW k \in Nat, NEW switches \in SUBSET (1 .. k), NEW switch,
         NEW value, NEW default,
         \A i \in switches : args[i] = switch => i < k,
         Latest(args, switches, switch, k, value, default)
  PROVE  value = Given(args, switches, switch, default)
  <1> DEFINE at == {i \in switches : args[i] = switch}
             last == CHOOSE i \in at : \A j \in at : j <= i
  <1>1. at = {i \in switches : args[i] = switch /\ i < k}
    OBVIOUS
  <1>2. CASE at = {}
    BY <1>1, <1>2 DEF Latest, Given
  <1>3. CASE at # {}
    <2>1. \E i \in at : \A j \in at : j <= i
      <3>1. at \in SUBSET (0 .. k)
        <4>1. \A i \in switches : i \in 0 .. k
          OBVIOUS
        <4> QED
          BY <4>1
      <3> HIDE DEF at
      <3> QED
        BY <1>3, <3>1, GreatestExists
    <2>2. last \in at /\ \A j \in at : j <= last
      <3> HIDE DEF at
      <3> QED
        BY <2>1
    <2>3. value = args[last + 1]
      <3> HIDE DEF last
      <3> QED
        BY <1>1, <2>2 DEF Latest
    <2>4. last + 1 = 1 + last
      <3>1. last \in Int
        <4> HIDE DEF last
        <4> QED
          BY <2>2
      <3> HIDE DEF last
      <3> QED
        BY <3>1
    <2> QED
      BY <1>3, <2>3, <2>4 DEF Given
  <1> QED
    BY <1>2, <1>3

\* While a command line that has a reading is folded, every switch is met where the
\* reading has it, and the values are those of the last -f and -j.
LatestCount(args, switches, k, threads) ==
    \E word : Latest(args, switches, "-j", k, word, "1") /\ threads = GetInt(word)

ReadSoFar(args, switches, cf, k) ==
    /\ cf.next = IF k \in switches /\ args[k] = "-j" THEN "count"
                   ELSE IF k \in switches /\ args[k] = "-f" THEN "path" ELSE "switch"
    /\ Latest(args, switches, "-f", k, cf.path, DefaultPath)
    /\ LatestCount(args, switches, k, cf.threads)

LEMMA ReadOn ==
  ASSUME NEW args \in Seq(Args), NEW switches \in SUBSET (1 .. (Len(args) - 1)),
         Reads(args, switches), NEW k \in Nat, k + 1 <= Len(args) - 1,
         NEW cf, cf \in Configs, ReadSoFar(args, switches, cf, k),
         NEW r, r = Argument(cf, args[k + 1])
  PROVE  ReadSoFar(args, switches, r, k + 1)
  <1> DEFINE n == Len(args) - 1
  <1>1. /\ Len(args) \in Nat /\ k + 1 \in 1 .. n /\ k + 1 \in 1 .. Len(args)
        /\ (k + 1) - 1 = k /\ n \in Nat /\ k \in Int
    OBVIOUS
  <1>2. args[k + 1] \in Args
    BY <1>1
  <1>3. /\ cf.next = "count" =>
              \/ GetInt(args[k + 1]) < 1
              \/ /\ r.next = "switch" /\ r.threads = GetInt(args[k + 1])
                 /\ r.path = cf.path
        /\ cf.next = "path" => /\ r.next = "switch" /\ r.path = args[k + 1]
                                 /\ r.threads = cf.threads
        /\ cf.next = "switch" /\ args[k + 1] \notin Words =>
              /\ r.path = cf.path /\ r.threads = cf.threads
              /\ r.next = CASE args[k + 1] = "-h" -> "switch" [] args[k + 1] = "-j" -> "count"
                            [] args[k + 1] = "-f" -> "path" [] OTHER -> "error"
        /\ GetInt(args[k + 1]) \in Int
    BY <1>2, ArgumentFacts
  <1>4. /\ k \in switches /\ args[k] \in {"-j", "-f"} <=> k + 1 \notin switches
        /\ k \in switches /\ args[k] = "-j" => GetInt(args[k + 1]) >= 1
        /\ k + 1 \in switches => args[k + 1] \in {"-h", "-j", "-f"}
    BY <1>1 DEF Reads, TakingArguments
  <1>5. PICK word : Latest(args, switches, "-j", k, word, "1") /\ cf.threads = GetInt(word)
    BY DEF ReadSoFar, LatestCount
  <1>6. Latest(args, switches, "-f", k, cf.path, DefaultPath)
    BY DEF ReadSoFar
  <1> DEFINE nextWord == IF k \in switches /\ args[k] = "-j" THEN args[k + 1] ELSE word
  <1>7. Latest(args, switches, "-j", k + 1, nextWord, "1")
    BY <1>1, <1>5, LatestGrows
  <1>8. ASSUME IF k \in switches /\ args[k] = "-f" THEN r.path = args[k + 1] ELSE r.path = cf.path
        PROVE  Latest(args, switches, "-f", k + 1, r.path, DefaultPath)
    BY <1>1, <1>6, <1>8, LatestGrows
  <1>9. ASSUME r.threads = GetInt(nextWord)
        PROVE  LatestCount(args, switches, k + 1, r.threads)
    <2> HIDE DEF nextWord
    <2> QED
      BY <1>7, <1>9 DEF LatestCount
  <1>10. CASE k \in switches /\ args[k] = "-j"
    <2>1. cf.next = "count" /\ nextWord = args[k + 1]
      BY <1>10 DEF ReadSoFar
    <2>2. r.next = "switch" /\ r.threads = GetInt(nextWord) /\ r.path = cf.path
      BY <1>3, <1>4, <1>10, <2>1
    <2>3. k + 1 \notin switches
      BY <1>4, <1>10
    <2> QED
      BY <1>8, <1>9, <1>10, <2>2, <2>3 DEF ReadSoFar
  <1>11. CASE k \in switches /\ args[k] = "-f"
    <2>1. cf.next = "path" /\ nextWord = word
      BY <1>11 DEF ReadSoFar
    <2>2. r.next = "switch" /\ r.threads = GetInt(nextWord) /\ r.path = args[k + 1]
      BY <1>3, <1>5, <2>1
    <2>3. k + 1 \notin switches
      BY <1>4, <1>11
    <2> QED
      BY <1>8, <1>9, <1>11, <2>2, <2>3 DEF ReadSoFar
  <1>12. CASE ~(k \in switches /\ args[k] \in {"-j", "-f"})
    <2>1. cf.next = "switch" /\ nextWord = word
      BY <1>12 DEF ReadSoFar
    <2>2. k + 1 \in switches /\ args[k + 1] \in {"-h", "-j", "-f"}
      BY <1>4, <1>12
    <2>3. args[k + 1] \notin Words
      BY <2>2, WordsAssumption DEF Switches
    <2>4. r.threads = GetInt(nextWord) /\ r.path = cf.path
      BY <1>3, <1>5, <2>1, <2>3
    <2>5. r.next = IF args[k + 1] = "-j" THEN "count" ELSE IF args[k + 1] = "-f" THEN "path" ELSE "switch"
      BY <1>3, <2>1, <2>2, <2>3
    <2> QED
      BY <1>8, <1>9, <1>12, <2>2, <2>4, <2>5 DEF ReadSoFar
  <1> QED
    BY <1>10, <1>11, <1>12

\* A command line that has a reading gives what the reading says.
LEMMA ReadingParses ==
  ASSUME NEW args \in Seq(Args), NEW switches \in SUBSET (1 .. (Len(args) - 1)),
         Reads(args, switches)
  PROVE  /\ Parse(args).next # "error" /\ Parse(args).local = args[Len(args)]
         /\ Parse(args).path = Given(args, switches, "-f", DefaultPath)
         /\ Parse(args).threads = GetInt(Given(args, switches, "-j", "1"))
  <1>1. PICK c : Folded(args, c) /\ FoldLeft(Argument, Defaults, args) = c[Len(args)]
    BY ParseFolds
  <1> DEFINE n == Len(args) - 1
             S == {k \in Nat : k <= n => ReadSoFar(args, switches, c[k], k)}
  <1>2. Len(args) \in Nat /\ Len(args) >= 1 /\ n \in Nat /\ n + 1 = Len(args)
    <2>1. Len(args) \in Nat /\ args # <<>>
      BY DEF Reads
    <2> QED
      BY <2>1
  <1>3. \A k \in 0 .. Len(args) : c[k] \in Configs
    BY <1>1, FoldedTypes
  <1>4. 0 \in S
    <2>1. c[0] = Defaults
      BY <1>1 DEF Folded
    <2>2. /\ 0 \notin switches /\ \A i \in switches : ~(i < 0)
      OBVIOUS
    <2>3. GetInt("1") = 1
      BY WordsAssumption DEF GetInt
    <2>4. Latest(args, switches, "-j", 0, "1", "1")
      BY <2>2 DEF Latest
    <2>5. LatestCount(args, switches, 0, 1)
      BY <2>3, <2>4 DEF LatestCount
    <2> QED
      BY <2>1, <2>2, <2>5 DEF Defaults, ReadSoFar, Latest
  <1>5. ASSUME NEW k \in Nat, k \in S
        PROVE  k + 1 \in S
    <2> SUFFICES ASSUME k + 1 <= n PROVE ReadSoFar(args, switches, c[k + 1], k + 1)
      OBVIOUS
    <2>1. k <= n /\ k \in 0 .. Len(args) /\ k + 1 \in 1 .. Len(args) /\ (k + 1) - 1 = k
      BY <1>2
    <2>2. c[k + 1] = Argument(c[k], args[k + 1])
      BY <1>1, <2>1 DEF Folded
    <2>3. ReadSoFar(args, switches, c[k], k) /\ c[k] \in Configs
      BY <1>3, <1>5, <2>1
    <2> QED
      BY <2>2, <2>3, ReadOn
  <1>6. ReadSoFar(args, switches, c[n], n)
    <2>1. \A k \in Nat : k \in S
      <3> HIDE DEF S
      <3> QED
        BY <1>4, <1>5, Induction
    <2> QED
      BY <1>2, <2>1
  <1> HIDE DEF S
  <1>7. \A i \in switches : args[i] \in {"-j", "-f"} => i < n
    <2>1. \A i \in switches : args[i] \in {"-j", "-f"} => i + 1 \in 1 .. n
      BY DEF Reads, TakingArguments
    <2>2. \A i \in switches : i \in Int
      OBVIOUS
    <2> QED
      BY <1>2, <2>1, <2>2
  <1>8. c[n].next = "switch"
    <2>1. ~(n \in switches /\ args[n] \in {"-j", "-f"})
      BY <1>2, <1>7
    <2> QED
      BY <1>6, <2>1 DEF ReadSoFar
  <1>9. /\ c[Len(args)].next = "nothing" /\ c[Len(args)].local = args[Len(args)]
        /\ c[Len(args)].path = c[n].path /\ c[Len(args)].threads = c[n].threads
    <2>1. c[n] \in Configs /\ args[Len(args)] \in Args
      BY <1>2, <1>3
    <2>2. c[Len(args)] = Argument(c[n], args[Len(args)])
      BY <1>1, <1>2 DEF Folded
    <2>3. args[Len(args)] \in Words
      BY DEF Reads
    <2> QED
      BY <1>8, <2>1, <2>2, <2>3, ArgumentFacts
  <1>10. ASSUME NEW switch \in {"-j", "-f"}, NEW value, NEW default,
                Latest(args, switches, switch, n, value, default)
         PROVE  value = Given(args, switches, switch, default)
    <2>1. n \in Nat /\ switches \in SUBSET (1 .. n)
      BY <1>2
    <2>2. \A i \in switches : args[i] = switch => i < n
      BY <1>7
    <2> HIDE DEF n
    <2> QED
      BY <1>10, <2>1, <2>2, LatestGiven
  <1>11. /\ c[n].path = Given(args, switches, "-f", DefaultPath)
         /\ c[n].threads = GetInt(Given(args, switches, "-j", "1"))
    <2>1. PICK word : Latest(args, switches, "-j", n, word, "1") /\ c[n].threads = GetInt(word)
      BY <1>6 DEF ReadSoFar, LatestCount
    <2>2. Latest(args, switches, "-f", n, c[n].path, DefaultPath)
      BY <1>6 DEF ReadSoFar
    <2> QED
      BY <1>10, <2>1, <2>2
  <1>12. Parse(args) = c[Len(args)]
    BY <1>1, <1>9 DEF Parse
  <1> QED
    BY <1>9, <1>11, <1>12

\* After an error, or behind the local address, nothing but an error can follow.
LEMMA ErrorsStay ==
  ASSUME NEW args \in Seq(Args), NEW c, Folded(args, c),
         NEW k \in Nat, k < Len(args), c[k].next \in {"nothing", "error"}
  PROVE  c[Len(args)].next = "error"
  <1> DEFINE S == {j \in Nat : k + 1 + j <= Len(args) => c[k + 1 + j].next = "error"}
  <1>1. \A j \in Nat : j < Len(args) /\ c[j].next \in {"nothing", "error"} =>
            c[j + 1].next = "error"
    <2> TAKE j \in Nat
    <2> SUFFICES ASSUME j < Len(args), c[j].next \in {"nothing", "error"}
                 PROVE  c[j + 1].next = "error"
      OBVIOUS
    <2>1. j \in 0 .. Len(args) /\ j + 1 \in 1 .. Len(args) /\ (j + 1) - 1 = j
      OBVIOUS
    <2>2. c[j] \in Configs /\ args[j + 1] \in Args
      BY <2>1, FoldedTypes
    <2>3. c[j + 1] = Argument(c[j], args[j + 1])
      BY <2>1 DEF Folded
    <2> QED
      BY <2>2, <2>3, ArgumentFacts
  <1>2. 0 \in S
    BY <1>1
  <1>3. ASSUME NEW j \in Nat, j \in S
        PROVE  j + 1 \in S
    <2> SUFFICES ASSUME k + 1 + (j + 1) <= Len(args)
                 PROVE  c[k + 1 + (j + 1)].next = "error"
      OBVIOUS
    <2>1. k + 1 + j \in Nat /\ k + 1 + j < Len(args) /\ (k + 1 + j) + 1 = k + 1 + (j + 1)
      OBVIOUS
    <2> QED
      BY <1>1, <1>3, <2>1
  <1>4. \A j \in Nat : j \in S
    <2> HIDE DEF S
    <2> QED
      BY <1>2, <1>3, Induction
  <1>5. PICK left \in Nat : k + 1 + left = Len(args)
    <2>1. Len(args) - (k + 1) \in Nat /\ k + 1 + (Len(args) - (k + 1)) = Len(args)
      OBVIOUS
    <2> QED
      BY <2>1
  <1>6. k + 1 + left <= Len(args) => c[k + 1 + left].next = "error"
    BY <1>4
  <1>7. Len(args) <= Len(args)
    OBVIOUS
  <1> QED
    BY <1>5, <1>6, <1>7

\* A command line without an error has a reading: the arguments that were met as switches.
LEMMA ParsedHasReading ==
  ASSUME NEW args \in Seq(Args), NEW c, Folded(args, c), c[Len(args)].next = "nothing"
  PROVE  \E switches \in SUBSET (1 .. (Len(args) - 1)) : Reads(args, switches)
  <1> DEFINE n == Len(args) - 1
             switches == {i \in 1 .. n : c[i - 1].next = "switch"}
  <1>1. /\ Len(args) \in Nat /\ Len(args) >= 1 /\ n \in Nat /\ n + 1 = Len(args) /\ n \in Int
        /\ c[0].next = "switch"
    <2>1. c[0].next = "switch"
      BY DEF Folded, Defaults
    <2>2. Len(args) # 0
      BY <2>1
    <2> QED
      BY <2>1, <2>2
  <1>2. \A k \in 1 .. Len(args) :
            /\ k \in Nat /\ c[k - 1] \in Configs /\ args[k] \in Args /\ k - 1 \in Nat
            /\ c[k] = Argument(c[k - 1], args[k])
    <2> TAKE k \in 1 .. Len(args)
    <2>1. k \in Nat /\ k - 1 \in Nat /\ k - 1 \in 0 .. Len(args)
      BY <1>1
    <2>2. c[k - 1] \in Configs
      BY <2>1, FoldedTypes
    <2> QED
      BY <2>1, <2>2 DEF Folded
  <1>3. \A k \in Nat : k <= n => c[k].next \in {"switch", "count", "path"}
    <2> TAKE k \in Nat
    <2> SUFFICES ASSUME k <= n PROVE c[k].next \in {"switch", "count", "path"}
      OBVIOUS
    <2>1. k < Len(args) /\ k \in 0 .. Len(args)
      BY <1>1
    <2>2. c[k] \in Configs
      BY <2>1, FoldedTypes
    <2>3. c[k].next \notin {"nothing", "error"}
      <3> SUFFICES ASSUME c[k].next \in {"nothing", "error"} PROVE FALSE
        OBVIOUS
      <3>1. c[Len(args)].next = "error"
        BY <2>1, ErrorsStay
      <3> QED
        BY <3>1
    <2> QED
      BY <2>2, <2>3 DEF Configs
  <1>4. \A k \in 1 .. Len(args) :
            /\ c[k - 1].next = "count" =>
                   \/ c[k].next = "error"
                   \/ c[k].next = "switch" /\ GetInt(args[k]) >= 1
            /\ c[k - 1].next = "path" => c[k].next = "switch"
            /\ c[k - 1].next = "switch" /\ args[k] \in Words => c[k].next = "nothing"
            /\ c[k - 1].next = "switch" /\ args[k] \notin Words =>
                   c[k].next = CASE args[k] = "-h" -> "switch" [] args[k] = "-j" -> "count"
                                 [] args[k] = "-f" -> "path" [] OTHER -> "error"
    BY <1>2, ArgumentFacts
  <1>5. ASSUME NEW i \in switches
        PROVE  /\ i \in 1 .. n /\ args[i] \in {"-h", "-j", "-f"}
               /\ c[i].next = IF args[i] = "-j" THEN "count"
                              ELSE IF args[i] = "-f" THEN "path" ELSE "switch"
    <2>1. i \in 1 .. n /\ i \in Nat /\ i <= n /\ i \in 1 .. Len(args) /\ c[i - 1].next = "switch"
      BY <1>1
    <2>2. c[i].next \in {"switch", "count", "path"}
      BY <1>3, <2>1
    <2>3. args[i] \notin Words
      BY <1>4, <2>1, <2>2
    <2>4. c[i].next = CASE args[i] = "-h" -> "switch" [] args[i] = "-j" -> "count"
                        [] args[i] = "-f" -> "path" [] OTHER -> "error"
      BY <1>4, <2>1, <2>3
    <2> QED
      BY <2>1, <2>2, <2>4
  <1>6. /\ c[n].next = "switch" /\ args[Len(args)] \in Words
    <2>1. Len(args) \in 1 .. Len(args) /\ Len(args) - 1 = n
      BY <1>1
    <2>2. c[n].next \in {"switch", "count", "path"}
      BY <1>1, <1>3
    <2>3. c[n].next = "switch"
      BY <1>4, <2>1, <2>2
    <2>4. CASE args[Len(args)] \notin Words
      <3>1. c[Len(args)].next = CASE args[Len(args)] = "-h" -> "switch" [] args[Len(args)] = "-j" -> "count"
                 [] args[Len(args)] = "-f" -> "path" [] OTHER -> "error"
        BY <1>4, <2>1, <2>3, <2>4
      <3> QED
        BY <3>1
    <2> QED
      BY <2>3, <2>4
  <1>7. ASSUME NEW i \in 1 .. n
        PROVE  i - 1 \in switches /\ args[i - 1] \in TakingArguments <=> i \notin switches
    <2>1. i \in Nat /\ i - 1 \in Nat /\ i - 1 <= n /\ i \in 1 .. Len(args)
      BY <1>1
    <2>2. i \notin switches <=> c[i - 1].next # "switch"
      OBVIOUS
    <2>3. ASSUME i - 1 \in switches, args[i - 1] \in TakingArguments
          PROVE  c[i - 1].next # "switch"
      <3> HIDE DEF switches
      <3> QED
        BY <1>5, <2>3 DEF TakingArguments
    <2>4. ASSUME c[i - 1].next # "switch"
          PROVE  i - 1 \in switches /\ args[i - 1] \in TakingArguments
      <3>1. i - 1 # 0 /\ i - 1 \in 1 .. n /\ i - 1 \in 1 .. Len(args) /\ (i - 1) - 1 \in Nat
            /\ (i - 1) - 1 <= n
        BY <1>1, <2>1, <2>4
      <3>2. c[i - 1].next \in {"count", "path"}
        BY <1>3, <2>1, <2>4
      <3>3. c[(i - 1) - 1].next \in {"switch", "count", "path"}
        BY <1>3, <3>1
      <3>4. c[(i - 1) - 1].next = "switch"
        BY <1>4, <3>1, <3>2, <3>3
      <3>5. i - 1 \in switches
        BY <3>1, <3>4
      <3>6. args[i - 1] \in {"-j", "-f"}
        <4> HIDE DEF switches
        <4> QED
          BY <1>5, <3>2, <3>5
      <3> QED
        BY <3>5, <3>6 DEF TakingArguments
    <2> HIDE DEF switches
    <2> QED
      BY <2>2, <2>3, <2>4
  <1> HIDE DEF switches
  <1>8. ASSUME NEW i \in switches, args[i] \in TakingArguments
        PROVE  i + 1 \in 1 .. n /\ (args[i] = "-j" => GetInt(args[i + 1]) >= 1)
    <2>1. i \in 1 .. n /\ i \in Nat /\ c[i].next \in {"count", "path"}
          /\ (args[i] = "-j" => c[i].next = "count")
      BY <1>5, <1>8 DEF TakingArguments
    <2>2. i # n
      BY <1>6, <2>1
    <2>3. i + 1 \in 1 .. n /\ i + 1 \in Nat /\ i + 1 <= n /\ i + 1 \in 1 .. Len(args) /\ (i + 1) - 1 = i
      BY <1>1, <2>1, <2>2
    <2>4. c[i + 1].next # "error"
      <3>1. c[i + 1].next \in {"switch", "count", "path"}
        BY <1>3, <2>3
      <3> QED
        BY <3>1
    <2>5. c[i].next = "count" => c[i + 1].next = "error" \/ GetInt(args[i + 1]) >= 1
      BY <1>4, <2>3
    <2> QED
      BY <2>1, <2>3, <2>4, <2>5
  <1>9. args # <<>> /\ switches \in SUBSET (1 .. n)
    BY <1>1 DEF switches
  <1>10. \A i \in switches : args[i] = "-j" => GetInt(args[i + 1]) >= 1
    BY <1>8 DEF TakingArguments
  <1>11. Reads(args, switches)
    BY <1>5, <1>6, <1>7, <1>8, <1>9, <1>10 DEF Reads
  <1> QED
    BY <1>9, <1>11

\* Every command line is parsed as the usage text has it.
LEMMA ParseAsUsage ==
  ASSUME NEW args \in Seq(Args)
  PROVE  AsUsage(Parse(args), args)
  <1>1. PICK c : Folded(args, c) /\ FoldLeft(Argument, Defaults, args) = c[Len(args)]
    BY ParseFolds
  <1>2. CASE \E switches \in SUBSET (1 .. (Len(args) - 1)) : Reads(args, switches)
    BY <1>2, ReadingParses DEF AsUsage
  <1>3. CASE ~\E switches \in SUBSET (1 .. (Len(args) - 1)) : Reads(args, switches)
    <2>1. c[Len(args)].next # "nothing"
      BY <1>1, <1>3, ParsedHasReading
    <2>2. Parse(args) = Fails(c[Len(args)])
      BY <1>1, <2>1 DEF Parse
    <2>3. c[Len(args)] \in Configs
      <3>1. Len(args) \in 0 .. Len(args)
        OBVIOUS
      <3> QED
        BY <1>1, <3>1, FoldedTypes
    <2>4. Parse(args).next = "error"
      BY <2>2, <2>3 DEF Fails, Configs
    <2> QED
      BY <1>3, <2>4 DEF AsUsage
  <1> QED
    BY <1>2, <1>3
-----------------------------------------------------------------------------
(* The invariant.                                                          *)

Filled == {"short", "header", "nodes", "foreign"}

\* A file that held something when it was first met holds it for ever; another one may
\* come to hold a header, or a part of one when a write of it has failed.
FilesInv ==
    \A f \in Paths :
        /\ original[f] \in Filled => files[f] = original[f] /\ f \notin torn
        /\ original[f] \notin Filled => files[f] \in {"absent", "empty", "short", "header"}
        /\ files[f] = "short" => original[f] = "short" \/ f \in torn

Unread == {"start", "usage", "configured", "created", "failed"}
Opened == {"created", "loaded", "running", "throwing", "rejected", "leaving", "flushed", "cutting",
           "closing", "done"}
Holding == {"running", "leaving", "flushed", "cutting", "closing", "done"}

\* From its start on a process has the configuration of its command line, and does not
\* come far with one that is wrong.
KnowsConfig(p) ==
    /\ stage[p] # "start" => conf[p] = Parse(line[p])
    /\ Parse(line[p]).next = "error" => stage[p] \in {"start", "usage"} /\ changed[p] = {}

\* What a process holds is what it has found, or a header of its own.
HoldsImage(p) ==
    /\ stage[p] \in Unread => image[p] = "empty" /\ pos[p] = 0
    /\ stage[p] \in Opened => files[At(p)] # "absent"
    /\ original[At(p)] \in Filled => image[p] \in {original[At(p)], "empty"}
    /\ original[At(p)] \notin Filled => image[p] \in {"empty", "short", "header"}
    /\ image[p] = "short" => original[At(p)] = "short" \/ At(p) \in torn
    /\ stage[p] = "loaded" /\ image[p] = "empty" => original[At(p)] \notin Filled
    /\ stage[p] \in {"loaded", "flushed"} => pos[p] <= 3
    /\ stage[p] \in Holding => image[p] \in {"short", "header"}
    /\ stage[p] = "cutting" => image[p] = "short"

\* Once it is written, a header stays in the file.
HasSaved(p) ==
    stage[p] \in {"flushed", "cutting", "closing", "done"} /\ image[p] = "header" =>
        files[At(p)] = "header" \/ At(p) \in torn

WrittenByAnother(p) == \E q \in Processes \ {p} : At(p) \in changed[q]

\* A file that was empty when a process read it, and no longer is, was written by another.
RacedOnly(p) ==
    /\ stage[p] = "loaded" /\ image[p] = "empty" =>
           Size[files[At(p)]] = 0 \/ WrittenByAnother(p)
    /\ stage[p] \in {"throwing", "rejected"} =>
           \/ original[At(p)] \notin Ours \/ At(p) \in torn
           \/ image[p] = "empty" /\ WrittenByAnother(p)

ProcessInv(p) == KnowsConfig(p) /\ HoldsImage(p) /\ HasSaved(p) /\ RacedOnly(p)

ConfigsOK ==
    /\ line \in [Processes -> Seq(Args)] /\ original \in [Paths -> DOMAIN Size]
    /\ conf \in [Processes -> Configs]

StateFileInv == StateFileTypeOK /\ ConfigsOK /\ FilesInv /\ \A p \in Processes : ProcessInv(p)
-----------------------------------------------------------------------------
(* What a step may do to the files.                                        *)

LEMMA SizeFacts ==
  /\ DOMAIN Size = {"absent", "empty", "short", "header", "nodes", "foreign"}
  /\ Size["absent"] = 0 /\ Size["empty"] = 0 /\ Size["short"] = 1 /\ Size["header"] = 2
  /\ Size["nodes"] = 3 /\ Size["foreign"] = 3
  BY DEF Size

\* A process changes at most the file it works on, one that held nothing at first: a
\* header is put into it or, if the write fails, a part of one.
StepOn(p) ==
    /\ line' = line /\ original' = original /\ torn \subseteq torn' /\ torn' \subseteq Paths
    /\ files' \in [Paths -> DOMAIN Size]
    /\ changed' \in [Processes -> SUBSET Paths]
    /\ \A q \in Processes : changed[q] \subseteq changed'[q]
    /\ \A f \in Paths :
          /\ f \in torn' => f \in torn \/ files[f] = "empty"
          /\ \/ files'[f] = files[f]
             \/ /\ f = At(p) /\ original[f] \notin Filled /\ f \in changed'[p]
                /\ files'[f] \in {"empty", "short", "header"}
                /\ files'[f] = "short" => f \in torn'
                /\ files[f] = "header" => stage[p] = "cutting" /\ image[p] = "short"

\* The other processes do not move.
OthersRest(p) ==
    \A q \in Processes \ {p} :
        /\ stage'[q] = stage[q] /\ image'[q] = image[q] /\ pos'[q] = pos[q]
        /\ conf'[q] = conf[q] /\ changed'[q] = changed[q]

LEMMA FilesStep ==
  ASSUME FilesInv, NEW p, StepOn(p)
  PROVE  FilesInv'
  <1> SUFFICES ASSUME NEW f \in Paths
               PROVE  /\ original[f] \in Filled => files'[f] = original[f] /\ f \notin torn'
                      /\ original[f] \notin Filled => files'[f] \in {"absent", "empty", "short", "header"}
                      /\ files'[f] = "short" => original[f] = "short" \/ f \in torn'
    <2>1. original' = original
      BY DEF StepOn
    <2> QED
      BY <2>1 DEF FilesInv
  <1>1. /\ original[f] \in Filled => files[f] = original[f] /\ f \notin torn
        /\ original[f] \notin Filled => files[f] \in {"absent", "empty", "short", "header"}
        /\ files[f] = "short" => original[f] = "short" \/ f \in torn
    BY DEF FilesInv
  <1>2. /\ f \in torn => f \in torn'
        /\ f \in torn' => f \in torn \/ files[f] = "empty"
        /\ \/ files'[f] = files[f]
           \/ /\ original[f] \notin Filled /\ files'[f] \in {"empty", "short", "header"}
              /\ files'[f] = "short" => f \in torn'
    BY DEF StepOn
  <1> QED
    BY <1>1, <1>2 DEF Filled

\* What a process that does not move relies on is kept.
LEMMA OthersStep ==
  ASSUME ConfigsOK, FilesInv, NEW p \in Processes, ProcessInv(p), StepOn(p), OthersRest(p),
         NEW q \in Processes, q # p, ProcessInv(q)
  PROVE  ProcessInv(q)'
  <1>1. /\ stage'[q] = stage[q] /\ image'[q] = image[q] /\ pos'[q] = pos[q] /\ conf'[q] = conf[q]
        /\ changed'[q] = changed[q] /\ line' = line /\ original' = original
    BY DEF OthersRest, StepOn
  <1>2. At(q)' = At(q) /\ At(q) \in Paths
    BY <1>1 DEF At, ConfigsOK, Configs
  <1> DEFINE f == At(q)
  <1>3. /\ f \in torn => f \in torn'
        /\ files'[f] = "absent" => files[f] = "absent"
        /\ files[f] = "header" => files'[f] = "header" \/ f \in torn'
        /\ Size[files[f]] = 0 => Size[files'[f]] = 0 \/ f \in changed'[p]
    <2>1. f \in torn => f \in torn'
      BY DEF StepOn
    <2>2. CASE files'[f] = files[f]
      BY <2>1, <2>2
    <2>3. CASE files'[f] # files[f]
      <3>1. /\ f = At(p) /\ original[f] \notin Filled /\ f \in changed'[p]
            /\ files'[f] \in {"empty", "short", "header"}
            /\ files[f] = "header" => stage[p] = "cutting" /\ image[p] = "short"
        BY <1>2, <2>3 DEF StepOn
      <3>2. image[p] = "short" => f \in torn
        BY <3>1 DEF ProcessInv, HoldsImage, Filled
      <3> QED
        BY <2>1, <3>1, <3>2
    <2> QED
      BY <2>2, <2>3
  <1>4. WrittenByAnother(q) => WrittenByAnother(q)'
    BY <1>2 DEF WrittenByAnother, StepOn
  <1>5. f \in changed'[p] => WrittenByAnother(q)'
    BY <1>2 DEF WrittenByAnother
  <1> HIDE DEF f
  <1>6. KnowsConfig(q)'
    BY <1>1 DEF ProcessInv, KnowsConfig
  <1>7. HoldsImage(q)'
    BY <1>1, <1>2, <1>3 DEF ProcessInv, HoldsImage, f
  <1>8. HasSaved(q)'
    BY <1>1, <1>2, <1>3 DEF ProcessInv, HasSaved, f
  <1>9. RacedOnly(q)'
    BY <1>1, <1>2, <1>3, <1>4, <1>5 DEF ProcessInv, RacedOnly, f
  <1> QED
    BY <1>6, <1>7, <1>8, <1>9 DEF ProcessInv

\* An image that is written from the beginning of the file: nothing happens, or it goes
\* over less.
LEMMA OverFacts ==
  ASSUME FilesInv, ConfigsOK, StateFileTypeOK, NEW p \in Processes, HoldsImage(p)
  PROVE  LET f == At(p) IN
         \/ /\ Over(p, 0) = files[f]
            /\ \/ image[p] = "empty"
               \/ image[p] = "short" /\ files[f] = "header"
               \/ image[p] = files[f]
         \/ /\ Over(p, 0) = image[p] /\ original[f] \notin Filled
            /\ files[f] # "header" /\ image[p] \in {"short", "header"}
            /\ image[p] = "short" => f \in torn
  <1> DEFINE f == At(p)
  <1>1. f \in Paths /\ image[p] \in DOMAIN Size /\ files[f] \in DOMAIN Size
    BY DEF At, ConfigsOK, Configs, StateFileTypeOK
  <1>2. /\ original[f] \in Filled => files[f] = original[f]
        /\ original[f] \notin Filled => files[f] \in {"absent", "empty", "short", "header"}
        /\ original[f] \in Filled => image[p] \in {original[f], "empty"}
        /\ original[f] \notin Filled => image[p] \in {"empty", "short", "header"}
        /\ image[p] = "short" => original[f] = "short" \/ f \in torn
    BY <1>1 DEF FilesInv, HoldsImage
  <1>3. Over(p, 0) = IF image[p] = "empty" \/ (image[p] = "short" /\ files[f] = "header")
                     THEN files[f]
                     ELSE IF Size[image[p]] >= Size[files[f]] THEN image[p] ELSE "foreign"
    BY DEF Over
  <1> HIDE DEF f
  <1>4. CASE original[f] \in Filled
    <2>1. image[p] = "empty" \/ image[p] = files[f]
      BY <1>2, <1>4
    <2>2. image[p] = files[f] => Size[image[p]] >= Size[files[f]]
      BY <1>1, SizeFacts
    <2> QED
      BY <1>3, <2>1, <2>2 DEF f
  <1>5. CASE original[f] \notin Filled
    <2>1. CASE image[p] = "empty" \/ (image[p] = "short" /\ files[f] = "header")
      BY <1>3, <2>1 DEF f
    <2>2. CASE ~(image[p] = "empty" \/ (image[p] = "short" /\ files[f] = "header"))
      <3>1. Size[image[p]] >= Size[files[f]] /\ image[p] \in {"short", "header"}
        BY <1>2, <1>5, <2>2, SizeFacts
      <3>2. Over(p, 0) = image[p]
        BY <1>3, <2>2, <3>1
      <3>3. image[p] = "short" => f \in torn
        BY <1>2, <1>5 DEF Filled
      <3>4. files[f] = "header" => image[p] = files[f]
        BY <2>2, <3>1
      <3> QED
        BY <1>5, <3>1, <3>2, <3>3, <3>4 DEF f
    <2> QED
      BY <2>1, <2>2
  <1> QED
    BY <1>4, <1>5

-----------------------------------------------------------------------------
(* Every step keeps the invariant.                                         *)

Stages == {"start", "usage", "configured", "created", "failed", "loaded", "running", "throwing",
           "rejected", "leaving", "flushed", "cutting", "closing", "done", "terminated", "crashed"}

\* The process moves, and the others do not.
Moves(p) ==
    /\ stage' \in [Processes -> Stages] /\ image' \in [Processes -> DOMAIN Size]
    /\ pos' \in [Processes -> 0 .. 6] /\ conf' \in [Processes -> Configs]
    /\ OthersRest(p)

LEMMA StepInv ==
  ASSUME StateFileInv, NEW p \in Processes, StepOn(p), Moves(p), ProcessInv(p)'
  PROVE  StateFileInv'
  <1>1. FilesInv'
    BY FilesStep DEF StateFileInv
  <1>2. \A q \in Processes : ProcessInv(q)'
    <2> TAKE q \in Processes
    <2>1. CASE q = p
      BY <2>1
    <2>2. CASE q # p
      BY <2>2, OthersStep DEF StateFileInv, Moves
    <2> QED
      BY <2>1, <2>2
  <1>3. StateFileTypeOK' /\ ConfigsOK'
    BY DEF StateFileInv, StateFileTypeOK, ConfigsOK, Moves, StepOn, Stages
  <1> QED
    BY <1>1, <1>2, <1>3 DEF StateFileInv

LEMMA QuietStep ==
  ASSUME StateFileInv, NEW p \in Processes, HistoryUnchanged, FilesUnchanged
  PROVE  /\ StepOn(p) /\ files' = files /\ torn' = torn /\ changed' = changed
         /\ line' = line /\ original' = original
  BY DEF StateFileInv, StateFileTypeOK, HistoryUnchanged, FilesUnchanged, StepOn

\* A step of a process that leaves its own configuration and all files alone.
Stays(p, from, to, i, n) ==
    /\ HistoryUnchanged /\ FilesUnchanged /\ conf' = conf /\ Goes(p, from, to)
    /\ image' = [image EXCEPT ![p] = i] /\ pos' = [pos EXCEPT ![p] = n]
    /\ to \in Stages /\ i \in DOMAIN Size /\ n \in 0 .. 6

LEMMA StayingStep ==
  ASSUME StateFileInv, NEW p \in Processes, NEW from, NEW to, NEW i, NEW n,
         Stays(p, from, to, i, n)
  PROVE  /\ StepOn(p) /\ Moves(p) /\ stage[p] = from /\ stage'[p] = to
         /\ image'[p] = i /\ pos'[p] = n /\ At(p)' = At(p) /\ At(p) \in Paths
         /\ files' = files /\ torn' = torn /\ changed' = changed /\ conf' = conf
         /\ line' = line /\ original' = original
         /\ WrittenByAnother(p)' <=> WrittenByAnother(p)
  <1>1. /\ StepOn(p) /\ files' = files /\ torn' = torn /\ changed' = changed
        /\ line' = line /\ original' = original
    BY QuietStep DEF Stays
  <1>2. /\ stage \in [Processes -> Stages] /\ image \in [Processes -> DOMAIN Size]
        /\ pos \in [Processes -> 0 .. 6] /\ conf \in [Processes -> Configs]
    BY DEF StateFileInv, StateFileTypeOK, ConfigsOK, Stages
  <1>3. stage[p] = from /\ stage' = [stage EXCEPT ![p] = to]
    BY DEF Goes, Stays
  <1>4. Moves(p) /\ stage'[p] = to /\ image'[p] = i /\ pos'[p] = n
    BY <1>1, <1>2, <1>3 DEF Moves, OthersRest, Stays
  <1>5. At(p)' = At(p) /\ At(p) \in Paths
    BY <1>2 DEF At, Configs, Stays
  <1> QED
    BY <1>1, <1>3, <1>4, <1>5 DEF WrittenByAnother, Stays

\* The same for an action that leaves the image and the position alone too.
LEMMA RestingFacts ==
  ASSUME StateFileInv, NEW p \in Processes
  PROVE  /\ image = [image EXCEPT ![p] = image[p]] /\ image[p] \in DOMAIN Size
         /\ pos = [pos EXCEPT ![p] = pos[p]] /\ pos[p] \in 0 .. 6
         /\ KnowsConfig(p) /\ HoldsImage(p) /\ HasSaved(p) /\ RacedOnly(p)
         /\ At(p) \in Paths /\ files[At(p)] \in DOMAIN Size /\ line[p] \in Seq(Args)
         /\ Size[files[At(p)]] \in 0 .. 3 /\ Size[image[p]] \in 0 .. 3
  <1>1. /\ image = [image EXCEPT ![p] = image[p]] /\ image[p] \in DOMAIN Size
        /\ pos = [pos EXCEPT ![p] = pos[p]] /\ pos[p] \in 0 .. 6
        /\ At(p) \in Paths /\ files[At(p)] \in DOMAIN Size /\ line[p] \in Seq(Args)
    BY DEF StateFileInv, StateFileTypeOK, ConfigsOK, Configs, At
  <1>2. Size[files[At(p)]] \in 0 .. 3 /\ Size[image[p]] \in 0 .. 3
    BY <1>1, SizeFacts
  <1> QED
    BY <1>1, <1>2 DEF StateFileInv, ProcessInv

LEMMA ConfigureInv ==
  ASSUME StateFileInv, NEW p \in Processes, Configure(p)
  PROVE  StateFileInv' /\ StepOn(p)
  <1>1. /\ StepOn(p) /\ files' = files /\ torn' = torn /\ changed' = changed
        /\ line' = line /\ original' = original
    BY QuietStep DEF Configure
  <1>2. /\ stage \in [Processes -> Stages] /\ image \in [Processes -> DOMAIN Size]
        /\ pos \in [Processes -> 0 .. 6] /\ conf \in [Processes -> Configs]
    BY DEF StateFileInv, StateFileTypeOK, ConfigsOK, Stages
  <1>3. HoldsImage(p) /\ KnowsConfig(p) /\ Parse(line[p]) \in Configs
    BY RestingFacts, ParsePath
  <1>4. /\ stage[p] = "start" /\ image' = image /\ pos' = pos
        /\ conf' = [conf EXCEPT ![p] = Parse(line[p])]
        /\ stage' = [stage EXCEPT ![p] = IF conf'[p].next = "error" THEN "usage" ELSE "configured"]
    BY DEF Configure, Goes
  <1>5. /\ conf'[p] = Parse(line[p])
        /\ stage'[p] = IF Parse(line[p]).next = "error" THEN "usage" ELSE "configured"
    BY <1>2, <1>4
  <1>6. Moves(p)
    BY <1>1, <1>2, <1>3, <1>4 DEF Moves, OthersRest, Stages
  <1>7. KnowsConfig(p)'
    BY <1>1, <1>3, <1>5 DEF KnowsConfig
  <1>8. image[p] = "empty" /\ pos[p] = 0
    BY <1>3, <1>4 DEF HoldsImage, Unread
  <1>9. HoldsImage(p)'
    BY <1>1, <1>4, <1>5, <1>8 DEF HoldsImage, Filled, Opened, Holding
  <1>10. HasSaved(p)' /\ RacedOnly(p)'
    BY <1>5 DEF HasSaved, RacedOnly
  <1> QED
    BY <1>1, <1>6, <1>7, <1>9, <1>10, StepInv DEF ProcessInv

LEMMA OpenFailsInv ==
  ASSUME StateFileInv, NEW p \in Processes, OpenFails(p)
  PROVE  StateFileInv' /\ StepOn(p)
  <1>1. KnowsConfig(p) /\ HoldsImage(p)
    BY RestingFacts
  <1>2. image' = [image EXCEPT ![p] = image[p]] /\ pos' = [pos EXCEPT ![p] = pos[p]]
    BY RestingFacts DEF OpenFails
  <1>3. /\ StepOn(p) /\ Moves(p) /\ stage[p] = "configured" /\ stage'[p] = "failed"
        /\ image'[p] = image[p] /\ pos'[p] = pos[p] /\ At(p)' = At(p)
        /\ files' = files /\ torn' = torn /\ changed' = changed /\ conf' = conf
        /\ line' = line /\ original' = original
    <2>1. image[p] \in DOMAIN Size /\ pos[p] \in 0 .. 6
      BY RestingFacts
    <2>2. Stays(p, "configured", "failed", image[p], pos[p])
      BY <1>2, <2>1 DEF OpenFails, Stays, Stages
    <2> QED
      BY <2>2, StayingStep
  <1>4. KnowsConfig(p)' /\ HoldsImage(p)'
    BY <1>1, <1>3 DEF KnowsConfig, HoldsImage, Unread, Opened, Holding
  <1>5. HasSaved(p)' /\ RacedOnly(p)'
    BY <1>3 DEF HasSaved, RacedOnly
  <1> QED
    BY <1>3, <1>4, <1>5, StepInv DEF ProcessInv

LEMMA LoadInv ==
  ASSUME StateFileInv, NEW p \in Processes, Load(p)
  PROVE  StateFileInv' /\ StepOn(p)
  <1>1. KnowsConfig(p) /\ HoldsImage(p) /\ FilesInv
    BY RestingFacts DEF StateFileInv
  <1> DEFINE v == files[At(p)]
             n == IF Size[v] = 0 THEN AfterSizing(p) ELSE Size[v]
  <1>2. /\ stage[p] = "created" /\ pos[p] = 0 /\ v # "absent" /\ v \in DOMAIN Size
        /\ Size[v] \in 0 .. 3
    BY <1>1, RestingFacts DEF Load, Goes, HoldsImage, Unread, Opened
  <1>3. n \in 0 .. 6 /\ n <= 3
    BY <1>2 DEF AfterSizing
  <1>4. image' = [image EXCEPT ![p] = v] /\ pos' = [pos EXCEPT ![p] = n]
    BY DEF Load
  <1> HIDE DEF n, v
  <1>5. /\ StepOn(p) /\ Moves(p) /\ stage'[p] = "loaded"
        /\ image'[p] = v /\ pos'[p] = n /\ At(p)' = At(p) /\ At(p) \in Paths
        /\ files' = files /\ torn' = torn /\ changed' = changed /\ conf' = conf
        /\ line' = line /\ original' = original
    <2>1. Stays(p, "created", "loaded", v, n)
      BY <1>2, <1>3, <1>4 DEF Load, Stays, Stages
    <2> QED
      BY <1>2, <2>1, StayingStep
  <1>6. KnowsConfig(p)'
    BY <1>1, <1>2, <1>5 DEF KnowsConfig
  <1>7. HoldsImage(p)'
    <2>1. /\ original[At(p)] \in Filled => v = original[At(p)]
          /\ original[At(p)] \notin Filled => v \in {"absent", "empty", "short", "header"}
          /\ v = "short" => original[At(p)] = "short" \/ At(p) \in torn
      BY <1>1, <1>5 DEF FilesInv, v
    <2> QED
      BY <1>2, <1>3, <1>5, <2>1 DEF HoldsImage, Unread, Opened, Holding, Filled, v
  <1>8. HasSaved(p)' /\ RacedOnly(p)'
    BY <1>2, <1>5, SizeFacts DEF HasSaved, RacedOnly, v
  <1> QED
    BY <1>5, <1>6, <1>7, <1>8, StepInv DEF ProcessInv

LEMMA BeginInv ==
  ASSUME StateFileInv, NEW p \in Processes, Begin(p)
  PROVE  StateFileInv' /\ StepOn(p)
  <1>1. KnowsConfig(p) /\ HoldsImage(p) /\ FilesInv
    BY RestingFacts DEF StateFileInv
  <1> DEFINE n == AfterSizing(p)
  <1>2. /\ stage[p] = "loaded" /\ pos[p] \in 0 .. 6 /\ files[At(p)] \in DOMAIN Size
        /\ Size[files[At(p)]] = 0 /\ pos[p] <= 3 /\ At(p) \in Paths
    BY <1>1, RestingFacts DEF Begin, Goes, HoldsImage
  <1>3. n \in 0 .. 6
    BY <1>2 DEF AfterSizing
  <1>4. image' = [image EXCEPT ![p] = "header"] /\ pos' = [pos EXCEPT ![p] = n]
    BY DEF Begin
  <1> HIDE DEF n
  <1>5. /\ StepOn(p) /\ Moves(p) /\ stage'[p] = "running"
        /\ image'[p] = "header" /\ pos'[p] = n /\ At(p)' = At(p)
        /\ files' = files /\ torn' = torn /\ changed' = changed /\ conf' = conf
        /\ line' = line /\ original' = original
    <2>1. Stays(p, "loaded", "running", "header", n)
      BY <1>3, <1>4, SizeFacts DEF Begin, Stays, Stages
    <2> QED
      BY <2>1, StayingStep
  <1>6. KnowsConfig(p)'
    BY <1>1, <1>2, <1>5 DEF KnowsConfig
  <1>7. original[At(p)] \notin Filled
    <2>1. files[At(p)] \in {"absent", "empty"}
      BY <1>2, SizeFacts
    <2> QED
      BY <1>1, <1>2, <2>1 DEF FilesInv, Filled
  <1>8. HoldsImage(p)'
    BY <1>1, <1>2, <1>5, <1>7 DEF HoldsImage, Unread, Opened, Holding
  <1>9. HasSaved(p)' /\ RacedOnly(p)'
    BY <1>5 DEF HasSaved, RacedOnly
  <1> QED
    BY <1>5, <1>6, <1>8, <1>9, StepInv DEF ProcessInv

LEMMA VerifyInv ==
  ASSUME StateFileInv, NEW p \in Processes, Verify(p)
  PROVE  StateFileInv' /\ StepOn(p)
  <1>1. KnowsConfig(p) /\ HoldsImage(p) /\ RacedOnly(p)
    BY RestingFacts
  <1> DEFINE n == AfterSizing(p)
  <1>2. /\ stage[p] = "loaded" /\ pos[p] \in 0 .. 6 /\ image[p] \in DOMAIN Size
        /\ Size[files[At(p)]] \in 0 .. 3 /\ Size[files[At(p)]] # 0 /\ pos[p] <= 3
    BY <1>1, RestingFacts DEF Verify, Goes, HoldsImage
  <1>3. n \in 0 .. 6
    BY <1>2 DEF AfterSizing
  <1>4. PICK to \in Verified(p) : Goes(p, "loaded", to)
    BY DEF Verify
  <1>5. /\ to \in {"running", "throwing", "crashed"}
        /\ to = "running" => image[p] \in {"short", "header"}
        /\ to = "throwing" => image[p] \notin {"header", "nodes"}
    BY <1>2, <1>4, SizeFacts DEF Verified, NodesWalked
  <1>6. image' = [image EXCEPT ![p] = image[p]] /\ pos' = [pos EXCEPT ![p] = n]
    BY RestingFacts DEF Verify
  <1> HIDE DEF n
  <1>7. /\ StepOn(p) /\ Moves(p) /\ stage'[p] = to
        /\ image'[p] = image[p] /\ pos'[p] = n /\ At(p)' = At(p) /\ At(p) \in Paths
        /\ files' = files /\ torn' = torn /\ changed' = changed /\ conf' = conf
        /\ line' = line /\ original' = original
        /\ WrittenByAnother(p)' <=> WrittenByAnother(p)
    <2>1. Stays(p, "loaded", to, image[p], n)
      BY <1>2, <1>3, <1>4, <1>5, <1>6 DEF Verify, Stays, Stages
    <2> QED
      BY <2>1, StayingStep
  <1>8. KnowsConfig(p)'
    BY <1>1, <1>2, <1>5, <1>7 DEF KnowsConfig
  <1>9. HoldsImage(p)'
    BY <1>1, <1>2, <1>5, <1>7 DEF HoldsImage, Unread, Opened, Holding
  <1>10. HasSaved(p)'
    BY <1>5, <1>7 DEF HasSaved
  <1>11. RacedOnly(p)'
    <2>1. SUFFICES ASSUME to = "throwing"
                   PROVE  \/ original[At(p)] \notin Ours \/ At(p) \in torn
                          \/ image[p] = "empty" /\ WrittenByAnother(p)
      BY <1>5, <1>7 DEF RacedOnly
    <2>2. CASE image[p] = "empty"
      BY <1>1, <1>2, <2>2 DEF RacedOnly
    <2>3. CASE image[p] # "empty"
      <3>1. image[p] \notin {"header", "nodes", "empty"}
        BY <1>5, <2>1, <2>3
      <3>2. original[At(p)] \in Filled => original[At(p)] \notin Ours
        BY <1>1, <3>1 DEF HoldsImage, Filled, Ours
      <3>3. original[At(p)] \notin Filled => At(p) \in torn
        BY <1>1, <3>1 DEF HoldsImage, Filled
      <3> QED
        BY <3>2, <3>3
    <2> QED
      BY <2>2, <2>3
  <1> QED
    BY <1>7, <1>8, <1>9, <1>10, <1>11, StepInv DEF ProcessInv

LEMMA MeasureInv ==
  ASSUME StateFileInv, NEW p \in Processes, Measure(p)
  PROVE  StateFileInv' /\ StepOn(p)
  <1>1. KnowsConfig(p) /\ HoldsImage(p) /\ HasSaved(p) /\ FilesInv
    BY RestingFacts DEF StateFileInv
  <1> DEFINE n == AfterSizing(p)
             to == IF Size[image[p]] < Size[files[At(p)]] THEN "cutting" ELSE "closing"
  <1>2. /\ stage[p] = "flushed" /\ pos[p] \in 0 .. 6 /\ At(p) \in Paths
        /\ Size[files[At(p)]] \in 0 .. 3 /\ pos[p] <= 3 /\ image[p] \in {"short", "header"}
    BY <1>1, RestingFacts DEF Measure, Goes, HoldsImage, Holding
  <1>3. n \in 0 .. 6
    BY <1>2 DEF AfterSizing
  <1>4. /\ image' = [image EXCEPT ![p] = image[p]] /\ pos' = [pos EXCEPT ![p] = n]
        /\ image[p] \in DOMAIN Size
    BY RestingFacts DEF Measure
  <1>5. to = "cutting" => image[p] = "short"
    <2>1. ASSUME image[p] = "header" PROVE ~(Size[image[p]] < Size[files[At(p)]])
      <3>1. files[At(p)] = "header" \/ At(p) \in torn
        BY <1>1, <1>2, <2>1 DEF HasSaved
      <3>2. At(p) \in torn => files[At(p)] \in {"absent", "empty", "short", "header"}
        BY <1>1, <1>2 DEF FilesInv
      <3> QED
        BY <2>1, <3>1, <3>2, SizeFacts
    <2> QED
      BY <1>2, <2>1
  <1>6. Goes(p, "flushed", to)
    BY DEF Measure
  <1>7. to \in {"cutting", "closing"}
    OBVIOUS
  <1> HIDE DEF n, to
  <1>8. /\ StepOn(p) /\ Moves(p) /\ stage'[p] = to
        /\ image'[p] = image[p] /\ pos'[p] = n /\ At(p)' = At(p) /\ At(p) \in Paths
        /\ files' = files /\ torn' = torn /\ changed' = changed /\ conf' = conf
        /\ line' = line /\ original' = original
    <2>1. Stays(p, "flushed", to, image[p], n)
      BY <1>3, <1>4, <1>6, <1>7 DEF Measure, Stays, Stages
    <2> QED
      BY <2>1, StayingStep
  <1>9. KnowsConfig(p)'
    BY <1>1, <1>2, <1>8 DEF KnowsConfig
  <1>10. HoldsImage(p)'
    BY <1>1, <1>2, <1>5, <1>7, <1>8 DEF HoldsImage, Unread, Opened, Holding
  <1>11. HasSaved(p)' /\ RacedOnly(p)'
    BY <1>1, <1>2, <1>7, <1>8 DEF HasSaved, RacedOnly
  <1> QED
    BY <1>8, <1>9, <1>10, <1>11, StepInv DEF ProcessInv

\* Leave, Kill, Restart, and the Truncate that cannot open the path: only the stage
\* changes, or the process forgets its image.
LEMMA GoesInv ==
  ASSUME StateFileInv, NEW p \in Processes, HistoryUnchanged, FilesUnchanged, conf' = conf,
         NEW from \in {"configured", "created", "loaded", "running", "leaving", "flushed",
                         "cutting", "closing", "throwing"},
         NEW to, Goes(p, from, to),
         to \in {"crashed", "terminated"} \/ (from = "running" /\ to = "leaving"),
         image' = image, pos' = pos
  PROVE  StateFileInv' /\ StepOn(p)
  <1>1. KnowsConfig(p) /\ HoldsImage(p)
    BY RestingFacts
  <1>2. /\ image' = [image EXCEPT ![p] = image[p]] /\ pos' = [pos EXCEPT ![p] = pos[p]]
        /\ image[p] \in DOMAIN Size /\ pos[p] \in 0 .. 6 /\ to \in Stages
    BY RestingFacts DEF Stages
  <1>3. /\ StepOn(p) /\ Moves(p) /\ stage[p] = from /\ stage'[p] = to
        /\ image'[p] = image[p] /\ pos'[p] = pos[p] /\ At(p)' = At(p)
        /\ files' = files /\ torn' = torn /\ changed' = changed /\ conf' = conf
        /\ line' = line /\ original' = original
    <2>1. Stays(p, from, to, image[p], pos[p])
      BY <1>2 DEF Stays
    <2> QED
      BY <2>1, StayingStep
  <1>4. KnowsConfig(p)' /\ HoldsImage(p)'
    BY <1>1, <1>3 DEF KnowsConfig, HoldsImage, Unread, Opened, Holding
  <1>5. HasSaved(p)' /\ RacedOnly(p)'
    BY <1>3 DEF HasSaved, RacedOnly
  <1> QED
    BY <1>3, <1>4, <1>5, StepInv DEF ProcessInv

LEMMA RestartInv ==
  ASSUME StateFileInv, NEW p \in Processes, Restart(p)
  PROVE  StateFileInv' /\ StepOn(p)
  <1>1. KnowsConfig(p) /\ HoldsImage(p)
    BY RestingFacts
  <1>2. PICK from \in {"crashed", "terminated"} : Goes(p, from, "start")
    BY DEF Restart
  <1>3. /\ image' = [image EXCEPT ![p] = "empty"] /\ pos' = [pos EXCEPT ![p] = 0]
        /\ HistoryUnchanged /\ FilesUnchanged /\ conf' = conf
        /\ "empty" \in DOMAIN Size /\ 0 \in 0 .. 6 /\ "start" \in Stages
    BY SizeFacts DEF Restart, Stages
  <1>4. /\ StepOn(p) /\ Moves(p) /\ stage[p] = from /\ stage'[p] = "start"
        /\ image'[p] = "empty" /\ pos'[p] = 0 /\ At(p)' = At(p)
        /\ files' = files /\ torn' = torn /\ changed' = changed /\ conf' = conf
        /\ line' = line /\ original' = original
    <2>1. Stays(p, from, "start", "empty", 0)
      BY <1>2, <1>3 DEF Stays
    <2> QED
      BY <1>2, <2>1, StayingStep
  <1>5. KnowsConfig(p)' /\ HoldsImage(p)'
    BY <1>1, <1>4 DEF KnowsConfig, HoldsImage, Unread, Opened, Holding, Filled
  <1>6. HasSaved(p)' /\ RacedOnly(p)'
    BY <1>4 DEF HasSaved, RacedOnly
  <1> QED
    BY <1>4, <1>5, <1>6, StepInv DEF ProcessInv

-----------------------------------------------------------------------------
(* The steps that change a file.                                           *)

\* What all of them have in common: v is put into the file.
Writes(p, v, from, to, n) ==
    /\ HistoryUnchanged /\ Touched(p) /\ conf' = conf /\ image' = image /\ Goes(p, from, to)
    /\ files' = [files EXCEPT ![At(p)] = v] /\ pos' = [pos EXCEPT ![p] = n]
    /\ torn' = torn \/ (torn' = torn \cup {At(p)} /\ files[At(p)] = "empty")
    /\ \/ v = files[At(p)]
       \/ /\ original[At(p)] \notin Filled /\ v \in {"empty", "short", "header"}
          /\ v = "short" => At(p) \in torn'
          /\ files[At(p)] = "header" => stage[p] = "cutting" /\ image[p] = "short"
    /\ to \in Stages /\ v \in DOMAIN Size /\ n \in 0 .. 6

LEMMA WritingStep ==
  ASSUME StateFileInv, NEW p \in Processes, NEW v, NEW from, NEW to, NEW n,
         Writes(p, v, from, to, n)
  PROVE  /\ StepOn(p) /\ Moves(p) /\ stage[p] = from /\ stage'[p] = to
         /\ image'[p] = image[p] /\ pos'[p] = n /\ At(p)' = At(p) /\ At(p) \in Paths
         /\ files'[At(p)] = v /\ torn \subseteq torn' /\ conf' = conf
         /\ line' = line /\ original' = original
         /\ WrittenByAnother(p) => WrittenByAnother(p)'
  <1>1. /\ stage \in [Processes -> Stages] /\ image \in [Processes -> DOMAIN Size]
        /\ pos \in [Processes -> 0 .. 6] /\ conf \in [Processes -> Configs]
        /\ files \in [Paths -> DOMAIN Size] /\ torn \subseteq Paths
        /\ changed \in [Processes -> SUBSET Paths] /\ At(p) \in Paths
    BY RestingFacts DEF StateFileInv, StateFileTypeOK, ConfigsOK, Stages
  <1>2. stage[p] = from /\ stage' = [stage EXCEPT ![p] = to] /\ stage'[p] = to
    BY <1>1 DEF Goes, Writes
  <1>3. changed' = [changed EXCEPT ![p] = @ \cup {At(p)}]
    BY DEF Touched, Writes
  <1>4. line' = line /\ original' = original
    BY DEF HistoryUnchanged, Writes
  <1>5. files'[At(p)] = v /\ \A f \in Paths : f # At(p) => files'[f] = files[f]
    BY <1>1 DEF Writes
  <1>6. \A f \in Paths : f \in torn' => f \in torn \/ files[f] = "empty"
    BY <1>1 DEF Writes
  <1>7. /\ changed' \in [Processes -> SUBSET Paths] /\ At(p) \in changed'[p]
        /\ \A q \in Processes : changed[q] \subseteq changed'[q]
        /\ \A q \in Processes \ {p} : changed'[q] = changed[q]
    BY <1>1, <1>3
  <1>8. torn \subseteq torn' /\ torn' \subseteq Paths
    BY <1>1 DEF Writes
  <1>9. files' \in [Paths -> DOMAIN Size]
    BY <1>1 DEF Writes
  <1>10. StepOn(p)
    BY <1>4, <1>5, <1>6, <1>7, <1>8, <1>9 DEF StepOn, Writes
  <1>11. Moves(p) /\ image'[p] = image[p] /\ pos'[p] = n
    BY <1>1, <1>2, <1>7 DEF Moves, OthersRest, Writes
  <1>12. At(p)' = At(p)
    BY DEF At, Writes
  <1>13. WrittenByAnother(p) => WrittenByAnother(p)'
    BY <1>7, <1>12 DEF WrittenByAnother
  <1> QED
    BY <1>1, <1>2, <1>4, <1>5, <1>8, <1>10, <1>11, <1>12, <1>13 DEF Writes

LEMMA CreateInv ==
  ASSUME StateFileInv, NEW p \in Processes, Create(p)
  PROVE  StateFileInv' /\ StepOn(p)
  <1>1. KnowsConfig(p) /\ HoldsImage(p) /\ FilesInv
    BY RestingFacts DEF StateFileInv
  <1>2. /\ HistoryUnchanged /\ conf' = conf /\ image' = image /\ torn' = torn /\ pos' = pos
        /\ Goes(p, "configured", "created") /\ "created" \in Stages
        /\ "empty" \in DOMAIN Size /\ stage[p] = "configured"
        /\ IF files[At(p)] = "absent"
           THEN files' = [files EXCEPT ![At(p)] = "empty"] /\ Touched(p)
           ELSE files' = files /\ changed' = changed
    BY SizeFacts DEF Create, Stages, Goes
  <1>3. /\ image' = [image EXCEPT ![p] = image[p]] /\ pos' = [pos EXCEPT ![p] = pos[p]]
        /\ image[p] \in DOMAIN Size /\ pos[p] \in 0 .. 6
    BY <1>2, RestingFacts
  <1>4. /\ StepOn(p) /\ Moves(p) /\ stage'[p] = "created"
        /\ image'[p] = image[p] /\ pos'[p] = pos[p] /\ At(p)' = At(p)
        /\ files'[At(p)] # "absent" /\ torn \subseteq torn' /\ conf' = conf
        /\ line' = line /\ original' = original
    <2>1. CASE files[At(p)] = "absent"
      <3>1. original[At(p)] \notin Filled
        BY <1>1, <2>1, RestingFacts DEF FilesInv, Filled
      <3>2. Writes(p, "empty", "configured", "created", pos[p])
        BY <1>2, <1>3, <2>1, <3>1 DEF Writes
      <3> QED
        BY <3>2, WritingStep
    <2>2. CASE files[At(p)] # "absent"
      <3>1. FilesUnchanged
        BY <1>2, <2>2 DEF FilesUnchanged
      <3>2. Stays(p, "configured", "created", image[p], pos[p])
        BY <1>2, <1>3, <3>1 DEF Stays
      <3> QED
        BY <1>2, <2>2, <3>2, StayingStep
    <2> QED
      BY <2>1, <2>2
  <1>5. KnowsConfig(p)' /\ HoldsImage(p)'
    BY <1>1, <1>2, <1>4 DEF KnowsConfig, HoldsImage, Unread, Opened, Holding
  <1>6. HasSaved(p)' /\ RacedOnly(p)'
    BY <1>4 DEF HasSaved, RacedOnly
  <1> QED
    BY <1>4, <1>5, <1>6, StepInv DEF ProcessInv

LEMMA FlushInv ==
  ASSUME StateFileInv, NEW p \in Processes, NEW from, NEW to, Flush(p, from, to),
         <<from, to>> \in {<<"throwing", "rejected">>, <<"leaving", "flushed">>, <<"closing", "done">>}
  PROVE  StateFileInv' /\ StepOn(p)
  <1>1. KnowsConfig(p) /\ HoldsImage(p) /\ RacedOnly(p) /\ HasSaved(p) /\ FilesInv
    BY RestingFacts DEF StateFileInv
  <1>2. \/ from = "throwing" /\ to = "rejected"
        \/ from = "leaving" /\ to = "flushed"
        \/ from = "closing" /\ to = "done"
    OBVIOUS
  <1> DEFINE v == Over(p, 0)
             n == Size[image[p]]
  <1>3. /\ HistoryUnchanged /\ conf' = conf /\ image' = image /\ torn' = torn /\ Touched(p)
        /\ files' = [files EXCEPT ![At(p)] = v] /\ pos' = [pos EXCEPT ![p] = n]
        /\ Goes(p, from, to) /\ stage[p] = from
    BY DEF Flush, Goes
  <1>4. to \in Stages
    BY <1>2 DEF Stages
  <1>5. n \in 0 .. 6 /\ n <= 3 /\ At(p) \in Paths /\ image[p] \in DOMAIN Size
        /\ files[At(p)] \in DOMAIN Size
    BY RestingFacts
  <1>6. \/ /\ v = files[At(p)]
           /\ \/ image[p] = "empty"
              \/ image[p] = "short" /\ files[At(p)] = "header"
              \/ image[p] = files[At(p)]
        \/ /\ v = image[p] /\ original[At(p)] \notin Filled
           /\ files[At(p)] # "header" /\ image[p] \in {"short", "header"}
           /\ image[p] = "short" => At(p) \in torn
    BY <1>1, OverFacts DEF StateFileInv
  <1>7. v \in DOMAIN Size
    BY <1>5, <1>6
  <1> HIDE DEF v, n
  <1>8. /\ StepOn(p) /\ Moves(p) /\ stage'[p] = to
        /\ image'[p] = image[p] /\ pos'[p] = n /\ At(p)' = At(p)
        /\ files'[At(p)] = v /\ torn \subseteq torn' /\ conf' = conf
        /\ line' = line /\ original' = original
        /\ WrittenByAnother(p) => WrittenByAnother(p)'
    <2>1. \/ v = files[At(p)]
          \/ /\ original[At(p)] \notin Filled /\ v \in {"empty", "short", "header"}
             /\ v = "short" => At(p) \in torn'
             /\ files[At(p)] = "header" => stage[p] = "cutting" /\ image[p] = "short"
      BY <1>3, <1>6
    <2>2. Writes(p, v, from, to, n)
      BY <1>3, <1>4, <1>5, <1>7, <2>1 DEF Writes
    <2> QED
      BY <2>2, WritingStep
  <1>9. files[At(p)] # "absent" => v # "absent"
    BY <1>6
  <1>10. image[p] = "header" => v = "header"
    BY <1>6
  <1>11. KnowsConfig(p)'
    <2>1. Parse(line[p]).next # "error"
      BY <1>1, <1>2, <1>3 DEF KnowsConfig
    <2> QED
      BY <1>1, <1>2, <1>3, <1>8, <2>1 DEF KnowsConfig
  <1>12. HoldsImage(p)'
    <2>1. files[At(p)] # "absent"
      BY <1>1, <1>2, <1>3 DEF HoldsImage, Opened
    <2>2. to \in Holding => image[p] \in {"short", "header"}
      BY <1>1, <1>2, <1>3 DEF HoldsImage, Holding
    <2>3. /\ original[At(p)] \in Filled => image[p] \in {original[At(p)], "empty"}
          /\ original[At(p)] \notin Filled => image[p] \in {"empty", "short", "header"}
          /\ image[p] = "short" => original[At(p)] = "short" \/ At(p) \in torn'
      BY <1>1, <1>8 DEF HoldsImage
    <2>4. to \notin Unread /\ to # "loaded" /\ to # "cutting"
      BY <1>2 DEF Unread
    <2> QED
      BY <1>5, <1>8, <1>9, <2>1, <2>2, <2>3, <2>4 DEF HoldsImage
  <1>13. HasSaved(p)'
    BY <1>8, <1>10 DEF HasSaved
  <1>14. RacedOnly(p)'
    BY <1>1, <1>2, <1>3, <1>8 DEF RacedOnly
  <1> QED
    BY <1>8, <1>11, <1>12, <1>13, <1>14, StepInv DEF ProcessInv

LEMMA FlushFailsInv ==
  ASSUME StateFileInv, NEW p \in Processes, NEW from \in {"leaving", "throwing", "closing"},
         FlushFails(p, from)
  PROVE  StateFileInv' /\ StepOn(p)
  <1>1. KnowsConfig(p) /\ HoldsImage(p) /\ FilesInv
    BY RestingFacts DEF StateFileInv
  <1>2. /\ HistoryUnchanged /\ conf' = conf /\ image' = image /\ pos' = pos /\ Touched(p)
        /\ Goes(p, from, "terminated") /\ "terminated" \in Stages /\ stage[p] = from
        /\ files[At(p)] = "empty" /\ torn' = torn \cup {At(p)}
        /\ files' = files \/ files' = [files EXCEPT ![At(p)] = "short"]
        /\ {"empty", "short"} \subseteq DOMAIN Size
    BY SizeFacts DEF FlushFails, Goes, Stages
  <1>3. /\ pos' = [pos EXCEPT ![p] = pos[p]] /\ pos[p] \in 0 .. 6 /\ image[p] \in DOMAIN Size
        /\ files = [files EXCEPT ![At(p)] = "empty"]
    BY <1>2, RestingFacts DEF StateFileInv, StateFileTypeOK
  <1>4. original[At(p)] \notin Filled
    BY <1>1, <1>2, RestingFacts DEF FilesInv, Filled
  <1>5. PICK v \in {"empty", "short"} : files' = [files EXCEPT ![At(p)] = v]
    BY <1>2, <1>3
  <1>6. /\ StepOn(p) /\ Moves(p) /\ stage'[p] = "terminated"
        /\ image'[p] = image[p] /\ pos'[p] = pos[p] /\ At(p)' = At(p)
        /\ torn \subseteq torn' /\ conf' = conf /\ line' = line /\ original' = original
    <2>1. Writes(p, v, from, "terminated", pos[p])
      BY <1>2, <1>3, <1>4, <1>5 DEF Writes
    <2> QED
      BY <2>1, WritingStep
  <1>7. KnowsConfig(p)' /\ HoldsImage(p)'
    BY <1>1, <1>2, <1>6 DEF KnowsConfig, HoldsImage, Unread, Opened, Holding
  <1>8. HasSaved(p)' /\ RacedOnly(p)'
    BY <1>6 DEF HasSaved, RacedOnly
  <1> QED
    BY <1>6, <1>7, <1>8, StepInv DEF ProcessInv

LEMMA CutInv ==
  ASSUME StateFileInv, NEW p \in Processes, HistoryUnchanged, conf' = conf, image' = image,
         pos' = pos, torn' = torn, Goes(p, "cutting", "closing"), Touched(p),
         files' = [files EXCEPT ![At(p)] = image[p]]
  PROVE  StateFileInv' /\ StepOn(p)
  <1>1. KnowsConfig(p) /\ HoldsImage(p) /\ FilesInv
    BY RestingFacts DEF StateFileInv
  <1>2. stage[p] = "cutting" /\ image[p] = "short" /\ "closing" \in Stages
    BY <1>1 DEF Goes, HoldsImage, Stages
  <1>3. /\ pos' = [pos EXCEPT ![p] = pos[p]] /\ pos[p] \in 0 .. 6 /\ image[p] \in DOMAIN Size
        /\ At(p) \in Paths
    BY RestingFacts
  <1>4. \/ image[p] = files[At(p)]
        \/ /\ original[At(p)] \notin Filled /\ image[p] \in {"empty", "short", "header"}
           /\ image[p] = "short" => At(p) \in torn'
           /\ files[At(p)] = "header" => stage[p] = "cutting" /\ image[p] = "short"
    <2>1. original[At(p)] \in Filled => files[At(p)] = original[At(p)]
      BY <1>1, <1>3 DEF FilesInv
    <2> QED
      BY <1>1, <1>2, <2>1 DEF HoldsImage, Filled
  <1>5. /\ StepOn(p) /\ Moves(p) /\ stage'[p] = "closing"
        /\ image'[p] = image[p] /\ pos'[p] = pos[p] /\ At(p)' = At(p)
        /\ files'[At(p)] = image[p] /\ torn \subseteq torn' /\ conf' = conf
        /\ line' = line /\ original' = original
    <2>1. Writes(p, image[p], "cutting", "closing", pos[p])
      BY <1>2, <1>3, <1>4 DEF Writes
    <2> QED
      BY <1>2, <2>1, WritingStep
  <1>6. KnowsConfig(p)' /\ HoldsImage(p)'
    BY <1>1, <1>2, <1>5 DEF KnowsConfig, HoldsImage, Unread, Opened, Holding
  <1>7. HasSaved(p)' /\ RacedOnly(p)'
    BY <1>2, <1>5 DEF HasSaved, RacedOnly
  <1> QED
    BY <1>5, <1>6, <1>7, StepInv DEF ProcessInv

-----------------------------------------------------------------------------
(* The specification.                                                      *)

LEMMA InitInv == Init => StateFileInv
  <1> SUFFICES ASSUME Init PROVE StateFileInv
    OBVIOUS
  <1>1. /\ line \in [Processes -> Seq(Args)]
        /\ conf = [p \in Processes |-> Defaults] /\ stage = [p \in Processes |-> "start"]
        /\ image = [p \in Processes |-> "empty"] /\ pos = [p \in Processes |-> 0]
        /\ torn = {} /\ changed = [p \in Processes |-> {}] /\ original = files
    BY StartsAssumption DEF Init
  <1>2. Defaults \in Configs
    BY DEF Configs, Defaults, Paths
  <1>3. files \in [Paths -> DOMAIN Size]
    BY ContentsAssumption, SizeFacts DEF Init
  <1>4. StateFileTypeOK /\ ConfigsOK
    BY <1>1, <1>2, <1>3, SizeFacts DEF StateFileTypeOK, ConfigsOK
  <1>5. FilesInv
    BY <1>1, <1>3, SizeFacts DEF FilesInv, Filled
  <1>6. ASSUME NEW p \in Processes PROVE ProcessInv(p)
    <2>1. stage[p] = "start" /\ image[p] = "empty" /\ pos[p] = 0 /\ changed[p] = {}
      BY <1>1
    <2> QED
      BY <2>1 DEF ProcessInv, KnowsConfig, HoldsImage, HasSaved, RacedOnly, Unread, Opened,
                  Holding, Filled
  <1> QED
    BY <1>4, <1>5, <1>6 DEF StateFileInv

LEMMA ProcessStep ==
  ASSUME StateFileInv, NEW p \in Processes, Process(p) \/ Unsaved(p) \/ Kill(p) \/ Restart(p)
  PROVE  StateFileInv' /\ StepOn(p)
  <1>1. CASE Configure(p)
    BY <1>1, ConfigureInv
  <1>2. CASE Create(p)
    BY <1>2, CreateInv
  <1>3. CASE OpenFails(p)
    BY <1>3, OpenFailsInv
  <1>4. CASE Load(p)
    BY <1>4, LoadInv
  <1>5. CASE Begin(p)
    BY <1>5, BeginInv
  <1>6. CASE Verify(p)
    BY <1>6, VerifyInv
  <1>7. CASE Leave(p)
    <2>1. /\ HistoryUnchanged /\ FilesUnchanged /\ conf' = conf /\ image' = image /\ pos' = pos
          /\ Goes(p, "running", "leaving")
      BY <1>7 DEF Leave
    <2> QED
      BY <2>1, GoesInv
  <1>8. CASE Save(p)
    BY <1>8, FlushInv DEF Save
  <1>9. CASE Measure(p)
    BY <1>9, MeasureInv
  <1>10. CASE Truncate(p)
    <2>1. HistoryUnchanged /\ conf' = conf /\ image' = image /\ pos' = pos /\ torn' = torn
      BY <1>10 DEF Truncate
    <2>2. \/ /\ Goes(p, "cutting", "closing") /\ Touched(p)
             /\ files' = [files EXCEPT ![At(p)] = image[p]]
          \/ Goes(p, "cutting", "terminated") /\ FilesUnchanged
      BY <1>10 DEF Truncate, FilesUnchanged
    <2>3. CASE Goes(p, "cutting", "terminated") /\ FilesUnchanged
      BY <2>1, <2>3, GoesInv
    <2> QED
      BY <2>1, <2>2, <2>3, CutInv
  <1>11. CASE Close(p)
    BY <1>11, FlushInv DEF Close
  <1>12. CASE Reject(p)
    BY <1>12, FlushInv DEF Reject
  <1>13. CASE Unsaved(p)
    <2>1. PICK from \in {"leaving", "throwing", "closing"} : FlushFails(p, from)
      BY <1>13 DEF Unsaved
    <2> QED
      BY <2>1, FlushFailsInv
  <1>14. CASE Kill(p)
    <2>1. PICK from \in {"configured", "created", "loaded", "running", "leaving", "flushed",
                         "cutting", "closing", "throwing"} : Goes(p, from, "crashed")
      BY <1>14 DEF Kill, Live, Goes
    <2>2. /\ HistoryUnchanged /\ FilesUnchanged /\ conf' = conf /\ image' = image /\ pos' = pos
      BY <1>14 DEF Kill
    <2> QED
      BY <2>1, <2>2, GoesInv
  <1>15. CASE Restart(p)
    BY <1>15, RestartInv
  <1> QED
    BY <1>1, <1>2, <1>3, <1>4, <1>5, <1>6, <1>7, <1>8, <1>9, <1>10, <1>11, <1>12, <1>13, <1>14,
       <1>15 DEF Process

LEMMA NextInv == StateFileInv /\ [Next]_vars => StateFileInv'
  <1> SUFFICES ASSUME StateFileInv, [Next]_vars PROVE StateFileInv'
    OBVIOUS
  <1>1. CASE Next
    BY <1>1, ProcessStep DEF Next
  <1>2. CASE UNCHANGED vars
    <2>1. /\ line' = line /\ conf' = conf /\ stage' = stage /\ image' = image /\ pos' = pos
          /\ files' = files /\ original' = original /\ torn' = torn /\ changed' = changed
      BY <1>2 DEF vars
    <2>2. ASSUME NEW p \in Processes PROVE ProcessInv(p)'
      <3>1. ProcessInv(p)
        BY DEF StateFileInv
      <3> QED
        BY <2>1, <3>1 DEF ProcessInv, KnowsConfig, HoldsImage, HasSaved, RacedOnly,
                          WrittenByAnother, At
    <2> QED
      BY <2>1, <2>2 DEF StateFileInv, StateFileTypeOK, ConfigsOK, FilesInv
  <1> QED
    BY <1>1, <1>2

LEMMA StateFileInvariant == Spec => []StateFileInv
  <1> QED
    BY InitInv, NextInv, PTL DEF Spec

\* The types: every process, its image and position, and every file are among the values
\* the program gives them, however processes start, save, fail, are killed and run again.
THEOREM StateFileTypes == Spec => []StateFileTypeOK
  <1>1. StateFileInv => StateFileTypeOK
    BY DEF StateFileInv
  <1> QED
    BY <1>1, StateFileInvariant, PTL

\* A file is rejected only if it is not the program's, a write of it has failed, or
\* another process has written it between two looks at it.
THEOREM RejectsCorrect == Spec => []RejectsOnlyBroken
  <1>1. StateFileInv => RejectsOnlyBroken
    <2> SUFFICES ASSUME StateFileInv, NEW p \in Processes, stage[p] \in {"throwing", "rejected"}
                 PROVE  \/ original[At(p)] \notin Ours \/ At(p) \in torn
                        \/ image[p] = "empty" /\ \E q \in Processes \ {p} : At(p) \in changed[q]
      BY DEF RejectsOnlyBroken
    <2>1. RacedOnly(p)
      BY RestingFacts
    <2> QED
      BY <2>1 DEF RacedOnly, WrittenByAnother
  <1> QED
    BY <1>1, StateFileInvariant, PTL

\* A process that has ended in order leaves the file with what it held, unless a write
\* of that file has failed.
THEOREM SavingCorrect == Spec => []EndedMeansSaved
  <1>1. StateFileInv => EndedMeansSaved
    <2> SUFFICES ASSUME StateFileInv, NEW p \in Processes, stage[p] = "done"
                 PROVE  files[At(p)] = image[p] \/ At(p) \in torn
      BY DEF EndedMeansSaved
    <2>1. HoldsImage(p) /\ HasSaved(p) /\ FilesInv /\ At(p) \in Paths
      BY RestingFacts DEF StateFileInv
    <2>2. CASE image[p] = "header"
      BY <2>1, <2>2 DEF HasSaved
    <2>3. CASE image[p] = "short"
      <3>1. original[At(p)] = "short" \/ At(p) \in torn
        BY <2>1, <2>3 DEF HoldsImage
      <3>2. original[At(p)] = "short" => files[At(p)] = "short"
        BY <2>1 DEF FilesInv, Filled
      <3> QED
        BY <2>3, <3>1, <3>2
    <2> QED
      BY <2>1, <2>2, <2>3 DEF HoldsImage, Holding
  <1> QED
    BY <1>1, StateFileInvariant, PTL

\* Whatever the command line, a process works with what the usage text says of it; one
\* that the text does not describe ends the process before any file is touched.
THEOREM ConfigurationCorrect == Spec => []ParseMatchesUsage
  <1>1. StateFileInv => ParseMatchesUsage
    <2> SUFFICES ASSUME StateFileInv, NEW p \in Processes, stage[p] # "start"
                 PROVE  /\ AsUsage(conf[p], line[p])
                        /\ conf[p].next = "error" => stage[p] = "usage" /\ changed[p] = {}
      BY DEF ParseMatchesUsage
    <2>1. KnowsConfig(p) /\ line[p] \in Seq(Args)
      BY RestingFacts
    <2>2. conf[p] = Parse(line[p])
      BY <2>1 DEF KnowsConfig
    <2>3. AsUsage(conf[p], line[p])
      BY <2>1, <2>2, ParseAsUsage
    <2> QED
      BY <2>1, <2>2, <2>3 DEF KnowsConfig
  <1> QED
    BY <1>1, StateFileInvariant, PTL

\* No step changes a file that holds anything whole, whoever writes it and whatever
\* fails, but for the one that cuts a header which was taken from a torn file.
THEOREM FilesKept == Spec => WholeFilesKept
  <1> DEFINE Kept == \A f \in Paths : files[f] \in {"header", "nodes", "foreign"} =>
                        \/ files'[f] = files[f]
                        \/ \E p \in Processes :
                               At(p) = f /\ image[p] = "short" /\ stage[p] = "cutting"
  <1>1. StateFileInv /\ [Next]_vars => [Kept]_vars
    <2> SUFFICES ASSUME StateFileInv, Next, NEW f \in Paths,
                        files[f] \in {"header", "nodes", "foreign"}, files'[f] # files[f]
                 PROVE  \E p \in Processes : At(p) = f /\ image[p] = "short" /\ stage[p] = "cutting"
      OBVIOUS
    <2>1. PICK p \in Processes : Process(p) \/ Unsaved(p) \/ Kill(p) \/ Restart(p)
      BY DEF Next
    <2>2. StepOn(p)
      BY <2>1, ProcessStep
    <2>3. /\ f = At(p) /\ original[f] \notin Filled
          /\ files[f] = "header" => stage[p] = "cutting" /\ image[p] = "short"
      BY <2>2 DEF StepOn
    <2>4. files[f] = "header"
      BY <2>3 DEF StateFileInv, FilesInv
    <2> QED
      BY <2>3, <2>4
  <1> QED
    BY <1>1, StateFileInvariant, PTL DEF Spec, WholeFilesKept
=============================================================================
