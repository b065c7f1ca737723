---------------------------- MODULE SessionProofs ----------------------------
(* Theorems about Session: its types, and that the reply is split into lines *)
(* as it was sent, routes go to the right node, the list is asked for and a  *)
(* timeout does not end the session, whatever the node sends and however it  *)
(* is cut into packets.                                                      *)
EXTENDS Session, SequenceTheorems, WellFoundedInduction, TLAPS

AllBytes == Words \cup {Slash} \cup Bytes
InReply == stage \in {"first", "next"} \/ (stage = "via" /\ io = {})
BeforeReply == stage \in {"connect", "eat", "bbs", "list"}

\* What has been sent and whether the stream throws, by stage.
DialogueInv ==
    /\ stage \in {"connect", "eat"} => sent = <<>>
    /\ stage \in {"bbs", "list"} => Len(sent) <= 1
    /\ stage \in {"connect", "first", "next", "via", "complete"} => ~throws
    /\ stage \in {"first", "next", "via"} => sent # <<>> /\ sent[Len(sent)] = "JL"
    /\ ListAskedFor
    /\ TimeoutNeverAbandons

\* What a route would be put down to while one is looked for.
RouteInv == stage \in {"next", "via"} => node = previous

\* A carriage return has been counted when it is read; the byte put back after it
\* is in sight, and is no line feed.
LinesInv ==
    /\ stage \in {"connect", "eat", "list"} => ~cr
    /\ BeforeReply => lines = 0 /\ endings = 0 /\ ~lastCR
    /\ InReply /\ cr => lines = endings - 1 /\ lastCR
    /\ InReply /\ ~cr => lines = endings
    /\ InReply /\ ~cr /\ lastCR => visible > 0 /\ Head(buf) # LF
    /\ lines <= endings /\ endings + Len(buf) <= received

SessionInv == SessionTypeOK /\ DialogueInv /\ RouteInv /\ LinesInv

-----------------------------------------------------------------------------
(* parse_callsign.                                                           *)

LEMMA MinIn ==
  ASSUME NEW S, S \subseteq Nat, S # {}
  PROVE  Min(S) \in S /\ \A n \in S : Min(S) <= n
  <1>1. PICK m \in S : \A n \in S : ~(<<n, m>> \in OpToRel(<, Nat))
    BY NatLessThanWellFounded, WFMin
  <1>2. \A n \in S : m <= n
    <2> SUFFICES ASSUME NEW n \in S, n < m PROVE FALSE
      OBVIOUS
    <2>1. <<n, m>> \in Nat \X Nat /\ <<n, m>>[1] < <<n, m>>[2]
      OBVIOUS
    <2> QED
      BY <1>1, <2>1 DEF OpToRel
  <1> QED
    BY <1>2 DEF Min

\* parse_callsign finds a word of the line, or nothing.
LEMMA ParsedCall ==
  ASSUME NEW s \in Seq(AllBytes)
  PROVE  ParseCallsign(s).call \in Words \cup {None}
  <1> DEFINE found == {i \in DOMAIN s : s[i] \in Words}
             from(i) == Max({0} \cup {j \in found : j < i}) + 1
             plain == {i \in found : \A k \in from(i) .. i : s[k] # Slash}
             at == IF plain # {} THEN Min(plain) ELSE Max({0} \cup found)
             call == IF plain # {} THEN s[at] ELSE None
  <1>1. ParseCallsign(s).call = call
    BY DEF ParseCallsign
  <1>2. plain \subseteq found /\ found \subseteq Nat
    OBVIOUS
  <1>3. plain # {} => Min(plain) \in found
    BY <1>2, MinIn
  <1> QED
    BY <1>1, <1>3

LEMMA MaxIn ==
  ASSUME NEW n \in Nat, NEW S, S \subseteq 0 .. n, S # {}
  PROVE  Max(S) \in S
  <1> DEFINE T == {n - x : x \in S}
  <1>1. T \subseteq Nat /\ T # {}
    OBVIOUS
  <1>2. Min(T) \in T /\ \A y \in T : Min(T) <= y
    BY <1>1, MinIn
  <1>3. PICK m \in S : Min(T) = n - m
    BY <1>2
  <1>4. \A x \in S : m >= x
    <2> SUFFICES ASSUME NEW x \in S PROVE m >= x
      OBVIOUS
    <2>1. n - m <= n - x
      BY <1>2, <1>3
    <2>2. m \in Nat /\ x \in Nat
      OBVIOUS
    <2> QED
      BY <2>1, <2>2
  <1> QED
    BY <1>4 DEF Max

\* What parse_callsign leaves of a line is the end of it.
LEMMA ParsedRest ==
  ASSUME NEW S, NEW s \in Seq(S)
  PROVE  ParseCallsign(s).rest \in Seq(S)
  <1> DEFINE found == {i \in DOMAIN s : s[i] \in Words}
             from(i) == Max({0} \cup {j \in found : j < i}) + 1
             plain == {i \in found : \A k \in from(i) .. i : s[k] # Slash}
             at == IF plain # {} THEN Min(plain) ELSE Max({0} \cup found)
  <1>1. ParseCallsign(s).rest = SubSeq(s, at + 1, Len(s))
    BY DEF ParseCallsign
  <1>2. Len(s) \in Nat /\ DOMAIN s = 1 .. Len(s)
    BY LenProperties
  <1>3. plain \subseteq found /\ found \subseteq 1 .. Len(s)
    BY <1>2
  <1>4. plain # {} => Min(plain) \in 0 .. Len(s)
    <2>1. plain \subseteq Nat
      BY <1>2, <1>3
    <2>2. plain # {} => Min(plain) \in plain
      BY <2>1, MinIn
    <2> QED
      BY <1>2, <1>3, <2>2
  <1>5. Max({0} \cup found) \in 0 .. Len(s)
    <2>1. {0} \cup found \subseteq 0 .. Len(s)
      BY <1>2, <1>3
    <2>2. Max({0} \cup found) \in {0} \cup found
      BY <1>2, <2>1, MaxIn
    <2> QED
      BY <2>1, <2>2
  <1>6. at \in Nat
    BY <1>2, <1>4, <1>5
  <1> HIDE DEF at
  <1>7. \A i \in at + 1 .. Len(s) : s[i] \in S
    <2> SUFFICES ASSUME NEW i \in at + 1 .. Len(s) PROVE s[i] \in S
      OBVIOUS
    <2>1. i \in 1 .. Len(s)
      BY <1>2, <1>6
    <2> QED
      BY <2>1, ElementOfSeq
  <1> QED
    BY <1>1, <1>2, <1>6, <1>7, SubSeqProperties

-----------------------------------------------------------------------------
(* The steps of the stream.                                                  *)

LEMMA ByteFacts ==
  /\ CR # LF /\ {CR, LF, Prompt, Text} \subseteq AllBytes
  /\ \A b \in Words \cup {Slash, Prompt, Text} : b \in AllBytes /\ b # CR /\ b # LF
  BY TokensAssumption DEF AllBytes, Bytes, Blanks

LEMMA BufferTypes ==
  ASSUME SessionTypeOK
  PROVE  /\ buf \in Seq(AllBytes) /\ Len(buf) \in Nat
         /\ visible \in Nat /\ visible <= Len(buf)
         /\ received \in Nat /\ received <= ReceiveLimit /\ ReceiveLimit \in Nat
         /\ lines \in Nat /\ endings \in Nat
  <1>1. buf \in Seq(AllBytes)
    BY DEF SessionTypeOK, AllBytes
  <1>2. /\ visible \in 0 .. Len(buf) /\ received \in 0 .. ReceiveLimit
        /\ lines \in 0 .. ReceiveLimit /\ endings \in 0 .. ReceiveLimit
    BY DEF SessionTypeOK
  <1> QED
    BY <1>1, <1>2, LimitsAssumption

\* A byte that is read leaves the buffer.
LEMMA TakeFacts ==
  ASSUME SessionTypeOK, NEW b, Take(b)
  PROVE  /\ Reading /\ b = Head(buf) /\ b \in AllBytes
         /\ buf' \in Seq(AllBytes) /\ Len(buf') = Len(buf) - 1
         /\ visible' \in 0 .. Len(buf')
         /\ Len(buf) \in Nat \ {0} /\ visible > 0
         /\ UNCHANGED <<io, received, broken>>
  <1>1. /\ Reading /\ b = Head(buf) /\ buf' = Tail(buf)
        /\ visible > 0 /\ visible' = visible - 1
        /\ UNCHANGED <<io, received, broken>>
    BY DEF Take
  <1>2. buf \in Seq(AllBytes) /\ buf # <<>>
    BY <1>1, BufferTypes
  <1>3. /\ Head(buf) \in AllBytes /\ Tail(buf) \in Seq(AllBytes)
        /\ Len(Tail(buf)) = Len(buf) - 1
    BY <1>2, HeadTailProperties
  <1> QED
    BY <1>1, <1>3, BufferTypes

\* What the node sends is added to it.
LEMMA ArriveFacts ==
  ASSUME SessionTypeOK, Arrive
  PROVE  /\ buf' \in Seq(AllBytes)
         /\ received' = received + (Len(buf') - Len(buf)) /\ received' \in 0 .. ReceiveLimit
         /\ visible' \in 0 .. Len(buf')
         /\ Len(buf) \in Nat /\ Len(buf') \in Nat
         /\ Reading /\ visible = 0
         /\ UNCHANGED <<stage, io, throws, broken, inWord, line, cr, node, route, sent, bbs, history>>
  <1>1. PICK p \in Packets : /\ received + Len(p) <= ReceiveLimit
                             /\ buf' = buf \o p /\ received' = received + Len(p)
    BY DEF Arrive
  <1>2. PICK n \in 1 .. PacketLimit : p \in [1 .. n -> AllBytes]
    BY DEF Packets, AllBytes
  <1>3. n \in Nat /\ p \in Seq(AllBytes)
    <2>1. n \in Nat
      BY LimitsAssumption
    <2> QED
      BY <1>2, <2>1, SeqDef
  <1>4. buf \in Seq(AllBytes) /\ Len(buf) \in Nat /\ Len(p) \in Nat
    BY <1>3, BufferTypes
  <1>5. buf \o p \in Seq(AllBytes) /\ Len(buf \o p) = Len(buf) + Len(p)
    BY <1>3, <1>4
  <1>6. Seen(buf') \in 0 .. Len(buf')
    BY <1>1, <1>4, <1>5 DEF Seen
  <1>7. received' \in 0 .. ReceiveLimit
    BY <1>1, <1>4, BufferTypes
  <1> QED
    BY <1>1, <1>4, <1>5, <1>6, <1>7 DEF Arrive

-----------------------------------------------------------------------------
(* The steps of a session.                                                   *)

LEMMA SessionInit == Init => SessionInv
  <1> SUFFICES ASSUME Init PROVE SessionInv
    OBVIOUS
  <1>1. /\ stage = "connect" /\ io = {} /\ throws = FALSE
        /\ buf = <<>> /\ visible = 0 /\ received = 0 /\ broken = FALSE
        /\ inWord = FALSE /\ line = <<>> /\ cr = FALSE
        /\ node = None /\ sent = <<>> /\ bbs = FALSE
        /\ lines = 0 /\ endings = 0 /\ lastCR = FALSE
        /\ previous = None /\ route = <<>>
    BY DEF Init
  <1>2. SessionTypeOK
    <2>1. buf \in Seq(Words \cup {Slash} \cup Bytes) /\ Len(buf) = 0
      BY <1>1, EmptySeq
    <2>2. line \in Seq(Words \cup {Slash, Prompt, Text})
      BY <1>1, EmptySeq
    <2>3. sent \in Seq({"BBS", "JL"}) /\ Len(sent) = 0
      BY <1>1, EmptySeq
    <2>4. 0 \in 0 .. ReceiveLimit
      BY LimitsAssumption
    <2>5. {throws, inWord, cr, bbs, broken, lastCR} \subseteq BOOLEAN
      BY <1>1
    <2>6. previous \in Words \cup {None} /\ route \in Seq(Words)
      BY <1>1, EmptySeq
    <2> QED
      BY <1>1, <2>1, <2>2, <2>3, <2>4, <2>5, <2>6 DEF SessionTypeOK, InLine
  <1>3. DialogueInv /\ RouteInv
    BY <1>1 DEF DialogueInv, RouteInv, InReply, ListAskedFor, TimeoutNeverAbandons
  <1>4. LinesInv
    <2>1. Len(buf) = 0
      BY <1>1, EmptySeq
    <2> QED
      BY <1>1, <2>1 DEF LinesInv, InReply, BeforeReply
  <1> QED
    BY <1>2, <1>3, <1>4 DEF SessionInv

LEMMA ConnectStep ==
  ASSUME SessionInv, Connect \/ ConnectFails
  PROVE  SessionInv'
  <1> USE DEF SessionInv
  <1>1. /\ stage = "connect"
        /\ \/ stage' = "eat" /\ throws' = TRUE
           \/ stage' = "abandoned" /\ throws' = throws
        /\ UNCHANGED <<io, buf, visible, received, broken, inWord, line, cr, node, route, sent, bbs,
                       lines, endings, lastCR, previous>>
    BY DEF Connect, ConnectFails, Abandon, history
  <1>2. SessionTypeOK'
    BY <1>1 DEF SessionTypeOK, InLine, Ended
  <1>3. DialogueInv' /\ RouteInv'
    BY <1>1 DEF DialogueInv, RouteInv, InReply, ListAskedFor, TimeoutNeverAbandons
  <1>4. LinesInv'
    BY <1>1, BufferTypes DEF LinesInv, InReply, BeforeReply
  <1> QED
    BY <1>2, <1>3, <1>4

LEMMA ArriveStep ==
  ASSUME SessionInv, Arrive
  PROVE  SessionInv'
  <1> USE DEF SessionInv
  <1>1. UNCHANGED <<stage, io, throws, broken, inWord, line, cr, node, route, sent, bbs, lines,
                    endings, lastCR, previous>>
    BY ArriveFacts DEF history
  <1>2. SessionTypeOK'
    BY <1>1, ArriveFacts DEF SessionTypeOK, InLine, Ended, AllBytes
  <1>3. DialogueInv' /\ RouteInv'
    BY <1>1 DEF DialogueInv, RouteInv, InReply, ListAskedFor, TimeoutNeverAbandons
  <1>4. LinesInv'
    <2>1. endings + Len(buf) <= received => endings + Len(buf') <= received'
      BY ArriveFacts, BufferTypes
    <2>2. ~(visible > 0)
      BY ArriveFacts
    <2> QED
      BY <1>1, <2>1, <2>2 DEF LinesInv, InReply, BeforeReply
  <1> QED
    BY <1>2, <1>3, <1>4

LEMMA EatStep ==
  ASSUME SessionInv, Eat
  PROVE  SessionInv'
  <1> USE DEF SessionInv
  <1>1. PICK b \in Words \cup {Slash} \cup Bytes : Take(b) /\ inWord' = (b \notin Blanks)
    BY DEF Eat
  <1>2. /\ stage = "eat"
        /\ UNCHANGED <<stage, throws, line, cr, node, route, sent, bbs, lines, endings, lastCR,
                       previous>>
    BY DEF Eat, history
  <1>3. SessionTypeOK'
    BY <1>1, <1>2, TakeFacts DEF SessionTypeOK, InLine, Ended, AllBytes
  <1>4. UNCHANGED broken
    BY <1>1, TakeFacts
  <1>5. DialogueInv' /\ RouteInv'
    BY <1>2, <1>4 DEF DialogueInv, RouteInv, InReply, ListAskedFor,
         TimeoutNeverAbandons
  <1>6. LinesInv'
    <2>1. endings + Len(buf) <= received => endings + Len(buf') <= received'
      BY <1>1, TakeFacts, BufferTypes
    <2> QED
      BY <1>2, <2>1 DEF LinesInv, InReply, BeforeReply
  <1> QED
    BY <1>3, <1>5, <1>6

\* eat_stream leaves failbit set when the node has sent nothing but blanks, and the
\* BBS command is then not sent.
LEMMA EatEndsFacts ==
  ASSUME EatEnds
  PROVE  /\ stage = "eat" /\ visible' = Len(buf) /\ inWord' = FALSE
         /\ \/ stage' = "bbs" /\ io' = {} /\ sent' = Append(sent, "BBS") /\ broken' = broken
            \/ stage' = "abandoned" /\ io' = {"bad"} /\ sent' = sent /\ broken' = TRUE
            \/ stage' = "list" /\ io' = {"fail"} /\ sent' = sent /\ broken' = broken
         /\ UNCHANGED <<throws, buf, received, line, cr, node, route, bbs, lines, endings, lastCR,
                        previous>>
  <1>1. PICK left \in {{}, {"fail"}} :
           /\ SendCommand(left, "BBS")
           /\ IF io' = {"bad"} THEN stage' = "abandoned"
              ELSE stage' = IF left = {} THEN "bbs" ELSE "list"
    <2>1. EatLeaves({"eof"}) = {} /\ EatLeaves({"eof", "fail"}) = {"fail"}
      BY DEF EatLeaves
    <2> QED
      BY <2>1 DEF EatEnds
  <1>2. {} # {"bad"} /\ {"fail"} # {"bad"} /\ {"fail"} # {}
    OBVIOUS
  <1>3. \/ stage' = "bbs" /\ io' = {} /\ sent' = Append(sent, "BBS") /\ broken' = broken
        \/ stage' = "abandoned" /\ io' = {"bad"} /\ sent' = sent /\ broken' = TRUE
        \/ stage' = "list" /\ io' = {"fail"} /\ sent' = sent /\ broken' = broken
    BY <1>1, <1>2 DEF SendCommand
  <1> QED
    BY <1>3 DEF EatEnds, history

LEMMA EatEndsStep ==
  ASSUME SessionInv, EatEnds
  PROVE  SessionInv'
  <1> USE DEF SessionInv
  <1>1. /\ stage = "eat" /\ visible' = Len(buf) /\ inWord' = FALSE
        /\ UNCHANGED <<throws, buf, received, line, cr, node, route, bbs, lines, endings, lastCR,
                       previous>>
    BY EatEndsFacts
  <1>2. \/ stage' = "bbs" /\ io' = {} /\ sent' = Append(sent, "BBS") /\ broken' = broken
        \/ stage' = "abandoned" /\ io' = {"bad"} /\ sent' = sent /\ broken' = TRUE
        \/ stage' = "list" /\ io' = {"fail"} /\ sent' = sent /\ broken' = broken
    BY EatEndsFacts
  <1>3. sent = <<>>
    BY <1>1 DEF DialogueInv
  <1>4. /\ Append(sent, "BBS") \in Seq({"BBS", "JL"}) /\ Len(Append(sent, "BBS")) = 1
        /\ sent \in Seq({"BBS", "JL"}) /\ Len(sent) = 0
    BY <1>3, EmptySeq, AppendProperties
  <1>5. /\ stage' \in {"bbs", "list", "abandoned"}
        /\ sent' \in Seq({"BBS", "JL"}) /\ Len(sent') <= 1 /\ Len(sent') <= 2
        /\ io' \subseteq {"eof", "fail", "bad"} /\ (stage' = "bbs" => io' = {})
    <2>1. sent' \in {Append(sent, "BBS"), sent}
      BY <1>2
    <2>2. /\ Len(Append(sent, "BBS")) <= 1 /\ Len(Append(sent, "BBS")) <= 2
          /\ Len(sent) <= 1 /\ Len(sent) <= 2
      BY <1>4
    <2>3. sent' \in Seq({"BBS", "JL"}) /\ Len(sent') <= 1 /\ Len(sent') <= 2
      BY <1>4, <2>1, <2>2, Zenon
    <2>4. stage' \in {"bbs", "list", "abandoned"} /\ (stage' = "bbs" => io' = {})
      BY <1>2
    <2>5. io' \subseteq {"eof", "fail", "bad"}
      BY <1>2
    <2> QED
      BY <2>3, <2>4, <2>5
  <1>6. SessionTypeOK'
    <2>1. visible' \in 0 .. Len(buf')
      BY <1>1, BufferTypes
    <2>2. {throws', inWord', cr', bbs', broken', lastCR'} \subseteq BOOLEAN
      BY <1>1, <1>2 DEF SessionTypeOK
    <2> QED
      BY <1>1, <1>5, <2>1, <2>2 DEF SessionTypeOK, InLine, Ended
  <1>7. DialogueInv'
    <2>1. TimeoutNeverAbandons'
      BY <1>2 DEF TimeoutNeverAbandons
    <2>2. ~InReply' /\ ListAskedFor'
      BY <1>5 DEF InReply, ListAskedFor
    <2>3. Len(sent') <= 1
      BY <1>5
    <2> QED
      BY <1>5, <2>1, <2>2, <2>3 DEF DialogueInv
  <1>8. RouteInv'
    BY <1>1, <1>5 DEF RouteInv
  <1>9. LinesInv'
    BY <1>1, <1>5 DEF LinesInv, InReply, BeforeReply
  <1> QED
    BY <1>6, <1>7, <1>8, <1>9

\* A failing connection ends whatever stage it is met in.
LEMMA BreakStep ==
  ASSUME SessionInv, EatBreaks \/ LineBreaks
  PROVE  SessionInv'
  <1> USE DEF SessionInv
  <1>1. /\ stage' = "abandoned" /\ io' = {"bad"} /\ broken' = TRUE /\ visible' = Len(buf)
        /\ UNCHANGED <<buf, received, throws, inWord, line, cr, node, route, sent, bbs, lines,
                       endings, lastCR, previous>>
    BY DEF EatBreaks, LineBreaks, Break, Abandon, history
  <1>2. SessionTypeOK'
    <2>1. visible' \in 0 .. Len(buf')
      BY <1>1, BufferTypes
    <2> QED
      BY <1>1, <2>1 DEF SessionTypeOK, InLine, Ended
  <1>3. DialogueInv' /\ RouteInv'
    BY <1>1 DEF DialogueInv, RouteInv, InReply, ListAskedFor,
                TimeoutNeverAbandons
  <1>4. LinesInv'
    BY <1>1 DEF LinesInv, InReply, BeforeReply
  <1> QED
    BY <1>2, <1>3, <1>4

\* Reading a byte of the reply to J L keeps the count of its endings within what was received.
LEMMA CountedFacts ==
  ASSUME SessionInv, InLine, NEW b, Take(b), Counted(b)
  PROVE  /\ endings' \in 0 .. ReceiveLimit /\ lines <= endings'
         /\ endings' + Len(buf') <= received' /\ lastCR' \in BOOLEAN
         /\ InReply => /\ endings' = endings + (IF b = CR \/ (b = LF /\ ~lastCR) THEN 1 ELSE 0)
                       /\ lastCR' = (b = CR)
         /\ stage = "bbs" => UNCHANGED <<endings, lastCR>>
  <1> USE DEF SessionInv
  <1>1. /\ InReply => /\ endings' = endings + (IF b = CR \/ (b = LF /\ ~lastCR) THEN 1 ELSE 0)
                      /\ lastCR' = (b = CR)
        /\ ~InReply => UNCHANGED <<endings, lastCR>>
    BY DEF Counted, InReply, InLine
  <1>2. endings' \in {endings, endings + 1}
    <2>1. endings + 0 = endings
      BY BufferTypes
    <2> QED
      BY <1>1, <2>1
  <1>5. lastCR' \in BOOLEAN
    BY <1>1 DEF SessionTypeOK
  <1>3. Len(buf') \in Nat /\ Len(buf') = Len(buf) - 1 /\ received' = received
    BY TakeFacts
  <1>4. lines <= endings /\ endings + Len(buf) <= received
    BY DEF LinesInv
  <1> QED
    BY <1>1, <1>2, <1>3, <1>4, <1>5, BufferTypes DEF InReply

-----------------------------------------------------------------------------
(* The lines of a reply.                                                     *)

LEMMA AddToLineStep ==
  ASSUME SessionInv, AddToLine
  PROVE  SessionInv'
  <1> USE DEF SessionInv
  <1>1. PICK b \in Words \cup {Slash, Prompt, Text} :
           Take(b) /\ line' = Append(line, b) /\ Counted(b)
    BY DEF AddToLine
  <1>2. /\ InLine /\ ~cr
        /\ UNCHANGED <<stage, throws, inWord, cr, node, route, sent, bbs, lines, previous>>
    BY DEF AddToLine
  <1>3. UNCHANGED <<io, received, broken>> /\ buf' \in Seq(AllBytes) /\ visible' \in 0 .. Len(buf')
    BY <1>1, TakeFacts
  <1>4. SessionTypeOK'
    <2>1. line' \in Seq(Words \cup {Slash, Prompt, Text})
      BY <1>1, AppendProperties DEF SessionTypeOK
    <2>2. endings' \in 0 .. ReceiveLimit /\ lastCR' \in BOOLEAN
      BY <1>1, <1>2, CountedFacts
    <2> QED
      BY <1>2, <1>3, <2>1, <2>2 DEF SessionTypeOK, InLine, Ended, AllBytes
  <1>5. DialogueInv' /\ RouteInv'
    BY <1>2, <1>3 DEF DialogueInv, RouteInv, InReply, ListAskedFor, TimeoutNeverAbandons
  <1>6. LinesInv'
    <2>1. lines' <= endings' /\ endings' + Len(buf') <= received'
      BY <1>1, <1>2, CountedFacts
    <2>2. InReply => endings' = endings /\ lastCR' = FALSE
      BY <1>1, <1>2, CountedFacts, ByteFacts, BufferTypes
    <2>3. ~InReply => UNCHANGED <<endings, lastCR>>
      BY <1>1, <1>2, CountedFacts DEF InReply, InLine
    <2> QED
      BY <1>2, <2>1, <2>2, <2>3 DEF LinesInv, InReply, InLine, BeforeReply
  <1> QED
    BY <1>4, <1>5, <1>6

LEMMA CarriageReturnStep ==
  ASSUME SessionInv, CarriageReturn
  PROVE  SessionInv'
  <1> USE DEF SessionInv
  <1>1. Take(CR) /\ Counted(CR)
    BY DEF CarriageReturn
  <1>2. /\ InLine /\ ~cr /\ cr' = TRUE
        /\ UNCHANGED <<stage, throws, inWord, line, node, route, sent, bbs, lines, previous>>
    BY DEF CarriageReturn
  <1>3. UNCHANGED <<io, received, broken>> /\ buf' \in Seq(AllBytes) /\ visible' \in 0 .. Len(buf')
    BY <1>1, TakeFacts
  <1>4. SessionTypeOK'
    <2>1. endings' \in 0 .. ReceiveLimit /\ lastCR' \in BOOLEAN
      BY <1>1, <1>2, CountedFacts
    <2> QED
      BY <1>2, <1>3, <2>1 DEF SessionTypeOK, InLine, Ended, AllBytes
  <1>5. DialogueInv' /\ RouteInv'
    BY <1>2, <1>3 DEF DialogueInv, RouteInv, InReply, ListAskedFor, TimeoutNeverAbandons
  <1>6. LinesInv'
    <2>1. lines' <= endings' /\ endings' + Len(buf') <= received'
      BY <1>1, <1>2, CountedFacts
    <2>2. InReply => lines' = endings' - 1 /\ lastCR' = TRUE
      BY <1>1, <1>2, CountedFacts, BufferTypes DEF LinesInv, InReply
    <2>3. ~InReply => UNCHANGED <<endings, lastCR>>
      BY <1>1, <1>2, CountedFacts DEF InReply, InLine
    <2> QED
      BY <1>2, <2>1, <2>2, <2>3 DEF LinesInv, InReply, InLine, BeforeReply
  <1> QED
    BY <1>4, <1>5, <1>6

\* A line that ends has used up its ending, or has left in sight the byte behind a
\* carriage return, which is no line feed.
LEMMA LineEndsFacts ==
  ASSUME SessionInv, InLine, LineEnds
  PROVE  /\ UNCHANGED <<io, received, broken>>
         /\ buf' \in Seq(AllBytes) /\ visible' \in 0 .. Len(buf')
         /\ endings' \in 0 .. ReceiveLimit /\ lines <= endings'
         /\ endings' + Len(buf') <= received' /\ lastCR' \in BOOLEAN
         /\ stage = "bbs" => UNCHANGED <<endings, lastCR>>
         /\ InReply => /\ endings' = lines + 1
                       /\ lastCR' => visible' > 0 /\ Head(buf') # LF
  <1> USE DEF SessionInv
  <1>1. CASE Take(LF) /\ Counted(LF) /\ ~cr
    <2>1. InReply => endings' = lines + 1
      BY <1>1, CountedFacts, BufferTypes, ByteFacts
         DEF LinesInv, InReply, Take
    <2>2. InReply => lastCR' = FALSE
      BY <1>1, CountedFacts, ByteFacts
    <2> QED
      BY <1>1, <2>1, <2>2, TakeFacts, CountedFacts
  <1>2. CASE Take(LF) /\ Counted(LF) /\ cr
    <2>1. InReply => endings' = lines + 1
      BY <1>2, CountedFacts, BufferTypes, ByteFacts
         DEF LinesInv, InReply
    <2>2. InReply => lastCR' = FALSE
      BY <1>2, CountedFacts, ByteFacts
    <2> QED
      BY <1>2, <2>1, <2>2, TakeFacts, CountedFacts
  <1>3. CASE /\ cr /\ visible > 0 /\ Head(buf) # LF
             /\ UNCHANGED <<io, buf, visible, received, broken, endings, lastCR>>
    <2>1. InReply => endings' = lines + 1
      BY <1>3, BufferTypes DEF LinesInv, InReply
    <2>2. lines <= endings /\ endings + Len(buf) <= received
      BY DEF LinesInv
    <2>3. endings \in 0 .. ReceiveLimit /\ lastCR \in BOOLEAN
      BY DEF SessionTypeOK
    <2> QED
      BY <1>3, <2>1, <2>2, <2>3, BufferTypes
  <1> QED
    BY <1>1, <1>2, <1>3 DEF LineEnds, LineFeedEaten

LEMMA BbsLineStep ==
  ASSUME SessionInv, BbsLine
  PROVE  SessionInv'
  <1> USE DEF SessionInv
  <1>1. /\ stage = "bbs" /\ stage' \in {"bbs", "list"} /\ line' = <<>> /\ cr' = FALSE
        /\ bbs' \in BOOLEAN
        /\ UNCHANGED <<throws, inWord, node, route, sent, lines, previous>>
    BY DEF BbsLine, IsBbsPrompt
  <1>2. /\ UNCHANGED <<io, received, broken, endings, lastCR>>
        /\ buf' \in Seq(AllBytes) /\ visible' \in 0 .. Len(buf')
        /\ lines <= endings' /\ endings' + Len(buf') <= received'
    BY <1>1, LineEndsFacts DEF BbsLine, InLine
  <1>3. SessionTypeOK'
    BY <1>1, <1>2, EmptySeq DEF SessionTypeOK, InLine, Ended, AllBytes
  <1>4. DialogueInv' /\ RouteInv'
    BY <1>1, <1>2 DEF DialogueInv, RouteInv, InReply, ListAskedFor, TimeoutNeverAbandons
  <1>5. LinesInv'
    BY <1>1, <1>2 DEF LinesInv, InReply, BeforeReply
  <1> QED
    BY <1>3, <1>4, <1>5

\* With exceptions only bbs_mode waits for a line, and it goes on after a timeout.
LEMMA LineTimesOutStep ==
  ASSUME SessionInv, LineTimesOut
  PROVE  SessionInv'
  <1> USE DEF SessionInv
  <1>1. stage = "bbs"
    BY DEF LineTimesOut, LineThrows, InLine, DialogueInv
  <1>2. /\ stage' = "list" /\ io' = {"fail"} /\ line' = <<>> /\ cr' = FALSE
        /\ visible' = Len(buf)
        /\ UNCHANGED <<buf, received, broken, throws, inWord, node, route, sent, bbs, lines, endings,
                       lastCR, previous>>
    BY <1>1 DEF LineTimesOut, LineThrows, Timeout, history
  <1>3. SessionTypeOK'
    <2>1. visible' \in 0 .. Len(buf')
      BY <1>2, BufferTypes
    <2>2. line' \in Seq(Words \cup {Slash, Prompt, Text})
      BY <1>2, EmptySeq
    <2> QED
      BY <1>2, <2>1, <2>2 DEF SessionTypeOK, InLine, Ended
  <1>4. DialogueInv' /\ RouteInv'
    BY <1>1, <1>2 DEF DialogueInv, RouteInv, InReply, ListAskedFor, TimeoutNeverAbandons
  <1>5. LinesInv'
    BY <1>1, <1>2 DEF LinesInv, InReply, BeforeReply
  <1> QED
    BY <1>3, <1>4, <1>5

LEMMA BeginJLStep ==
  ASSUME SessionInv, BeginJL
  PROVE  SessionInv'
  <1> USE DEF SessionInv
  <1>1. /\ stage = "list" /\ throws' = FALSE
        /\ \/ stage' = "first" /\ io' = {} /\ sent' = Append(sent, "JL") /\ broken' = broken
           \/ stage' = "complete" /\ io' = {"bad"} /\ broken' = TRUE /\ sent' = sent
        /\ UNCHANGED <<buf, visible, received, inWord, line, cr, node, route, bbs, lines, endings,
                       lastCR, previous>>
    <2>1. {} # {"bad"}
      OBVIOUS
    <2> QED
      BY <2>1 DEF BeginJL, SendCommand, JLState, JLThrows, history
  <1>2. sent \in Seq({"BBS", "JL"}) /\ Len(sent) <= 1
    BY <1>1 DEF SessionTypeOK, DialogueInv
  <1>3. /\ Append(sent, "JL") \in Seq({"BBS", "JL"}) /\ Len(Append(sent, "JL")) <= 2
        /\ Append(sent, "JL") # <<>>
        /\ Append(sent, "JL")[Len(Append(sent, "JL"))] = "JL"
    BY <1>2, AppendProperties
  <1>4. SessionTypeOK'
    BY <1>1, <1>2, <1>3 DEF SessionTypeOK, InLine, Ended
  <1>5. DialogueInv' /\ RouteInv'
    BY <1>1, <1>3 DEF DialogueInv, RouteInv, InReply, ListAskedFor, TimeoutNeverAbandons
  <1>6. LinesInv'
    BY <1>1 DEF LinesInv, InReply, BeforeReply
  <1> QED
    BY <1>4, <1>5, <1>6

LineBytes == Words \cup {Slash, Prompt, Text}

\* The loop waits for another line only on a stream that has not failed, and takes one for
\* a route only behind a line with a callsign, which is the current node's.
LEMMA JLLineFacts ==
  ASSUME SessionTypeOK, RouteInv, JLLine
  PROVE  /\ stage' \in {"first", "next", "via", "complete"} /\ cr' = FALSE
         /\ stage' \in {"first", "next"} => io' = {}
         /\ line' \in Seq(LineBytes)
         /\ node' \in Words \cup {None} /\ previous' \in Words \cup {None}
         /\ stage' \in {"next", "via"} => node' # None /\ node' = previous'
  <1> DEFINE parsed == ParseCallsign(line)
  <1>1. line \in Seq(LineBytes) /\ line \in Seq(AllBytes)
    BY ByteFacts DEF SessionTypeOK, LineBytes
  <1>2. parsed.call \in Words \cup {None}
    BY <1>1, ParsedCall
  <1>3. parsed.rest \in Seq(LineBytes) /\ <<>> \in Seq(LineBytes)
    BY <1>1, ParsedRest, EmptySeq
  <1>4. /\ node \in Words \cup {None} /\ previous \in Words \cup {None}
        /\ stage = "next" => node # None /\ node = previous
    BY DEF SessionTypeOK, RouteInv
  <1>5. /\ previous' = IF stage' = "via" THEN previous ELSE parsed.call
        /\ cr' = FALSE
    BY DEF JLLine
  <1> DEFINE Looped == /\ stage' = IF io' = {} THEN "first" ELSE "complete"
                       /\ line' = <<>> /\ node' = node
             Fetched == /\ node' = parsed.call /\ parsed.call # None /\ line' = <<>>
                        /\ \/ stage' = "complete"
                           \/ stage' = "next" /\ io' = {}
             Stopped == stage' = "complete" /\ line' = <<>> /\ node' = node
             Routed == /\ stage = "next" /\ stage' = "via"
                       /\ line' = parsed.rest /\ node' = node
  <1>6. ASSUME NEW rest, parsed.call # None, Fetch(parsed.call, rest)
        PROVE  Fetched
    BY <1>6 DEF Fetch
  <1>7. Looped \/ Fetched \/ Stopped \/ Routed
    <2>1. CASE FirstLine
      BY <1>6, <2>1 DEF FirstLine, Loop
    <2>2. CASE stage = "next" /\ NextLine
      BY <1>6, <2>2 DEF NextLine, NoCallsign, Loop
    <2> QED
      BY <2>1, <2>2 DEF JLLine
  <1> HIDE DEF parsed
  <1>8. stage' \in {"first", "next", "via", "complete"} /\ (stage' \in {"first", "next"} => io' = {})
    BY <1>7
  <1>9. line' \in Seq(LineBytes)
    BY <1>3, <1>7
  <1>10. node' \in Words \cup {None} /\ previous' \in Words \cup {None}
    BY <1>2, <1>4, <1>5, <1>7
  <1>11. stage' \in {"next", "via"} => node' # None /\ node' = previous'
    BY <1>4, <1>5, <1>7
  <1> QED
    BY <1>5, <1>8, <1>9, <1>10, <1>11

LEMMA JLLineStep ==
  ASSUME SessionInv, JLLine
  PROVE  SessionInv'
  <1> USE DEF SessionInv
  <1>1. /\ InReply /\ InLine /\ stage \in {"first", "next"}
        /\ stage' \in {"first", "next", "via", "complete"} /\ cr' = FALSE
        /\ stage' \in {"first", "next"} => io' = {}
        /\ line' \in Seq(Words \cup {Slash, Prompt, Text})
        /\ node' \in Words \cup {None} /\ previous' \in Words \cup {None}
        /\ stage' \in {"next", "via"} => node' # None /\ node' = previous'
        /\ UNCHANGED <<throws, inWord, route, sent, bbs>>
    BY JLLineFacts DEF JLLine, InReply, InLine, LineBytes
  <1>2. ~throws /\ sent # <<>> /\ sent[Len(sent)] = "JL"
    BY <1>1 DEF DialogueInv
  <1>3. CASE LineEnds /\ lines' = lines + 1
    <2>1. /\ UNCHANGED <<io, received, broken>>
          /\ buf' \in Seq(AllBytes) /\ visible' \in 0 .. Len(buf')
          /\ endings' \in 0 .. ReceiveLimit /\ endings' = lines'
          /\ endings' + Len(buf') <= received' /\ lastCR' \in BOOLEAN
          /\ lastCR' => visible' > 0 /\ Head(buf') # LF
      BY <1>1, <1>3, LineEndsFacts
    <2>2. io = {}
      BY <1>1 DEF SessionTypeOK
    <2>3. SessionTypeOK'
      BY <1>1, <1>2, <2>1, <2>2, EmptySeq DEF SessionTypeOK, InLine, Ended, AllBytes
    <2>4. DialogueInv' /\ RouteInv'
      BY <1>1, <1>2, <2>1 DEF DialogueInv, RouteInv, InReply, ListAskedFor,
           TimeoutNeverAbandons
    <2>5. LinesInv'
      <3>1. lines' <= endings' /\ lines' = endings' /\ ~cr'
        BY <1>1, <2>1
      <3> QED
        BY <1>1, <2>1, <3>1 DEF LinesInv, InReply, BeforeReply
    <2> QED
      BY <2>3, <2>4, <2>5
  <1>4. CASE LineCut /\ lines' = lines + (IF cr THEN 1 ELSE 0)
    <2>1. /\ io' \subseteq {"eof", "fail", "bad"} /\ io' # {}
          /\ visible' = Len(buf) /\ broken' \in BOOLEAN /\ (broken => broken')
          /\ UNCHANGED <<buf, received, endings, lastCR>>
      <3>1. broken \in BOOLEAN
        BY DEF SessionTypeOK
      <3>2. io' \in {{"bad", "fail"}, {"fail"}, {"eof", "fail"}}
        BY <1>4 DEF LineCut
      <3>3. broken' \in BOOLEAN /\ (broken => broken')
        <4>1. broken' = broken \/ broken' = TRUE
          BY <1>4 DEF LineCut, Timeout, Break
        <4> QED
          BY <3>1, <4>1
      <3> QED
        BY <1>4, <3>2, <3>3 DEF LineCut, Timeout, Break
    <2>2. stage' \in {"via", "complete"} /\ ~InReply'
      BY <1>1, <2>1 DEF InReply
    <2>3. lines' <= endings /\ lines' \in 0 .. ReceiveLimit
          /\ endings + Len(buf) <= received
      BY <1>1, <1>4, BufferTypes DEF LinesInv, SessionTypeOK
    <2>4. SessionTypeOK'
      <3>1. visible' \in 0 .. Len(buf')
        BY <2>1, BufferTypes
      <3> QED
        BY <1>1, <1>2, <2>1, <2>2, <2>3, <3>1 DEF SessionTypeOK, InLine, Ended
    <2>5. DialogueInv' /\ RouteInv'
      BY <1>1, <1>2, <2>1, <2>2 DEF DialogueInv, RouteInv, InReply, ListAskedFor,
           TimeoutNeverAbandons
    <2>6. LinesInv'
      BY <1>1, <2>1, <2>2, <2>3 DEF LinesInv, InReply, BeforeReply
    <2> QED
      BY <2>4, <2>5, <2>6
  <1> QED
    BY <1>3, <1>4 DEF JLLine

LEMMA RouteWordStep ==
  ASSUME SessionInv, RouteWord
  PROVE  SessionInv'
  <1> USE DEF SessionInv
  <1>1. /\ stage = "via" /\ ParseCallsign(line).call # None
        /\ route' = Append(route, ParseCallsign(line).call)
        /\ line' = ParseCallsign(line).rest
        /\ UNCHANGED <<stage, io, throws, buf, visible, received, broken, inWord, cr, node, sent,
                       bbs, lines, endings, lastCR, previous>>
    BY DEF RouteWord, streamVars, history
  <1>2. route' \in Seq(Words)
    <2>1. line \in Seq(AllBytes)
      BY ByteFacts DEF SessionTypeOK
    <2>2. ParseCallsign(line).call \in Words
      BY <1>1, <2>1, ParsedCall
    <2> QED
      BY <1>1, <2>2, AppendProperties DEF SessionTypeOK
  <1>3. line' \in Seq(Words \cup {Slash, Prompt, Text})
    BY <1>1, ParsedRest DEF SessionTypeOK
  <1>4. SessionTypeOK'
    BY <1>1, <1>2, <1>3 DEF SessionTypeOK, InLine, Ended
  <1>5. DialogueInv' /\ RouteInv'
    BY <1>1 DEF DialogueInv, RouteInv, InReply, ListAskedFor, TimeoutNeverAbandons
  <1>6. LinesInv'
    BY <1>1 DEF LinesInv, InReply, BeforeReply
  <1> QED
    BY <1>4, <1>5, <1>6

LEMMA RouteEndStep ==
  ASSUME SessionInv, RouteEnd
  PROVE  SessionInv'
  <1> USE DEF SessionInv
  <1>1. /\ stage = "via" /\ line' = <<>>
        /\ stage' = IF io' = {} THEN "first" ELSE "complete"
        /\ route' = Append(route, node) /\ previous' = Via
        /\ UNCHANGED <<io, throws, buf, visible, received, broken, inWord, cr, node, sent, bbs,
                       lines, endings, lastCR>>
    BY DEF RouteEnd, Loop, streamVars
  <1>2. route' \in Seq(Words) /\ Via \in Words
    <2>1. node \in Words /\ route \in Seq(Words)
      BY <1>1 DEF SessionTypeOK
    <2> QED
      BY <1>1, <2>1, AppendProperties DEF Words
  <1>3. SessionTypeOK'
    BY <1>1, <1>2, EmptySeq DEF SessionTypeOK, InLine, Ended
  <1>4. DialogueInv' /\ RouteInv'
    BY <1>1 DEF DialogueInv, RouteInv, InReply, ListAskedFor, TimeoutNeverAbandons
  <1>5. LinesInv'
    BY <1>1 DEF LinesInv, InReply, BeforeReply
  <1> QED
    BY <1>3, <1>4, <1>5

-----------------------------------------------------------------------------
LEMMA SessionStep ==
  ASSUME SessionInv, [Next]_vars
  PROVE  SessionInv'
  <1>1. CASE UNCHANGED vars
    <2>1. UNCHANGED <<stage, io, throws, buf, visible, received, broken, inWord, line, cr, node,
                      route, sent, bbs, lines, endings, lastCR, previous>>
      BY <1>1 DEF vars, streamVars, history
    <2>2. SessionTypeOK'
      BY <2>1 DEF SessionInv, SessionTypeOK, InLine, Ended
    <2>3. DialogueInv' /\ RouteInv' /\ LinesInv'
      BY <2>1 DEF SessionInv, DialogueInv, RouteInv, InReply, ListAskedFor,
           TimeoutNeverAbandons, LinesInv, BeforeReply
    <2> QED
      BY <2>2, <2>3 DEF SessionInv
  <1> QED
    BY <1>1, ConnectStep, ArriveStep, EatStep, EatEndsStep, BreakStep, AddToLineStep,
       CarriageReturnStep, BbsLineStep, LineTimesOutStep, BeginJLStep, JLLineStep,
       RouteWordStep, RouteEndStep
       DEF Next, Step

LEMMA SessionInvariant == Spec => []SessionInv
  BY SessionInit, SessionStep, PTL DEF Spec

\* Session's types, among them that a route is only looked for behind a node, that no
\* more than the two commands are sent and that nothing is read from a failed stream.
THEOREM SessionTypes == Spec => []SessionTypeOK
  <1>1. SessionInv => SessionTypeOK
    BY DEF SessionInv
  <1> QED
    BY <1>1, SessionInvariant, PTL

\* Whatever the node sends and however its packets cut it, my_getline makes one line
\* of each ending of the reply to J L: a byte that is put back is seen again, and a line
\* feed behind a carriage return that ends a packet is not taken for a second ending.
THEOREM LinesAreWhole == Spec => []LinesMatchEndings
  <1>1. SessionInv => LinesMatchEndings
    <2> SUFFICES ASSUME SessionInv, InReply
                 PROVE  lines = endings - (IF cr THEN 1 ELSE 0)
      BY DEF LinesMatchEndings, InReply
    <2>1. lines \in Nat /\ endings \in Nat
      BY BufferTypes DEF SessionInv
    <2> QED
      BY <2>1 DEF SessionInv, LinesInv
  <1> QED
    BY <1>1, SessionInvariant, PTL

\* Whatever the lines say, a route that is added to the vector ends with the callsign of
\* the line before it: there is no way to look for a route with the node of an earlier one.
THEOREM RoutesGoToTheirNode == Spec => RouteOfPreviousLine
  <1>1. SessionInv /\ [Next]_vars =>
          [route' # route /\ stage' # "via" => route'[Len(route')] = previous]_vars
    <2> SUFFICES ASSUME SessionInv, Next, route' # route, stage' # "via"
                 PROVE  route'[Len(route')] = previous
      OBVIOUS
    <2>1. RouteEnd
      BY DEF Next, Step, ConnectFails, Connect, Arrive, Eat, EatEnds, EatBreaks, AddToLine,
             CarriageReturn, BbsLine, LineTimesOut, LineBreaks, BeginJL, JLLine, RouteWord,
             Abandon
    <2>2. stage = "via" /\ route' = Append(route, node)
      BY <2>1 DEF RouteEnd
    <2>3. route \in Seq(Words) /\ node \in Words /\ node = previous
      BY <2>2 DEF SessionInv, SessionTypeOK, RouteInv
    <2> QED
      BY <2>2, <2>3, AppendProperties
  <1> QED
    BY <1>1, SessionInvariant, PTL DEF Spec, RouteOfPreviousLine

\* A session that completes has asked for the list, although eat_stream and bbs_mode leave
\* error bits in the stream: try_j_l_command clears them and its exceptions.
THEOREM ListsAreAskedFor == Spec => []ListAskedFor
  <1>1. SessionInv => ListAskedFor
    BY DEF SessionInv, DialogueInv
  <1> QED
    BY <1>1, SessionInvariant, PTL

\* A session with a node that was reached is abandoned only for a connection that failed,
\* never for one that was silent.
THEOREM SilenceIsSurvived == Spec => []TimeoutNeverAbandons
  <1>1. SessionInv => TimeoutNeverAbandons
    BY DEF SessionInv, DialogueInv
  <1> QED
    BY <1>1, SessionInvariant, PTL
=============================================================================
