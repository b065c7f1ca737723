------------------------------- MODULE Session -------------------------------
(***************************************************************************)
(* node_task (baw.cpp): the dialogue of a worker with one remote node.     *)
(* What the node sends when it is first reached is discarded, until a      *)
(* receive timeout; a BBS command is sent and its reply read for a prompt;  *)
(* a J L command is sent and the list of nodes and routes read from its    *)
(* reply.                                                                  *)
(*                                                                         *)
(* The node sends packets of bytes.  A callsign, "VIA" and a text with a   *)
(* slash are long texts and stand for all their bytes; the others are one  *)
(* byte, and a packet ends with one of these.  Socket::read reports a      *)
(* timeout as the end of the file, and Filestreambuf keeps the last byte it *)
(* has received out of sight until it has called read again.               *)
(***************************************************************************)
EXTENDS Integers, Sequences, FiniteSetsExt

CONSTANTS
    Calls,          \* callsigns, or any other words that look like one
    Via, Slash,     \* the word VIA; a text with a slash, as dates have
    Prompt, Text,   \* '>'; any other byte that is not blank
    CR, LF,
    None,           \* no callsign
    PacketLimit, LineLimit, ReceiveLimit    \* bounds of what the node sends

Words == Calls \cup {Via}
Blanks == {CR, LF}
Bytes == {Prompt, Text} \cup Blanks

ASSUME TokensAssumption ==
    /\ None \notin Words
    /\ Slash \notin Words \cup Bytes
    /\ Words \cap Bytes = {}
    /\ CR # LF /\ {Prompt, Text} \cap Blanks = {}

ASSUME LimitsAssumption == {PacketLimit, LineLimit, ReceiveLimit} \subseteq Nat

VARIABLES
    stage,      \* where node_task::run() is
    io,         \* rdstate() of the stream
    throws,     \* its exceptions(): eof and bad, or none
    buf,        \* received and not yet read
    visible,    \* bytes of buf between the get pointers
    inWord,     \* operator>> has extracted something
    line,       \* line, of bbs_mode and try_j_l_command
    cr,         \* my_getline has read a carriage return
    node,       \* current_node
    route,      \* route, which is never cleared between two nodes
    sent,       \* the commands that were sent
    bbs,        \* what bbs_mode returned
    received,   \* history: bytes received
    broken,     \* history: the connection failed
    lines,      \* history: lines my_getline returned of the reply to J L
    endings,    \* history: line endings read of it
    lastCR,     \* history: the last byte read of it is a carriage return
    previous    \* history: the first callsign of the line before this one

streamVars == <<io, throws, buf, visible, received, broken>>
history == <<lines, endings, lastCR, previous>>
vars == <<stage, streamVars, inWord, line, cr, node, route, sent, bbs, history>>

Init ==
    /\ stage = "connect"
    /\ io = {} /\ throws = FALSE
    /\ buf = <<>> /\ visible = 0 /\ received = 0 /\ broken = FALSE
    /\ inWord = FALSE /\ line = <<>> /\ cr = FALSE
    /\ node = None /\ route = <<>> /\ sent = <<>> /\ bbs = FALSE
    /\ lines = 0 /\ endings = 0 /\ lastCR = FALSE /\ previous = None

-----------------------------------------------------------------------------
(* The stream.                                                             *)

\* update_gptrs, after a read of the socket.
Seen(b) == IF Len(b) > 1 THEN Len(b) - 1 ELSE Len(b)

Packets == {p \in UNION {[1 .. n -> Words \cup {Slash} \cup Bytes] : n \in 1 .. PacketLimit} :
                p[Len(p)] \in Bytes}

Reading == stage \in {"eat", "bbs", "first", "next"} /\ io = {}

\* The program waits in recv, and a packet arrives.
Arrive ==
    /\ Reading /\ visible = 0 /\ ~broken
    /\ \E p \in Packets :
        /\ Len(line) + Len(buf) + Len(p) <= LineLimit
        /\ received + Len(p) <= ReceiveLimit
        /\ buf' = buf \o p
        /\ received' = received + Len(p)
    /\ visible' = Seen(buf')
    /\ UNCHANGED <<stage, io, throws, broken, inWord, line, cr, node, route, sent, bbs, history>>

\* The next byte is read.
Take(b) ==
    /\ Reading /\ visible > 0
    /\ b = Head(buf)
    /\ buf' = Tail(buf) /\ visible' = visible - 1
    /\ UNCHANGED <<io, received, broken>>

\* Nothing comes in time.  What was kept back comes into sight.
Timeout ==
    /\ Reading /\ visible = 0
    /\ visible' = Len(buf)
    /\ UNCHANGED <<buf, received, broken>>

\* recv fails.
Break ==
    /\ Reading /\ visible = 0
    /\ broken' = TRUE
    /\ visible' = Len(buf)
    /\ UNCHANGED <<buf, received>>

\* send_command: the ostream writes nothing unless its state is good.  The
\* connection may fail here too.
SendCommand(state, cmd) ==
    IF state # {}
    THEN io' = state /\ UNCHANGED <<sent, broken>>
    ELSE \/ io' = {} /\ sent' = Append(sent, cmd) /\ UNCHANGED broken
         \/ io' = {"bad"} /\ broken' = TRUE /\ UNCHANGED sent

-----------------------------------------------------------------------------
(* run(), eat_stream() and bbs_mode().                                     *)

\* operator() catches what a stage throws and abandons the node.
Abandon ==
    /\ stage' = "abandoned"
    /\ UNCHANGED <<throws, inWord, line, cr, node, route, sent, bbs, history>>

\* The address is invalid, or bind or connect fails; or the node is reached.
ConnectFails ==
    /\ stage = "connect"
    /\ Abandon
    /\ UNCHANGED <<io, buf, visible, received, broken>>

Connect ==
    /\ stage = "connect"
    /\ stage' = "eat"
    /\ throws' = TRUE
    /\ UNCHANGED <<io, buf, visible, received, broken, inWord, line, cr, node, route,
                   sent, bbs, history>>

Eat ==
    /\ stage = "eat"
    /\ \E b \in Words \cup {Slash} \cup Bytes :
        /\ Take(b)
        /\ inWord' = (b \notin Blanks)
    /\ UNCHANGED <<stage, throws, line, cr, node, route, sent, bbs, history>>

\* eat_stream's handler clears eofbit alone.
EatLeaves(state) == state \ {"eof"}

\* operator>> sets failbit, too, if it has extracted nothing.  bbs_mode sends
\* its command, and returns at once if the stream is not good.
EatEnds ==
    /\ stage = "eat"
    /\ Reading /\ visible = 0
    /\ visible' = Len(buf)
    /\ LET left == EatLeaves(IF inWord THEN {"eof"} ELSE {"eof", "fail"}) IN
        /\ SendCommand(left, "BBS")
        /\ IF io' = {"bad"}
           THEN stage' = "abandoned"
           ELSE stage' = IF left = {} THEN "bbs" ELSE "list"
    /\ inWord' = FALSE
    /\ UNCHANGED <<throws, buf, received, line, cr, node, route, bbs, history>>

EatBreaks ==
    /\ stage = "eat"
    /\ Break
    /\ io' = {"bad"}
    /\ Abandon

-----------------------------------------------------------------------------
(* my_getline().                                                           *)

Counted(b) ==
    IF stage \in {"first", "next"}
    THEN /\ endings' = endings + (IF b = CR \/ (b = LF /\ ~lastCR) THEN 1 ELSE 0)
         /\ lastCR' = (b = CR)
    ELSE UNCHANGED <<endings, lastCR>>

InLine == stage \in {"bbs", "first", "next"}

AddToLine ==
    /\ InLine /\ ~cr
    /\ \E b \in Words \cup {Slash, Prompt, Text} :
        /\ Take(b)
        /\ line' = Append(line, b)
        /\ Counted(b)
    /\ UNCHANGED <<stage, throws, inWord, cr, node, route, sent, bbs, lines, previous>>

CarriageReturn ==
    /\ InLine /\ ~cr
    /\ Take(CR)
    /\ cr' = TRUE
    /\ Counted(CR)
    /\ UNCHANGED <<stage, throws, inWord, line, node, route, sent, bbs, lines, previous>>

\* Mutant: the byte after a carriage return is not put back.
NextByteEaten == \E b \in Words \cup {Slash} \cup Bytes : Take(b) /\ Counted(b)

\* The byte after a carriage return is read, and put back unless it is a line
\* feed.
LineFeedEaten ==
    \/ Take(LF) /\ Counted(LF)
    \/ /\ Reading /\ visible > 0 /\ Head(buf) # LF
       /\ UNCHANGED <<io, buf, visible, received, broken, endings, lastCR>>

\* my_getline returns a line that has ended.
LineEnds ==
    \/ ~cr /\ Take(LF) /\ Counted(LF)
    \/ cr /\ LineFeedEaten

\* With exceptions, a timeout throws what has come of the line away, and one
\* after a carriage return a whole line.
LineThrows ==
    /\ throws
    /\ Timeout
    /\ io' = {"fail"}

\* Without, it returns what has come of the line.
LineCut ==
    /\ ~throws
    /\ Timeout \/ Break
    /\ io' = IF broken' THEN {"bad", "fail"}
             ELSE IF cr THEN {"fail"} ELSE {"eof", "fail"}
    /\ UNCHANGED <<endings, lastCR>>

IsBbsPrompt(l) == l # <<>> /\ l[Len(l)] = Prompt

BbsLine ==
    /\ stage = "bbs"
    /\ LineEnds
    /\ bbs' = IsBbsPrompt(line)
    /\ stage' = IF bbs' THEN "list" ELSE "bbs"
    /\ line' = <<>> /\ cr' = FALSE
    /\ UNCHANGED <<throws, inWord, node, route, sent, lines, previous>>

\* bbs_mode catches what a timeout throws, and nothing else; try_j_l_command
\* catches nothing.
LineTimesOut ==
    /\ InLine
    /\ LineThrows
    /\ stage' = IF stage = "bbs" THEN "list" ELSE "abandoned"
    /\ line' = <<>> /\ cr' = FALSE
    /\ UNCHANGED <<throws, inWord, node, route, sent, bbs, history>>

LineBreaks ==
    /\ InLine /\ throws
    /\ Break
    /\ io' = {"bad"}
    /\ Abandon

-----------------------------------------------------------------------------
(* try_j_l_command().                                                      *)

\* Mutant: the stream goes on throwing.
KeepsThrowing == throws

JLThrows == FALSE

\* Mutant: the command is sent before the state is cleared.
StateAsLeft == io

JLState == {}

BeginJL ==
    /\ stage = "list"
    /\ throws' = JLThrows
    /\ SendCommand(JLState, "JL")
    /\ stage' = IF io' = {} THEN "first" ELSE IF throws' THEN "abandoned" ELSE "complete"
    /\ UNCHANGED <<buf, visible, received, inWord, line, cr, node, route, bbs, history>>

\* parse_callsign: the first word that no slash comes before, counting from the
\* word before it; and the rest of the text, which has no word if none is found.
ParseCallsign(s) ==
    LET found == {i \in DOMAIN s : s[i] \in Words}
        from(i) == Max({0} \cup {j \in found : j < i}) + 1
        plain == {i \in found : \A k \in from(i) .. i : s[k] # Slash}
        at == IF plain # {} THEN Min(plain) ELSE Max({0} \cup found)
    IN [call |-> IF plain # {} THEN s[at] ELSE None,
        rest |-> SubSeq(s, at + 1, Len(s))]

\* Mutant: the loop goes on when the stream has failed.
LoopOn == stage' = "first" /\ line' = <<>> /\ UNCHANGED node

\* The top of the loop: the stream has failed, or the next line is read.
Loop ==
    /\ stage' = IF io' = {} THEN "first" ELSE "complete"
    /\ line' = <<>>
    /\ UNCHANGED node

\* A node's line: its callsign has been taken, one more may follow it.
Fetch(call, rest) ==
    LET forward == ParseCallsign(rest)
        third == ParseCallsign(forward.rest)
    IN /\ node' = call
       /\ line' = <<>>
       \* On a stream that has failed the line after it reads as empty.
       /\ stage' = IF third.call # None \/ io' # {} THEN "complete" ELSE "next"

FirstLine ==
    IF IsBbsPrompt(line) THEN stage' = "complete" /\ line' = <<>> /\ UNCHANGED node
    ELSE LET p == ParseCallsign(line) IN
         IF p.call = None THEN Loop ELSE Fetch(p.call, p.rest)

\* Mutant: a line without a callsign is passed over.
PassOver ==
    /\ stage' = IF io' = {} THEN "next" ELSE "complete"
    /\ line' = <<>>
    /\ UNCHANGED node

NoCallsign == Loop

\* The line after a node's: a route, or a line of the next node's, which is
\* taken up again if there is any text after its callsign, and else lost.
NextLine ==
    LET p == ParseCallsign(line) IN
    IF IsBbsPrompt(line) THEN stage' = "complete" /\ line' = <<>> /\ UNCHANGED node
    ELSE IF p.call = None THEN NoCallsign
    ELSE IF p.call = Via THEN stage' = "via" /\ line' = p.rest /\ UNCHANGED node
    ELSE IF io' = {} /\ p.rest # <<>> THEN Fetch(p.call, p.rest)
    ELSE Loop

JLLine ==
    /\ stage \in {"first", "next"}
    /\ \/ LineEnds /\ lines' = lines + 1
       \/ LineCut /\ lines' = lines + (IF cr THEN 1 ELSE 0)
    /\ \/ stage = "first" /\ FirstLine
       \/ stage = "next" /\ NextLine
    /\ cr' = FALSE
    /\ previous' = IF stage' = "via" THEN previous ELSE ParseCallsign(line).call
    /\ UNCHANGED <<throws, inWord, route, sent, bbs>>

\* The words that follow VIA are appended to the route one by one, and then the
\* node it leads to.
RouteWord ==
    /\ stage = "via"
    /\ LET p == ParseCallsign(line) IN
        /\ p.call # None
        /\ route' = Append(route, p.call)
        /\ line' = p.rest
    /\ UNCHANGED <<stage, streamVars, throws, inWord, cr, node, sent, bbs, history>>

RouteEnd ==
    /\ stage = "via"
    /\ ParseCallsign(line).call = None
    /\ route' = Append(route, node)
    /\ UNCHANGED <<streamVars, throws, inWord, cr, sent, bbs, lines, endings, lastCR>>
    /\ Loop
    /\ previous' = Via

-----------------------------------------------------------------------------
Step ==
    \/ ConnectFails \/ Connect
    \/ Arrive
    \/ Eat \/ EatEnds \/ EatBreaks
    \/ AddToLine \/ CarriageReturn
    \/ BbsLine \/ LineTimesOut \/ LineBreaks
    \/ BeginJL \/ JLLine \/ RouteWord \/ RouteEnd

Next == Step

\* recv returns when something arrives, the connection fails or the timeout
\* ends, and the program goes on.
Spec == Init /\ [][Next]_vars /\ WF_vars(Next)
-----------------------------------------------------------------------------
Ended == stage \in {"complete", "abandoned"}

SessionTypeOK ==
    /\ stage \in {"connect", "eat", "bbs", "list", "first", "next", "via"} \/ Ended
    /\ io \subseteq {"eof", "fail", "bad"} /\ (InLine => io = {})
    /\ buf \in Seq(Words \cup {Slash} \cup Bytes)
    /\ line \in Seq(Words \cup {Slash, Prompt, Text})
    /\ visible \in 0 .. Len(buf) /\ received \in 0 .. ReceiveLimit
    /\ {throws, inWord, cr, bbs, broken, lastCR} \subseteq BOOLEAN
    /\ node \in Words \cup {None} /\ (stage \in {"next", "via"} => node # None)
    /\ route \in Seq(Words)
    /\ sent \in Seq({"BBS", "JL"}) /\ Len(sent) <= 2
    /\ lines \in 0 .. ReceiveLimit /\ endings \in 0 .. ReceiveLimit
    /\ previous \in Words \cup {None}

\* my_getline returns one line for each line ending of the reply, a carriage
\* return, a line feed or the two together, however the packets cut it: no line
\* is split in two, merged with the next one, or made of half an ending.
LinesMatchEndings ==
    stage \in {"first", "next"} => lines = endings - (IF cr THEN 1 ELSE 0)

\* The node that closes a route is the callsign that begins the line just before it,
\* whatever lines without one, prompts or nodes came between two routes.  (The routes
\* themselves stand one behind the other in the one vector.)
RouteOfPreviousLine ==
    [][route' # route /\ stage' # "via" => route'[Len(route')] = previous]_vars

\* Whatever state eat_stream and bbs_mode leave the stream in, a session that
\* completes has asked for the list of nodes, unless the connection failed.
ListAskedFor == (stage = "complete" /\ ~broken) => sent # <<>> /\ sent[Len(sent)] = "JL"

\* Once a node has been reached, it is abandoned only when the connection fails:
\* a timeout ends a stage and never the session.
TimeoutNeverAbandons == (stage = "abandoned" /\ throws) => broken

\* Every session ends when the node falls silent.
SessionEnds == <>Ended

\* "Fetch the next line which should either start with "VIA", or represent the next
\* node to process": a line that begins with a callsign is not passed over.
NoNodePassedOver == stage = "first" => previous \in {None, Via}

\* "Send the typical BBS-mode command, which is "BBS"": the list is not asked
\* for before.
BbsSent == stage \in {"first", "next"} => \E i \in DOMAIN sent : sent[i] = "BBS"
=============================================================================
