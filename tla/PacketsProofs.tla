--------------------------- MODULE PacketsProofs ----------------------------
(***************************************************************************)
(* What is proved of Packets, for any number of requests, messages, modes, *)
(* lengths, lines and users.  As long as the protocol bears it (two        *)
(* packets damaged or answered late, or one acknowledged late) the server  *)
(* deals with each request once, gdb takes the answer to it and no other,  *)
(* and the program does not run behind gdb's back.  One fault more may be  *)
(* gdb's third try, after which it goes on as if it had been answered, or  *)
(* the third copy of a request, which the server takes for a new one.      *)
(*                                                                         *)
(* PInv holds while there is one copy of gdb's packet on the line, BInv    *)
(* on a busy line, where there may be two.                                 *)
(***************************************************************************)
EXTENDS Packets, FunctionTheorems, FiniteSetTheorems, SequenceTheorems, TLAPS

(* What the server has not looked at yet. *)
Inbox == cache \o up

(* A + or - ; what is or was a packet of gdb. *)
Signs         == {"+", "-"}
IsSign(item)  == item.is \in Signs
Carries(item) == item.is \in Requests \cup {"bad"}

(* To the server goes no other packet than gdb's last one.                 *)
InboxKinds ==
    \A i \in 1 .. Len(Inbox) : Inbox[i].is \in {"+", "-", "^C", "bad"} \/ Inbox[i] = out
DownKinds ==
    \A i \in 1 .. Len(down) : down[i].is \in Signs \cup Replies \cup {"bad"}

(* Behind gdb's packet come only the + for old ones; of the packet and the *)
(* + or - for it there is one at most, and none once gdb has it.           *)
OneRequest ==
    \A i, j \in 1 .. Len(Inbox) : i < j /\ Carries(Inbox[i]) => Inbox[j].is = "+"
OneSign ==
    \A i, j \in 1 .. Len(down) : i < j => ~IsSign(down[i]) \/ ~IsSign(down[j])
NotBoth ==
    \/ \A i \in 1 .. Len(Inbox) : ~Carries(Inbox[i])
    \/ \A i \in 1 .. Len(down) : ~IsSign(down[i])
NoneLeft ==
    gdb # "send" => /\ \A i \in 1 .. Len(Inbox) : ~Carries(Inbox[i])
                    /\ \A i \in 1 .. Len(down) : ~IsSign(down[i])

OnTheLines == InboxKinds /\ DownKinds /\ OneRequest /\ OneSign /\ NotBoth /\ NoneLeft

(* The server has taken gdb's packet. *)
Delivered == gdb # "send" \/ \E i \in 1 .. Len(down) : down[i].is = "+"

(* gdb will not gobble up the packet at i on its way to the +.             *)
Fresh(i) ==
    /\ ~IsSign(down[i])
    /\ gdb # "send" \/ out.is \in {"m", "F"} \/ \E j \in 1 .. i - 1 : down[j].is = "+"

(* Where gdb is with its request, and the server when gdb has none.        *)
Turn ==
    /\ out.of = IF out.is \in {"ask", "c"} THEN asked ELSE 0
    /\ gdb = "answer" => out.is \in {"ask", "m"}
    /\ gdb = "wait" => out.is \in {"c", "F"}
    /\ IF gdb = "idle" THEN took = asked ELSE took + 1 = asked
    /\ gdb = "idle" => at \in {"get", "put"} /\ then = "prompt" /\ handled = asked

(* Where the server is before it has the request.                          *)
Unseen ==
    out.is \in {"ask", "c"} /\ ~Delivered =>
        at \in {"get", "put"} /\ then = "prompt" /\ handled + 1 = asked

(* It has been asked something: what gdb may still take is the answer.     *)
Answering ==
    out.is = "ask" /\ Delivered =>
        /\ then = "prompt" /\ at \in {"work", "put", "get"}
        /\ at = "work" =>
              /\ handled + 1 = asked /\ reply = Item("reply", asked)
              /\ \A i \in 1 .. Len(down) : ~Fresh(i)
        /\ at # "work" =>
              /\ handled = asked
              /\ at = "put" => reply = Item("reply", asked)
              /\ \A i \in 1 .. Len(down) :
                    Fresh(i) => down[i].is = "bad" \/ down[i] = Item("reply", asked)

Asked ==
    /\ Answering
    /\ out.is = "ask" /\ Delivered => \A i \in 1 .. Len(Inbox) : IsSign(Inbox[i])

(* The program was continued: what stops gdb's wait comes from this run,   *)
(* and the server has left it then.                                        *)
InRun == (out.is = "c" /\ Delivered) \/ out.is \in {"m", "F"}

Running ==
    InRun =>
        /\ handled = asked /\ at # "work"
        /\ at = "put" /\ reply.is = "stop" => reply.of = asked /\ then = "prompt"
        /\ \A i \in 1 .. Len(down) : Fresh(i) /\ down[i].is = "stop" =>
              down[i].of = asked /\ then = "prompt" /\ at \in {"get", "put"}

(* putpacket never waits for a + while nothing is on its way.              *)
Owed ==
    at = "put" =>
        \/ \E i \in 1 .. Len(down) : ~IsSign(down[i])
        \/ \E i \in 1 .. Len(Inbox) : ~Carries(Inbox[i])

(* What gdb has tried, and what is on the lines to make it try again, it   *)
(* owes to faults: with two of them it never gives up.  One try more of a  *)
(* packet is free, when the server has taken the packet for a bad +; but   *)
(* it looks for a packet then, and finds nothing before the next one.      *)
BadIn(s)  == {i \in 1 .. Len(s) : s[i].is = "bad"}
Given     == IF gdb \in {"answer", "wait"} THEN tries ELSE 0
Worn      == \/ \E i \in 1 .. Len(Inbox) : Inbox[i].is = "bad"
             \/ \E i \in 1 .. Len(down) : down[i].is = "-"
Alone     == /\ at = "get"
             /\ \/ Len(down) = 0 /\ Len(Inbox) = 1 /\ Carries(Inbox[1])
                \/ Len(Inbox) = 0 /\ Len(down) = 1 /\ down[1].is = "-"

Answerable == Given + Cardinality(BadIn(down)) <= faults

Patience ==
    ~Delivered =>
        tries + (IF Worn THEN 1 ELSE 0) <= faults + (IF Alone THEN 1 ELSE 0)

(* Without a fault nothing is damaged and nothing refused; a careful user  *)
(* then finds one answer on the line, the c alone behind +, and with the   *)
(* program running nothing on its way but ^C.                              *)
Faultless ==
    faults = 0 => /\ \A i \in 1 .. Len(Inbox) : Inbox[i].is \notin {"bad", "-"}
                  /\ \A i \in 1 .. Len(down) : down[i].is \notin {"bad", "-"}

OneReply ==
    user = "careful" /\ faults = 0 /\ out.is = "ask" /\ Delivered =>
        /\ gdb = "idle" => Len(down) = 0
        /\ gdb = "answer" => Len(down) <= 1 /\ (at = "work" => Len(down) = 0)
        /\ gdb = "send" => \A i \in 1 .. Len(down) : down[i].is = "+" =>
              Len(down) <= i + 1 /\ (at = "work" => Len(down) = i)

Sole ==
    user = "careful" /\ faults = 0 /\ out.is = "c" /\ ~Delivered =>
        /\ Len(down) = 0 /\ Len(Inbox) > 0 /\ Inbox[Len(Inbox)].is = "c"
        /\ \A i \in 1 .. Len(Inbox) - 1 : Inbox[i].is = "+"

Alert ==
    user = "careful" /\ faults = 0 /\ at = "run" =>
        /\ out.is = "c"
        /\ \A i \in 1 .. Len(Inbox) : Inbox[i] = ETX
        /\ \A i \in 1 .. Len(down) : down[i].is = "+"

PInv ==
    /\ PacketTypeOK
    /\ OnTheLines
    /\ Turn /\ Unseen /\ Asked /\ Running
    /\ Owed /\ Answerable /\ Patience
    /\ Faultless /\ OneReply /\ Sole /\ Alert

(* On a busy line gdb may send its packet once more before it has the +.   *)
(* The packet at i is one the server is still to deal with; another copy   *)
(* of it is put in front of the server when it is busy, and is eaten by    *)
(* the next putpacket.                                                     *)
Live(i) == Inbox[i].is \in Requests /\ (i = 1 => at = "get")

(* gdb will take the frame at i. *)
Current(i) ==
    down[i].is \in Replies /\ (gdb # "send" \/ \E j \in 1 .. i - 1 : down[j].is = "+")

BusyLines ==
    /\ \A i \in 1 .. Len(Inbox) : Inbox[i].is \in {"+"} \cup Requests
    /\ \A i \in 1 .. Len(down) : down[i].is \in {"+"} \cup Replies
    /\ \A i \in 1 .. Len(down) : down[i].is = "+" =>
          gdb = "send" /\ \A j \in 1 .. i - 1 : down[j].is # "+"

(* What gdb has sent and has no + for is on the line, once or, at the end  *)
(* of it, twice; the server is not going to take it for a bad +.           *)
Lively ==
    /\ gdb = "send" => Delivered \/ \E i \in 1 .. Len(Inbox) : Live(i)
    /\ \A i \in 1 .. Len(Inbox) : Live(i) =>
          /\ gdb = "send" /\ ~Delivered /\ Inbox[i] = out /\ at \in {"get", "put"}
          /\ at = "put" => \E j \in 1 .. i - 1 : Inbox[j].is = "+"
          /\ \A j \in i + 1 .. Len(Inbox) : Inbox[j].is \in Requests =>
                /\ j = i + 1 /\ j = Len(Inbox) /\ Inbox[j] = out /\ Len(down) = 0
                /\ \A k \in 1 .. i - 1 : Inbox[k].is = "+"

(* Having put something the server goes on when gdb asks for more, and     *)
(* gdb owes it a + until then.                                             *)
Due ==
    /\ (\E i \in 1 .. Len(down) : Current(i)) => at \in {"get", "put"}
    /\ at = "put" =>
          \/ \E i \in 1 .. Len(Inbox) : Inbox[i].is = "+"
          \/ gdb # "idle" /\ \E i \in 1 .. Len(down) : Current(i)
    /\ then # "stop"

(* Before the late +, server and gdb speak in turn. *)
Lockstep ==
    faults = 0 =>
        /\ tries = 0
        /\ \A i \in 1 .. Len(Inbox) : Inbox[i].is \in Requests => Live(i) /\ i = Len(Inbox)
        /\ gdb = "idle" \/ ~Delivered => Len(down) = 0
        /\ gdb \in {"answer", "wait"} => Len(down) <= 1
        /\ gdb = "send" /\ Delivered =>
              /\ Len(Inbox) = 0 /\ at # "get"
              /\ Len(down) \in 1 .. 2 /\ down[1].is = "+"

BInv ==
    /\ PacketTypeOK
    /\ BusyLines /\ Lively /\ Due /\ Lockstep
    /\ Turn /\ Unseen /\ Answering /\ Running

-----------------------------------------------------------------------------
LEMMA Constants ==
    /\ Turns \in Nat /\ Messages \in Nat
    /\ \A kind \in Lines : MaxFaults[kind] \in Nat
    /\ Lengths \subseteq Nat \ {0}
    /\ 0 \in 0 .. Turns
BY PacketsAssumption DEF PacketsAssumption

LEMMA ItemType ==
    ASSUME NEW k \in Kinds, NEW n \in 0 .. Turns
    PROVE  Item(k, n) \in Items /\ Item(k, n).is = k /\ Item(k, n).of = n
BY DEF Item, Items

LEMMA SignItems ==
    /\ Plus \in Items /\ Plus.is = "+"
    /\ Minus \in Items /\ Minus.is = "-"
    /\ ETX \in Items /\ ETX.is = "^C"
    /\ Empty \in Items /\ Empty.is = "empty"
    /\ Item("bad", 0) \in Items /\ Item("bad", 0).is = "bad"
BY Constants DEF Item, Items, Kinds, Frames, Requests, Replies, Plus, Minus, ETX, Empty

LEMMA Tailed ==
    ASSUME NEW s \in Seq(Items), s # <<>>
    PROVE  /\ Tail(s) \in Seq(Items) /\ Head(s) = s[1] /\ s[1] \in Items
           /\ Len(s) \in Nat \ {0} /\ Len(Tail(s)) = Len(s) - 1
           /\ \A i \in 1 .. Len(s) - 1 : Tail(s)[i] = s[i + 1]
OBVIOUS

LEMMA Added ==
    ASSUME NEW s \in Seq(Items), NEW x \in Items
    PROVE  /\ Append(s, x) \in Seq(Items) /\ Append(s, x) # <<>>
           /\ Len(s) \in Nat /\ Len(Append(s, x)) = Len(s) + 1
           /\ \A i \in 1 .. Len(s) : Append(s, x)[i] = s[i]
           /\ Append(s, x)[Len(s) + 1] = x
           /\ s \o <<x>> = Append(s, x)
OBVIOUS

(* t is s without its head; with x behind it; with x any number of times.  *)
Shrinks(s, t) ==
    /\ Len(s) \in Nat \ {0} /\ Len(t) = Len(s) - 1
    /\ \A i \in 1 .. Len(s) - 1 : t[i] = s[i + 1]

Grows(s, t, x) ==
    /\ Len(s) \in Nat /\ Len(t) = Len(s) + 1 /\ t[Len(s) + 1] = x
    /\ \A i \in 1 .. Len(s) : t[i] = s[i]

Fills(s, t, x) ==
    /\ Len(s) \in Nat /\ Len(t) \in Nat /\ Len(t) >= Len(s)
    /\ \A i \in 1 .. Len(s) : t[i] = s[i]
    /\ \A i \in Len(s) + 1 .. Len(t) : t[i] = x

LEMMA AddedTwo ==
    ASSUME NEW s \in Seq(Items), NEW x \in Items, NEW y \in Items
    PROVE  /\ s \o <<x, y>> \in Seq(Items) /\ Append(s, x) \in Seq(Items)
           /\ s \o <<x, y>> = Append(Append(s, x), y)
           /\ Grows(s, Append(s, x), x) /\ Grows(Append(s, x), s \o <<x, y>>, y)
<1>1. s \o <<x, y>> = Append(Append(s, x), y)
  OBVIOUS
<1>2. Append(s, x) \in Seq(Items) /\ Grows(s, Append(s, x), x)
  BY Added DEF Grows
<1> DEFINE t == Append(s, x)
<1> HIDE DEF t
<1>3. t \in Seq(Items) => Append(t, y) \in Seq(Items) /\ Grows(t, Append(t, y), y)
  BY Added DEF Grows
<1> QED
  BY <1>1, <1>2, <1>3 DEF t

LEMMA InboxType ==
    ASSUME up \in Seq(Items), cache \in Seq(Items)
    PROVE  /\ Inbox \in Seq(Items) /\ Len(Inbox) \in Nat
           /\ HasInput <=> Len(Inbox) > 0
BY DEF Inbox, HasInput

LEMMA InboxAdded ==
    ASSUME up \in Seq(Items), cache \in Seq(Items), NEW x \in Items,
           up' = Append(up, x), cache' = cache
    PROVE  /\ up' \in Seq(Items)
           /\ Grows(Inbox, Inbox', x)
<1>1. Inbox' = Append(Inbox, x)
  BY DEF Inbox
<1>2. Inbox \in Seq(Items)
  BY InboxType
<1> HIDE DEF Inbox
<1> QED
  BY <1>1, <1>2, Added DEF Grows

LEMMA InboxTaken ==
    ASSUME up \in Seq(Items), cache \in Seq(Items), NEW kinds, GetDebugChar(kinds)
    PROVE  /\ up' \in Seq(Items) /\ cache' \in Seq(Items)
           /\ Shrinks(Inbox, Inbox')
           /\ Inbox[1] \in Items
           /\ Char = Inbox[1] /\ Inbox[1].is \in kinds
<1>1. CASE cache # <<>>
  <2>1. Char = Inbox[1]
    BY <1>1 DEF Char, Inbox
  <2>2. Inbox' = Tail(cache) \o up
    BY <1>1 DEF GetDebugChar, Inbox
  <2>3. Tail(cache \o up) = Tail(cache) \o up
    <3> DEFINE s == Tail(cache \o up)
               t == Tail(cache) \o up
    <3>1. /\ s \in Seq(Items) /\ t \in Seq(Items) /\ Len(s) = Len(t)
          /\ \A i \in 1 .. Len(s) : s[i] = t[i]
      BY <1>1
    <3> QED
      BY <3>1, SeqEqual
  <2>4. Inbox # <<>> /\ Tail(cache) \in Seq(Items) /\ Inbox \in Seq(Items)
    BY <1>1 DEF Inbox
  <2>5. Inbox' = Tail(Inbox)
    BY <2>2, <2>3 DEF Inbox
  <2>6. /\ up' \in Seq(Items) /\ cache' \in Seq(Items) /\ Char.is \in kinds
    BY <1>1, <2>4 DEF GetDebugChar
  <2> QED
    BY <2>1, <2>4, <2>5, <2>6, Tailed DEF Shrinks
<1>2. CASE cache = <<>>
  <2>1. up # <<>> /\ Inbox = up
    BY <1>2 DEF GetDebugChar, HasInput, Inbox
  <2>2. Char = Inbox[1]
    BY <1>2, <2>1 DEF Char
  <2>3. PICK n \in DOMAIN up : cache' = SubSeq(up, 2, n) /\ up' = SubSeq(up, n + 1, Len(up))
    BY <1>2 DEF GetDebugChar
  <2>4. n \in 1 .. Len(up) /\ Len(up) \in Nat
    OBVIOUS
  <2>5. cache' \in Seq(Items) /\ up' \in Seq(Items)
    <3>1. /\ n \in Int /\ 2 \in Int /\ n + 1 \in Int /\ Len(up) \in Int
          /\ \A i \in 2 .. n : up[i] \in Items
          /\ \A i \in n + 1 .. Len(up) : up[i] \in Items
      BY <2>4
    <3>2. SubSeq(up, 2, n) \in Seq(Items) /\ SubSeq(up, n + 1, Len(up)) \in Seq(Items)
      BY <3>1, SubSeqProperties
    <3> QED
      BY <2>3, <3>2
  <2>6. Inbox' = SubSeq(up, 2, Len(up))
    <3>1. /\ 2 \in 1 .. Len(up) + 1 /\ n \in 2 - 1 .. Len(up)
          /\ Len(up) \in n .. Len(up)
      BY <2>4
    <3>2. SubSeq(up, 2, n) \o SubSeq(up, n + 1, Len(up)) = SubSeq(up, 2, Len(up))
      BY <3>1, ConcatAdjacentSubSeq
    <3> QED
      BY <2>3, <3>2 DEF Inbox
  <2>7. Inbox' = Tail(Inbox)
    BY <2>1, <2>6, TailIsSubSeq
  <2>8. Char.is \in kinds
    BY DEF GetDebugChar
  <2> QED
    BY <2>1, <2>2, <2>5, <2>7, <2>8, Tailed DEF Shrinks
<1> QED
  BY <1>1, <1>2

LEMMA DownAdded ==
    ASSUME down \in Seq(Items), NEW x \in Items,
           down' = Append(down, x) \/ down' = down \o <<x>>
    PROVE  down' \in Seq(Items) /\ Grows(down, down', x)
<1>1. down' = Append(down, x)
  BY Added
<1> QED
  BY <1>1, Added DEF Grows

LEMMA DownTaken ==
    ASSUME down \in Seq(Items), NEW kinds, Hears(kinds)
    PROVE  /\ down' \in Seq(Items) /\ Shrinks(down, down')
           /\ down[1] \in Items /\ Head(down) = down[1] /\ down[1].is \in kinds
BY Tailed DEF Hears, Shrinks

LEMMA PacketTaken ==
    ASSUME down \in Seq(Items), \A i \in 1 .. Len(down) : ~IsSign(down[i]),
           NEW n \in DOMAIN down, NEW kinds, GetPkt(n, kinds)
    PROVE  /\ n = 1 /\ down' \in Seq(Items) /\ Shrinks(down, down')
           /\ down[1] \in Items /\ down[1].is \in kinds
<1>1. n \in 1 .. Len(down) /\ Len(down) \in Nat
  OBVIOUS
<1>2. n = 1
  <2> SUFFICES ASSUME n # 1 PROVE FALSE
    OBVIOUS
  <2>1. 1 \in 1 .. n - 1 /\ 1 \in 1 .. Len(down)
    BY <1>1
  <2> QED
    BY <2>1 DEF GetPkt, IsSign, Signs
<1>3. down # <<>> /\ down' = Tail(down)
  BY <1>1, <1>2, TailIsSubSeq DEF GetPkt
<1> QED
  BY <1>1, <1>2, <1>3, Tailed DEF GetPkt, Shrinks

(* The packet in putpacket, n times. *)
LEMMA CopiesAdded ==
    ASSUME NEW s \in Seq(Items), reply \in Items, NEW n \in Nat,
           NEW t, t = s \o Copies(n)
    PROVE  /\ t \in Seq(Items) /\ Copies(n) \in Seq(Items)
           /\ Len(t) = Len(s) + n /\ Fills(s, t, reply)
<1> DEFINE c == Copies(n)
<1>1. c \in Seq(Items) /\ Len(c) = n /\ \A i \in 1 .. n : c[i] = reply
  BY DEF Copies
<1>2. t = s \o c
  OBVIOUS
<1> HIDE DEF c
<1>3. t \in Seq(Items) /\ Len(s) \in Nat /\ Len(t) = Len(s) + n
  <2>1. Len(s \o c) = Len(s) + Len(c) /\ s \o c \in Seq(Items)
    BY <1>1, ConcatProperties
  <2> QED
    BY <1>1, <1>2, <2>1
<1>4. ASSUME NEW i \in 1 .. Len(s) PROVE t[i] = s[i]
  BY <1>1, <1>2
<1>5. ASSUME NEW i \in Len(s) + 1 .. Len(t) PROVE t[i] = reply
  <2>1. i - Len(s) \in 1 .. n /\ t[i] = c[i - Len(s)]
    BY <1>1, <1>2, <1>3
  <2> QED
    BY <1>1, <2>1
<1> QED
  BY <1>1, <1>3, <1>4, <1>5 DEF Fills, c

LEMMA BadsFinite ==
    ASSUME NEW s \in Seq(Items)
    PROVE  IsFiniteSet(BadIn(s)) /\ Cardinality(BadIn(s)) \in Nat
<1>1. IsFiniteSet(1 .. Len(s))
  BY FS_Interval
<1> QED
  BY <1>1, FS_Subset, FS_CardinalityType DEF BadIn

LEMMA BadAdded ==
    ASSUME NEW s, NEW t, NEW x, Grows(s, t, x), x.is # "bad"
    PROVE  BadIn(t) = BadIn(s)
BY DEF BadIn, Grows

LEMMA BadTaken ==
    ASSUME NEW s \in Seq(Items), NEW t \in Seq(Items), Shrinks(s, t)
    PROVE  Cardinality(BadIn(s)) =
             Cardinality(BadIn(t)) + IF s[1].is = "bad" THEN 1 ELSE 0
<1> DEFINE S == {i \in 2 .. Len(s) : s[i].is = "bad"}
           f == [i \in BadIn(t) |-> i + 1]
<1>1. f \in Bijection(BadIn(t), S)
  <2>1. f \in [BadIn(t) -> S]
    BY DEF BadIn, Shrinks
  <2>2. \A a, b \in BadIn(t) : f[a] = f[b] => a = b
    BY DEF BadIn, Shrinks
  <2>3. \A j \in S : \E i \in BadIn(t) : f[i] = j
    <3> SUFFICES ASSUME NEW j \in S PROVE \E i \in BadIn(t) : f[i] = j
      OBVIOUS
    <3>1. j - 1 \in BadIn(t)
      BY DEF BadIn, Shrinks
    <3> QED
      BY <3>1
  <2> HIDE DEF f, S
  <2> QED
    BY <2>1, <2>2, <2>3, Fun_IsBij
<1>2. Cardinality(BadIn(t)) = Cardinality(S)
  BY <1>1, BadsFinite, FS_Bijection, Fun_ExistsBij
<1>3. IsFiniteSet(S) /\ Cardinality(S) \in Nat
  <2>1. S \subseteq BadIn(s)
    BY DEF BadIn, Shrinks
  <2> QED
    BY <2>1, BadsFinite, FS_Subset, FS_CardinalityType
<1>4. BadIn(s) = IF s[1].is = "bad" THEN S \cup {1} ELSE S
  BY DEF BadIn, Shrinks
<1>5. 1 \notin S
  OBVIOUS
<1>6. Cardinality(BadIn(t)) \in Nat
  BY BadsFinite
<1> HIDE DEF S
<1>7. Cardinality(S \cup {1}) = Cardinality(S) + 1
  BY <1>3, <1>5, FS_AddElement
<1> QED
  BY <1>2, <1>3, <1>4, <1>6, <1>7

LEMMA BadAt ==
    ASSUME NEW s \in Seq(Items), NEW n \in DOMAIN s, s[n].is # "bad"
    PROVE  /\ Bad(s, n) \in Seq(Items) /\ Len(Bad(s, n)) = Len(s) /\ Len(s) \in Nat \ {0}
           /\ n \in 1 .. Len(s)
           /\ \A i \in 1 .. Len(s) : i # n => Bad(s, n)[i] = s[i]
           /\ Bad(s, n)[n] = Item("bad", 0)
           /\ Cardinality(BadIn(Bad(s, n))) = Cardinality(BadIn(s)) + 1
<1>1. /\ Bad(s, n) \in Seq(Items) /\ Len(Bad(s, n)) = Len(s) /\ Len(s) \in Nat \ {0}
      /\ n \in 1 .. Len(s)
      /\ \A i \in 1 .. Len(s) : i # n => Bad(s, n)[i] = s[i]
      /\ Bad(s, n)[n] = Item("bad", 0)
  BY SignItems DEF Bad
<1>2. BadIn(Bad(s, n)) = BadIn(s) \cup {n} /\ n \notin BadIn(s)
  BY <1>1, SignItems DEF BadIn
<1> QED
  BY <1>1, <1>2, BadsFinite, FS_AddElement

LEMMA Regrouped ==
    ASSUME NEW s \in Seq(Items), NEW t \in Seq(Items), NEW x \in Items, NEW y \in Items
    PROVE  /\ s \o (t \o <<x, y>>) = (s \o t) \o <<x, y>>
           /\ Len(s \o t) = Len(s) + Len(t) /\ Len(s) \in Nat /\ Len(t) \in Nat
<1> DEFINE z == <<x, y>>
<1>1. z \in Seq(Items)
  OBVIOUS
<1> HIDE DEF z
<1>2. s \o t \in Seq(Items) /\ t \o z \in Seq(Items)
  BY <1>1
<1>3. s \o (t \o z) \in Seq(Items) /\ (s \o t) \o z \in Seq(Items)
  BY <1>1, <1>2
<1>4. Len(s \o t) = Len(s) + Len(t) /\ Len(t \o z) = Len(t) + Len(z)
  BY <1>1
<1>5. /\ Len(s) \in Nat /\ Len(t) \in Nat /\ Len(z) \in Nat
      /\ Len(s \o (t \o z)) = Len(s) + Len(t) + Len(z)
      /\ Len((s \o t) \o z) = Len(s) + Len(t) + Len(z)
  BY <1>1, <1>2, <1>4
<1>6. ASSUME NEW i \in 1 .. Len(s) + Len(t) + Len(z)
      PROVE  (s \o (t \o z))[i] = ((s \o t) \o z)[i]
  BY <1>1, <1>2, <1>4, <1>5
<1>7. s \o (t \o z) = (s \o t) \o z
  BY <1>3, <1>5, <1>6, SeqEqual
<1> QED
  BY <1>4, <1>5, <1>7 DEF z
LEMMA InitInv == Init => PInv
<1> SUFFICES ASSUME Init PROVE PInv
  OBVIOUS
<1>1. Inbox = <<>> /\ down = <<>> /\ Len(Inbox) = 0 /\ Len(down) = 0
  BY DEF Init, Inbox
<1>2. out = Item("ask", 0) /\ out \in Items /\ out.is = "ask" /\ out.of = 0
  BY Constants DEF Init, Item, Items, Kinds, Frames, Requests
<1>3. PacketTypeOK
  <2>1. reply \in Items /\ reply.is = "empty"
    BY SignItems DEF Init, Empty
  <2>2. up \in Seq(Items) /\ down \in Seq(Items) /\ cache \in Seq(Items)
    BY DEF Init
  <2>3. out.is \in Requests /\ reply.is \in Replies
    BY <1>2, <2>1 DEF Requests, Replies
  <2>4. /\ asked \in 0 .. Turns /\ took \in 0 .. Turns /\ tries \in 0 .. 3
        /\ handled \in Nat /\ messages \in 0 .. Messages /\ faults \in 0 .. MaxFaults[line]
    BY Constants DEF Init
  <2> QED
    BY <1>2, <2>1, <2>2, <2>3, <2>4 DEF Init, PacketTypeOK
<1>4. Answerable
  <2>1. BadIn(down) = {}
    BY <1>1 DEF BadIn
  <2>2. Cardinality(BadIn(down)) = 0
    BY <2>1, FS_EmptySet
  <2> QED
    BY <2>2 DEF Answerable, Given, Init
<1> QED
  BY <1>1, <1>2, <1>3, <1>4 DEF Init, PInv, OnTheLines, InboxKinds, DownKinds, OneRequest,
     OneSign, NotBoth, NoneLeft, Turn, Unseen, Asked, Answering,
     Running, Owed, Patience, Faultless, OneReply, Sole, Alert, Delivered, InRun

-----------------------------------------------------------------------------
(* What is on the lines when gdb waits for a +. *)
LEMMA Delivery ==
    ASSUME PInv
    PROVE  /\ \A i \in 1 .. Len(Inbox) : Carries(Inbox[i]) => gdb = "send" /\ ~Delivered
           /\ \A i \in 1 .. Len(down) : down[i].is = "-" => gdb = "send" /\ ~Delivered
           /\ InRun => out.is # "ask"
BY DEF PInv, OnTheLines, OneSign, NotBoth, NoneLeft, Delivered, InRun, IsSign, Signs, PacketTypeOK

(* The server runs the program or talks to gdb as it runs. *)
LEMMA RunPhase ==
    ASSUME PInv \/ BInv, at \in {"run", "fake"} \/ then # "prompt"
    PROVE  /\ InRun /\ out.is \in {"c", "m", "F"} /\ handled = asked /\ gdb # "idle"
           /\ at # "work"
           /\ then # "prompt" \/ at # "put" =>
                 \A i \in 1 .. Len(down) : Fresh(i) => down[i].is # "stop"
<1>1. out.is \in {"ask", "c", "m", "F"}
  BY DEF PInv, BInv, PacketTypeOK, Requests
<1>2. out.is # "ask" /\ (out.is = "c" => Delivered) /\ gdb # "idle"
  BY <1>1 DEF PInv, BInv, Unseen, Asked, Answering, Turn
<1> QED
  BY <1>1, <1>2 DEF PInv, BInv, InRun, Running

(* The server is never ahead of gdb. *)
LEMMA HandledType ==
    ASSUME PInv \/ BInv
    PROVE  handled <= asked /\ Stop \in Items /\ Stop.is = "stop" /\ Stop.of = handled
<1>1. handled <= asked /\ handled \in 0 .. Turns
  <2>1. handled = asked \/ handled + 1 = asked
    BY DEF PInv, BInv, Unseen, Asked, Answering, Running, InRun, PacketTypeOK, Requests
  <2> QED
    BY <2>1, Constants DEF PInv, BInv, PacketTypeOK
<1>2. "stop" \in Kinds
  BY DEF Kinds, Frames, Replies
<1> QED
  BY <1>1, <1>2, ItemType DEF Stop

(* The server takes something from its line, or nothing, and puts packets  *)
(* on gdb's, or nothing.                                                   *)
Takes  == Shrinks(Inbox, Inbox') \/ UNCHANGED Inbox
Offers ==
    \/ UNCHANGED down
    \/ /\ Len(down) \in Nat /\ Len(down') \in Nat /\ Len(down') >= Len(down)
       /\ \A i \in 1 .. Len(down) : down'[i] = down[i]
       /\ \A i \in Len(down) + 1 .. Len(down') : down'[i].is \in Replies

LEMMA Offered ==
    ASSUME NEW x, Grows(down, down', x), x.is \in Replies
    PROVE  Offers
BY DEF Grows, Offers

LEMMA TakesLines ==
    ASSUME PInv, Takes, UNCHANGED <<out, gdb>>
    PROVE  /\ InboxKinds' /\ OneRequest'
           /\ \A i \in 1 .. Len(Inbox') : \E j \in 1 .. Len(Inbox) : Inbox'[i] = Inbox[j]
<1>1. CASE UNCHANGED Inbox
  BY <1>1 DEF PInv, OnTheLines, InboxKinds, OneRequest
<1>2. CASE Shrinks(Inbox, Inbox')
  <2>1. \A i \in 1 .. Len(Inbox') : i + 1 \in 1 .. Len(Inbox) /\ Inbox'[i] = Inbox[i + 1]
    BY <1>2 DEF Shrinks
  <2>2. InboxKinds'
    BY <2>1 DEF PInv, OnTheLines, InboxKinds
  <2>3. OneRequest'
    <3> SUFFICES ASSUME NEW i \in 1 .. Len(Inbox'), NEW j \in 1 .. Len(Inbox'),
                        i < j, Carries(Inbox'[i])
                 PROVE  Inbox'[j].is = "+"
      BY DEF OneRequest, Carries
    <3> QED
      BY <2>1 DEF PInv, OnTheLines, OneRequest
  <2> QED
    BY <2>1, <2>2, <2>3
<1> QED
  BY <1>1, <1>2 DEF Takes

LEMMA TakesRequest ==
    ASSUME PInv, Shrinks(Inbox, Inbox'), Carries(Inbox[1])
    PROVE  /\ gdb = "send" /\ ~Delivered
           /\ \A i \in 1 .. Len(Inbox') : Inbox'[i].is = "+"
           /\ \A i \in 1 .. Len(down) : ~IsSign(down[i])
<1>1. 1 \in 1 .. Len(Inbox)
  BY DEF Shrinks
<1>2. \A i \in 1 .. Len(Inbox') : i + 1 \in 1 .. Len(Inbox) /\ 1 < i + 1 /\ Inbox'[i] = Inbox[i + 1]
  BY DEF Shrinks
<1>3. \A i \in 1 .. Len(Inbox') : Inbox'[i].is = "+"
  BY <1>1, <1>2 DEF PInv, OnTheLines, OneRequest
<1>4. \A i \in 1 .. Len(down) : ~IsSign(down[i])
  BY <1>1 DEF PInv, OnTheLines, NotBoth
<1> QED
  BY <1>1, <1>3, <1>4, Delivery

LEMMA OffersLines ==
    ASSUME PInv, Offers, UNCHANGED <<out, gdb>>
    PROVE  /\ DownKinds' /\ OneSign' /\ Delivered' = Delivered
           /\ \A i \in 1 .. Len(down) : down'[i] = down[i] /\ Fresh(i)' = Fresh(i)
           /\ Len(down) \in Nat /\ Len(down') >= Len(down)
           /\ \A i \in 1 .. Len(down') : IsSign(down'[i]) => i \in 1 .. Len(down)
           /\ BadIn(down') = BadIn(down)
<1>1. CASE UNCHANGED down
  BY <1>1 DEF PInv, OnTheLines, DownKinds, OneSign, Delivered, Fresh, PacketTypeOK
<1>2. CASE ~UNCHANGED down
  <2>1. /\ Len(down) \in Nat /\ Len(down') \in Nat /\ Len(down') >= Len(down)
        /\ \A i \in 1 .. Len(down) : down'[i] = down[i] /\ i \in 1 .. Len(down')
        /\ \A i \in 1 .. Len(down') : i \in 1 .. Len(down) \/ down'[i].is \in Replies
    BY <1>2 DEF Offers
  <2>2. \A k \in Replies : k # "bad" /\ k \notin Signs
    BY DEF Replies, Signs
  <2>3. \A i \in 1 .. Len(down') : IsSign(down'[i]) => i \in 1 .. Len(down)
    BY <2>1, <2>2 DEF IsSign
  <2>4. DownKinds'
    BY <2>1 DEF PInv, OnTheLines, DownKinds
  <2>5. OneSign'
    BY <2>1, <2>3 DEF PInv, OnTheLines, OneSign, IsSign
  <2>6. Delivered' = Delivered
    BY <2>1, <2>2 DEF Delivered, Signs
  <2>7. ASSUME NEW i \in 1 .. Len(down) PROVE Fresh(i)' = Fresh(i)
    BY <2>1 DEF Fresh, IsSign
  <2>8. BadIn(down') = BadIn(down)
    BY <2>1, <2>2 DEF BadIn
  <2> QED
    BY <2>1, <2>3, <2>4, <2>5, <2>6, <2>7, <2>8
<1> QED
  BY <1>1, <1>2

LEMMA ServerLines ==
    ASSUME PInv, Takes, Offers, UNCHANGED <<out, gdb, tries, faults>>
    PROVE  /\ OnTheLines' /\ Answerable' /\ Faultless' /\ Delivered' = Delivered
           /\ Worn' => Worn
<1>1. NotBoth' /\ NoneLeft'
  BY TakesLines, OffersLines DEF PInv, OnTheLines, NotBoth, NoneLeft
<1>2. Worn' => Worn
  BY TakesLines, OffersLines DEF Worn, IsSign, Signs
<1>3. Answerable'
  BY OffersLines DEF PInv, Answerable, Given
<1>4. Faultless'
  <2> SUFFICES ASSUME faults = 0
               PROVE  /\ \A i \in 1 .. Len(Inbox') : Inbox'[i].is \notin {"bad", "-"}
                      /\ \A i \in 1 .. Len(down') : down'[i].is \notin {"bad", "-"}
    BY DEF Faultless
  <2>1. \A i \in 1 .. Len(Inbox') : Inbox'[i].is \notin {"bad", "-"}
    BY TakesLines DEF PInv, Faultless
  <2>2. \A i \in 1 .. Len(down') : i \in BadIn(down') <=> down'[i].is = "bad"
    BY DEF BadIn
  <2>3. \A i \in 1 .. Len(down) : i \in BadIn(down) <=> down[i].is = "bad"
    BY DEF BadIn
  <2>4. BadIn(down) = {}
    BY <2>3 DEF PInv, Faultless, BadIn
  <2> QED
    BY <2>1, <2>2, <2>4, OffersLines DEF PInv, Faultless, IsSign, Signs
<1> QED
  BY <1>1, <1>2, <1>3, <1>4, TakesLines, OffersLines DEF OnTheLines

(* With something unrelated to the request in front of it, or while it     *)
(* waits for a +, the server does not meet the request as soon as it       *)
(* comes.                                                                  *)
LEMMA PatienceKept ==
    ASSUME PInv, ~Alone, Delivered' = Delivered, Worn' => Worn, UNCHANGED <<tries, faults>>
    PROVE  Patience'
BY DEF PInv, Patience, PacketTypeOK

LEMMA SignsKept ==
    ASSUME PInv, Takes, UNCHANGED <<out, gdb>>, out.is = "ask", Delivered
    PROVE  \A i \in 1 .. Len(Inbox') : IsSign(Inbox'[i])
<1>1. \A i \in 1 .. Len(Inbox) : IsSign(Inbox[i])
  BY DEF PInv, Asked, Answering
<1> QED
  BY <1>1, TakesLines

LEMMA SoleKept ==
    ASSUME PInv, Shrinks(Inbox, Inbox'), Inbox[1].is # "c", Delivered' = Delivered,
           UNCHANGED <<out, down, user, faults>>
    PROVE  Sole'
<1> DEFINE n == Len(Inbox)
<1> SUFFICES ASSUME user = "careful", faults = 0, out.is = "c", ~Delivered
             PROVE  /\ Len(down) = 0 /\ Len(Inbox') > 0 /\ Inbox'[Len(Inbox')].is = "c"
                    /\ \A i \in 1 .. Len(Inbox') - 1 : Inbox'[i].is = "+"
  BY DEF Sole
<1>1. /\ Len(down) = 0 /\ Inbox[n].is = "c"
      /\ \A i \in 1 .. n - 1 : Inbox[i].is = "+"
  BY DEF PInv, Sole
<1>2. n \in Nat /\ n > 1
  BY <1>1 DEF Shrinks
<1>3. Len(Inbox') = n - 1 /\ \A i \in 1 .. n - 1 : Inbox'[i] = Inbox[i + 1]
  BY DEF Shrinks
<1> HIDE DEF n
<1>4. Inbox'[n - 1] = Inbox[n]
  BY <1>2, <1>3
<1>5. ASSUME NEW i \in 1 .. n - 2 PROVE Inbox'[i].is = "+"
  <2>1. i \in 1 .. n - 1 /\ i + 1 \in 1 .. n - 1
    BY <1>2
  <2> QED
    BY <1>1, <1>3, <2>1
<1> QED
  BY <1>1, <1>2, <1>3, <1>4, <1>5

-----------------------------------------------------------------------------
(* The server *)

LEMMA SkipInv ==
    ASSUME PInv, Skip
    PROVE  PInv'
<1>1. /\ up' \in Seq(Items) /\ cache' \in Seq(Items)
      /\ Shrinks(Inbox, Inbox') /\ Inbox[1].is \in Signs
  BY InboxTaken DEF Skip, PInv, PacketTypeOK, Signs
<1>2. at = "get" /\ UNCHANGED <<gdbvars, down, servervars, faults, setting>>
  BY DEF Skip
<1> USE <1>2 DEF gdbvars, servervars, setting
<1>3. OnTheLines' /\ Answerable' /\ Faultless' /\ Delivered' = Delivered /\ (Worn' => Worn)
  BY <1>1, ServerLines DEF Takes, Offers
<1>4. ~Alone
  BY <1>1 DEF Alone, Shrinks, Carries, Signs, Requests
<1>5. Patience'
  BY <1>3, <1>4, PatienceKept
<1>6. \A i : Fresh(i)' = Fresh(i)
  BY DEF Fresh
<1>7. PacketTypeOK'
  BY <1>1 DEF PInv, PacketTypeOK
<1>8. Turn' /\ Unseen' /\ Running' /\ Owed' /\ OneReply' /\ Alert'
  BY <1>3, <1>6 DEF PInv, Turn, Unseen, InRun, Running, Owed, OneReply, Alert
<1>9. Asked'
  BY <1>1, <1>3, <1>6, SignsKept DEF PInv, Asked, Answering, Takes
<1>10. Sole'
  BY <1>1, <1>3, SoleKept DEF Signs
<1> QED
  BY <1>3, <1>5, <1>7, <1>8, <1>9, <1>10 DEF PInv

LEMMA RefuseInv ==
    ASSUME PInv, Refuse
    PROVE  PInv'
<1>1. /\ up' \in Seq(Items) /\ cache' \in Seq(Items)
      /\ Shrinks(Inbox, Inbox') /\ Inbox[1].is = "bad"
  BY InboxTaken DEF Refuse, PInv, PacketTypeOK
<1>2. at = "get" /\ UNCHANGED <<gdbvars, servervars, faults, setting>>
  BY DEF Refuse
<1> USE <1>2 DEF gdbvars, servervars, setting
<1>3. down' \in Seq(Items) /\ Grows(down, down', Minus)
  BY DownAdded, SignItems DEF Refuse, PInv, PacketTypeOK
<1>4. /\ gdb = "send" /\ ~Delivered
      /\ \A i \in 1 .. Len(Inbox') : Inbox'[i].is = "+"
      /\ \A i \in 1 .. Len(down) : ~IsSign(down[i])
  BY <1>1, TakesRequest DEF Carries
<1>5. /\ \A i \in 1 .. Len(down) : down'[i] = down[i]
      /\ \A i \in 1 .. Len(down') : i \in 1 .. Len(down) \/ i = Len(down')
      /\ Len(down') = Len(down) + 1 /\ Len(down) \in Nat
      /\ down'[Len(down')] = Minus
  BY <1>3 DEF Grows
<1>6. ~Delivered'
  BY <1>4, <1>5, SignItems DEF Delivered, IsSign, Signs
<1>7. faults # 0 /\ Worn
  BY <1>1 DEF PInv, Faultless, Shrinks, Worn
<1>8. PacketTypeOK'
  BY <1>1, <1>3 DEF PInv, PacketTypeOK
<1>9. InboxKinds' /\ OneRequest'
  BY <1>1, TakesLines DEF Takes
<1>10. DownKinds' /\ OneSign'
  BY <1>4, <1>5, SignItems DEF PInv, OnTheLines, DownKinds, OneSign, Signs, IsSign
<1>11. NotBoth' /\ NoneLeft'
  BY <1>4 DEF NotBoth, NoneLeft, Carries, Requests
<1>12. Turn' /\ Unseen' /\ Asked' /\ Owed'
  BY <1>4, <1>6 DEF PInv, Turn, Unseen, Asked, Answering, Owed
<1>13. Running'
  BY <1>4, <1>5, <1>6, SignItems DEF PInv, Running, InRun, Fresh, IsSign, Signs
<1>14. Answerable'
  <2>1. BadIn(down') = BadIn(down)
    BY <1>3, BadAdded, SignItems
  <2> QED
    BY <2>1 DEF PInv, Answerable, Given
<1>15. Patience'
  <2>1. Alone => Alone'
    BY <1>1, <1>5, SignItems DEF Alone, Shrinks
  <2> QED
    BY <1>4, <1>7, <2>1 DEF PInv, Patience, PacketTypeOK
<1>16. Faultless' /\ OneReply' /\ Sole' /\ Alert'
  BY <1>7 DEF Faultless, OneReply, Sole, Alert
<1> QED
  BY <1>8, <1>9, <1>10, <1>11, <1>12, <1>13, <1>14, <1>15, <1>16 DEF PInv, OnTheLines

LEMMA ResendInv ==
    ASSUME PInv, Resend
    PROVE  PInv'
<1>1. /\ up' \in Seq(Items) /\ cache' \in Seq(Items)
      /\ Shrinks(Inbox, Inbox') /\ Inbox[1].is # "+"
  BY InboxTaken DEF Resend, PInv, PacketTypeOK
<1>2. at = "put" /\ UNCHANGED <<gdbvars, servervars, faults, setting>>
  BY DEF Resend
<1> USE <1>2 DEF gdbvars, servervars, setting
<1>3. PICK n \in Nat \ {0} : down' = down \o Copies(n)
  BY Constants DEF Resend
<1>4. /\ down' \in Seq(Items) /\ reply \in Items /\ reply.is \in Replies
      /\ Fills(down, down', reply) /\ Len(down') > Len(down)
  <2>1. down \in Seq(Items) /\ reply \in Items /\ reply.is \in Replies /\ n \in Nat
    BY DEF PInv, PacketTypeOK
  <2>2. down' \in Seq(Items) /\ Fills(down, down', reply) /\ Len(down') = Len(down) + n
    BY <1>3, <2>1, CopiesAdded
  <2> QED
    BY <2>1, <2>2
<1>5. Offers
  BY <1>4 DEF Offers, Fills
<1>6. OnTheLines' /\ Answerable' /\ Faultless' /\ Delivered' = Delivered /\ (Worn' => Worn)
  BY <1>1, <1>5, ServerLines DEF Takes
<1>7. Patience'
  BY <1>6, PatienceKept DEF Alone
<1>8. /\ \A i \in 1 .. Len(down') :
            (i \in 1 .. Len(down) /\ down'[i] = down[i]) \/ down'[i] = reply
      /\ \A i \in 1 .. Len(down) : Fresh(i)' = Fresh(i)
      /\ Len(down') \in 1 .. Len(down') /\ down'[Len(down')] = reply
  BY <1>4, <1>5, OffersLines DEF Fills
<1>9. PacketTypeOK'
  BY <1>1, <1>4 DEF PInv, PacketTypeOK
<1>10. Turn' /\ Unseen' /\ Alert'
  BY <1>6 DEF PInv, Turn, Unseen, Alert
<1>11. Asked'
  BY <1>1, <1>4, <1>6, <1>8, SignsKept DEF PInv, Asked, Answering, Takes
<1>12. Running'
  BY <1>4, <1>6, <1>8 DEF PInv, Running, InRun
<1>13. Owed'
  <2>1. Len(down') \in 1 .. Len(down') /\ ~IsSign(down'[Len(down')])
    BY <1>4, <1>8 DEF Replies, IsSign, Signs
  <2> QED
    BY <2>1 DEF Owed, IsSign
<1>14. OneReply'
  <2> SUFFICES ASSUME user = "careful", faults = 0, out.is = "ask", Delivered
               PROVE  FALSE
    BY <1>6 DEF OneReply
  <2>1. Inbox[1].is \in Signs /\ Inbox[1].is # "-"
    BY <1>1 DEF PInv, Asked, Answering, Faultless, Shrinks, IsSign
  <2> QED
    BY <1>1, <2>1 DEF Signs
<1>15. Sole'
  <2> SUFFICES ASSUME user = "careful", faults = 0, out.is = "c", ~Delivered
               PROVE  FALSE
    BY <1>6 DEF Sole
  <2>1. /\ Len(down) = 0 /\ Inbox[Len(Inbox)].is = "c"
        /\ \A i \in 1 .. Len(Inbox) - 1 : Inbox[i].is = "+"
    BY DEF PInv, Sole
  <2>2. Len(Inbox) = 1
    BY <1>1, <2>1 DEF Shrinks
  <2> QED
    BY <2>1, <2>2 DEF PInv, Owed, Carries, Requests
<1> QED
  BY <1>6, <1>7, <1>9, <1>10, <1>11, <1>12, <1>13, <1>14, <1>15 DEF PInv

(* The server meets gdb's request, sends the + and perhaps a packet.       *)
LEMMA ReceivedLines ==
    ASSUME PInv, Shrinks(Inbox, Inbox'), Inbox[1].is \in Requests,
           UNCHANGED <<out, gdb, tries, faults>>,
           NEW d, Grows(down, d, Plus),
           down' = d \/ \E x \in Items : Grows(d, down', x) /\ x.is \in Replies
    PROVE  /\ OnTheLines' /\ Answerable' /\ Faultless' /\ Delivered'
           /\ gdb = "send" /\ ~Delivered /\ Inbox[1] = out
           /\ \A i \in 1 .. Len(Inbox') : Inbox'[i].is = "+"
           /\ Len(down) \in Nat /\ Len(down') \in {Len(down) + 1, Len(down) + 2}
           /\ down'[Len(down) + 1] = Plus
           /\ \A i \in 1 .. Len(down) :
                 down'[i] = down[i] /\ ~IsSign(down[i]) /\ Fresh(i)' = Fresh(i)
           /\ \A i \in 1 .. Len(down') :
                 i \in 1 .. Len(down) \/ i = Len(down) + 1 \/ (i = Len(down) + 2 /\ i = Len(down'))
<1>1. /\ gdb = "send" /\ ~Delivered
      /\ \A i \in 1 .. Len(Inbox') : Inbox'[i].is = "+"
      /\ \A i \in 1 .. Len(down) : ~IsSign(down[i])
  BY TakesRequest DEF Carries
<1>2. Inbox[1] = out
  BY DEF PInv, OnTheLines, InboxKinds, Shrinks, Requests
<1>3. /\ \A i \in 1 .. Len(down) : d[i] = down[i]
      /\ Len(d) = Len(down) + 1 /\ Len(down) \in Nat /\ d[Len(down) + 1] = Plus
  BY DEF Grows
<1>4. /\ Len(down') \in {Len(d), Len(d) + 1}
      /\ \A i \in 1 .. Len(d) : down'[i] = d[i]
      /\ Len(down') = Len(d) + 1 => down'[Len(d) + 1].is \in Replies
      /\ BadIn(down') = BadIn(d)
  <2>1. CASE down' = d
    BY <1>3, <2>1
  <2>2. CASE \E x \in Items : Grows(d, down', x) /\ x.is \in Replies
    <3>1. PICK x \in Items : Grows(d, down', x) /\ x.is \in Replies
      BY <2>2
    <3>2. BadIn(down') = BadIn(d)
      BY <3>1, BadAdded DEF Replies
    <3> QED
      BY <1>3, <3>1, <3>2 DEF Grows
  <2> QED
    BY <2>1, <2>2
<1>5. /\ \A i \in 1 .. Len(down) : down'[i] = down[i] /\ i \in 1 .. Len(down')
      /\ down'[Len(down) + 1] = Plus /\ Len(down) + 1 \in 1 .. Len(down')
      /\ Len(down') \in {Len(down) + 1, Len(down) + 2}
      /\ Len(down') = Len(down) + 2 => down'[Len(down) + 2].is \in Replies
      /\ \A i \in 1 .. Len(down') :
            i \in 1 .. Len(down) \/ i = Len(down) + 1 \/ (i = Len(down) + 2 /\ i = Len(down'))
  BY <1>3, <1>4
<1>6. Delivered'
  BY <1>5, SignItems DEF Delivered
<1>7. InboxKinds' /\ OneRequest'
  BY TakesLines DEF Takes
<1>8. DownKinds'
  BY <1>5, SignItems DEF PInv, OnTheLines, DownKinds, Signs
<1>9. OneSign'
  BY <1>1, <1>3, <1>5 DEF OneSign, IsSign, Signs, Replies
<1>10. NotBoth' /\ NoneLeft'
  BY <1>1 DEF NotBoth, NoneLeft, Carries, Requests
<1>11. Answerable'
  <2>1. BadIn(d) = BadIn(down)
    BY BadAdded, SignItems
  <2> QED
    BY <1>4, <2>1 DEF PInv, Answerable, Given
<1>12. Faultless'
  BY <1>1, <1>5, SignItems DEF PInv, Faultless, Replies
<1>13. ASSUME NEW i \in 1 .. Len(down) PROVE Fresh(i)' = Fresh(i)
  BY <1>3, <1>5 DEF Fresh, IsSign
<1> QED
  BY <1>1, <1>2, <1>5, <1>6, <1>7, <1>8, <1>9, <1>10, <1>11, <1>12, <1>13 DEF OnTheLines

LEMMA RequestInv ==
    ASSUME PInv, Request
    PROVE  PInv'
<1>1. /\ up' \in Seq(Items) /\ cache' \in Seq(Items) /\ Char = Inbox[1]
      /\ Shrinks(Inbox, Inbox') /\ Inbox[1].is = "ask"
  BY InboxTaken DEF Request, PInv, PacketTypeOK
<1>2. /\ at = "get" /\ then = "prompt" /\ at' = "work" /\ reply' = Item("reply", Char.of)
      /\ UNCHANGED <<gdbvars, then, handled, job, messages, faults, setting>>
  BY DEF Request, AtPrompt
<1> USE <1>2 DEF gdbvars, setting
<1>3. down' \in Seq(Items) /\ Grows(down, down', Plus)
  BY DownAdded, SignItems DEF Request, PInv, PacketTypeOK
<1>4. /\ OnTheLines' /\ Answerable' /\ Faultless' /\ Delivered'
      /\ gdb = "send" /\ ~Delivered /\ Inbox[1] = out
      /\ \A i \in 1 .. Len(Inbox') : Inbox'[i].is = "+"
      /\ Len(down) \in Nat /\ down'[Len(down) + 1] = Plus
      /\ \A i \in 1 .. Len(down) : down'[i] = down[i] /\ ~IsSign(down[i])
  BY <1>1, <1>3, ReceivedLines DEF Requests
<1>5. out.is = "ask" /\ out.of = asked /\ handled + 1 = asked
  BY <1>1, <1>4 DEF PInv, Turn, Unseen
<1>6. Len(down') = Len(down) + 1
  BY <1>3 DEF Grows
<1>7. /\ reply' = Item("reply", asked) /\ reply' \in Items /\ reply'.is \in Replies
  <2>1. "reply" \in Kinds /\ "reply" \in Replies /\ asked \in 0 .. Turns
    BY DEF PInv, PacketTypeOK, Kinds, Frames, Replies
  <2>2. reply' = Item("reply", asked)
    BY <1>1, <1>4, <1>5
  <2> QED
    BY <2>1, <2>2, ItemType
<1>8. PacketTypeOK'
  BY <1>1, <1>3, <1>7 DEF PInv, PacketTypeOK
<1>9. Turn' /\ Unseen' /\ Running' /\ Owed' /\ Patience' /\ Sole' /\ Alert'
  BY <1>4, <1>5 DEF PInv, Turn, Unseen, Running, InRun, Owed, Patience, Sole, Alert
<1>10. \A i \in 1 .. Len(down') : ~Fresh(i)'
  BY <1>4, <1>5, <1>6, SignItems DEF Fresh, IsSign, Signs
<1>11. Asked'
  BY <1>4, <1>5, <1>7, <1>10 DEF Asked, Answering, IsSign, Signs
<1>12. OneReply'
  BY <1>4, <1>6 DEF OneReply, IsSign, Signs
<1> QED
  BY <1>4, <1>8, <1>9, <1>11, <1>12 DEF PInv

LEMMA WorkInv ==
    ASSUME PInv, Work
    PROVE  PInv'
<1>1. /\ at = "work" /\ handled' = handled + 1 /\ job' \in {job, TRUE}
      /\ down' = down \o <<reply>> /\ at' = "put" /\ reply' = reply /\ then' = "prompt"
      /\ UNCHANGED <<gdbvars, up, cache, messages, faults, setting>>
  BY DEF Work, Put
<1> USE <1>1 DEF gdbvars, setting
<1>2. out.is = "ask" /\ Delivered /\ gdb # "idle"
  BY DEF PInv, Turn, Unseen, Running, InRun, PacketTypeOK, Requests
<1>3. /\ reply = Item("reply", asked) /\ handled' = asked
      /\ \A i \in 1 .. Len(down) : ~Fresh(i)
      /\ \A i \in 1 .. Len(Inbox) : IsSign(Inbox[i])
  BY <1>2 DEF PInv, Asked, Answering
<1>4. down' \in Seq(Items) /\ Grows(down, down', reply) /\ reply \in Items /\ reply.is \in Replies
  BY DownAdded DEF PInv, PacketTypeOK
<1>5. UNCHANGED Inbox
  BY DEF Inbox
<1>6. OnTheLines' /\ Answerable' /\ Faultless' /\ Delivered' = Delivered
  BY <1>4, <1>5, Offered, ServerLines DEF Takes
<1>7. /\ Len(down) \in Nat /\ Len(down') = Len(down) + 1 /\ down'[Len(down')] = reply
      /\ \A i \in 1 .. Len(down') : i \in 1 .. Len(down) \/ i = Len(down')
      /\ \A i \in 1 .. Len(down) : down'[i] = down[i] /\ Fresh(i)' = Fresh(i)
  BY <1>4, Offered, OffersLines DEF Grows
<1>8. PacketTypeOK'
  <2>1. job' \in BOOLEAN
    BY DEF PInv, PacketTypeOK
  <2> QED
    BY <1>4, <2>1 DEF PInv, PacketTypeOK
<1>9. Turn' /\ Unseen' /\ Running' /\ Patience' /\ Sole' /\ Alert'
  BY <1>2, <1>6 DEF PInv, Turn, Unseen, Running, InRun, Patience, Sole, Alert
<1>10. Asked'
  BY <1>3, <1>5, <1>7 DEF Asked, Answering
<1>11. Owed'
  BY <1>4, <1>7 DEF Owed, IsSign, Signs, Replies
<1>12. OneReply'
  BY <1>2, <1>4, <1>7 DEF PInv, OneReply, Replies
<1> QED
  BY <1>6, <1>8, <1>9, <1>10, <1>11, <1>12 DEF PInv

LEMMA ContinueInv ==
    ASSUME PInv, Continue
    PROVE  PInv'
<1>1. /\ up' \in Seq(Items) /\ cache' \in Seq(Items)
      /\ Shrinks(Inbox, Inbox') /\ Inbox[1].is = "c"
  BY InboxTaken DEF Continue, PInv, PacketTypeOK
<1>2. /\ at = "get" /\ then = "prompt" /\ at' \in {"run", "fake"} /\ handled' = handled + 1
      /\ UNCHANGED <<gdbvars, reply, then, job, messages, faults, setting>>
  BY DEF Continue, AtPrompt
<1> USE <1>2 DEF gdbvars, setting
<1>3. down' \in Seq(Items) /\ Grows(down, down', Plus)
  BY DownAdded, SignItems DEF Continue, PInv, PacketTypeOK
<1>4. /\ OnTheLines' /\ Answerable' /\ Faultless' /\ Delivered'
      /\ gdb = "send" /\ ~Delivered /\ Inbox[1] = out
      /\ Len(down) \in Nat /\ down'[Len(down) + 1] = Plus
      /\ \A i \in 1 .. Len(down) : down'[i] = down[i] /\ ~IsSign(down[i])
  BY <1>1, <1>3, ReceivedLines DEF Requests
<1>5. out.is = "c" /\ handled' = asked
  BY <1>1, <1>4 DEF PInv, Unseen
<1>6. Len(down') = Len(down) + 1
  BY <1>3 DEF Grows
<1>7. PacketTypeOK'
  BY <1>1, <1>3 DEF PInv, PacketTypeOK
<1>8. Turn' /\ Unseen' /\ Asked' /\ Owed' /\ Patience' /\ OneReply' /\ Sole'
  BY <1>4, <1>5 DEF PInv, Turn, Unseen, Asked, Answering, Owed, Patience, OneReply, Sole
<1>9. \A i \in 1 .. Len(down') : ~Fresh(i)'
  BY <1>4, <1>5, <1>6, SignItems DEF Fresh, IsSign, Signs
<1>10. Running'
  BY <1>5, <1>9 DEF Running
<1>11. Alert'
  <2> SUFFICES ASSUME user = "careful", faults = 0
               PROVE  /\ \A i \in 1 .. Len(Inbox') : Inbox'[i] = ETX
                      /\ \A i \in 1 .. Len(down') : down'[i].is = "+"
    BY <1>5 DEF Alert
  <2>1. Len(down) = 0 /\ \A i \in 1 .. Len(Inbox) - 1 : Inbox[i].is = "+"
    BY <1>4, <1>5 DEF PInv, Sole
  <2>2. Len(Inbox') = 0
    BY <1>1, <2>1 DEF Shrinks
  <2> QED
    BY <1>4, <1>6, <2>1, <2>2, SignItems
<1> QED
  BY <1>4, <1>7, <1>8, <1>10, <1>11 DEF PInv

LEMMA InterruptPromptInv ==
    ASSUME PInv, InterruptPrompt
    PROVE  PInv'
<1>1. /\ up' \in Seq(Items) /\ cache' \in Seq(Items)
      /\ Shrinks(Inbox, Inbox') /\ Inbox[1].is = "^C"
  BY InboxTaken DEF InterruptPrompt, PInv, PacketTypeOK
<1>2. /\ at = "get" /\ then = "prompt" /\ job' = FALSE
      /\ down' = down \o <<Empty>> /\ at' = "put" /\ reply' = Empty /\ then' = "prompt"
      /\ UNCHANGED <<gdbvars, handled, messages, faults, setting>>
  BY DEF InterruptPrompt, AtPrompt, Put
<1> USE <1>2 DEF gdbvars, setting
<1>3. /\ down' \in Seq(Items) /\ Grows(down, down', Empty)
      /\ Empty \in Items /\ Empty.is = "empty" /\ Empty.is \in Replies
  BY DownAdded, SignItems DEF PInv, PacketTypeOK, Replies
<1>4. OnTheLines' /\ Answerable' /\ Faultless' /\ Delivered' = Delivered /\ (Worn' => Worn)
  BY <1>1, <1>3, Offered, ServerLines DEF Takes
<1>5. ~Alone
  BY <1>1 DEF Alone, Shrinks, Carries, Requests
<1>6. Patience'
  BY <1>4, <1>5, PatienceKept
<1>7. /\ Len(down) \in Nat /\ Len(down') = Len(down) + 1 /\ down'[Len(down')] = Empty
      /\ \A i \in 1 .. Len(down') : i \in 1 .. Len(down) \/ i = Len(down')
      /\ \A i \in 1 .. Len(down) : down'[i] = down[i] /\ Fresh(i)' = Fresh(i)
  BY <1>3, Offered, OffersLines DEF Grows
<1>8. PacketTypeOK'
  BY <1>1, <1>3 DEF PInv, PacketTypeOK
<1>9. Turn' /\ Unseen' /\ Alert'
  BY <1>4 DEF PInv, Turn, Unseen, Alert
<1>10. ~(out.is = "ask" /\ Delivered)
  <2>1. 1 \in 1 .. Len(Inbox)
    BY <1>1 DEF Shrinks
  <2> QED
    BY <1>1, <2>1 DEF PInv, Asked, Answering, IsSign, Signs
<1>11. Asked' /\ OneReply'
  BY <1>4, <1>10 DEF Asked, Answering, OneReply
<1>12. Running'
  BY <1>3, <1>4, <1>7 DEF PInv, Running, InRun
<1>13. Owed'
  BY <1>3, <1>7 DEF Owed, IsSign, Signs
<1>14. Sole'
  <2> SUFFICES ASSUME user = "careful", faults = 0, out.is = "c", ~Delivered
               PROVE  FALSE
    BY <1>4 DEF Sole
  <2>1. /\ Inbox[Len(Inbox)].is = "c"
        /\ \A i \in 1 .. Len(Inbox) - 1 : Inbox[i].is = "+"
    BY DEF PInv, Sole
  <2> QED
    BY <1>1, <2>1 DEF Shrinks
<1> QED
  BY <1>4, <1>6, <1>8, <1>9, <1>11, <1>12, <1>13, <1>14 DEF PInv

(* While the program runs or the fake continue lasts, the server offers    *)
(* packets, or takes one of gdb's and answers it.                          *)
LEMMA RunPuts ==
    ASSUME PInv, InRun, gdb # "idle", ~Alone, Takes,
           down' \in Seq(Items), Len(down') > Len(down),
           \A i \in 1 .. Len(down) : down'[i] = down[i],
           \A i \in Len(down) + 1 .. Len(down') :
              /\ down'[i].is \in Replies
              /\ down'[i].is = "stop" => down'[i].of = asked /\ then' = "prompt",
           at' = "put", reply' \in Items, reply'.is \in Replies,
           then' \in {"prompt", "write", "written", "stop"},
           reply'.is = "stop" => reply'.of = asked /\ then' = "prompt",
           then' # "prompt" => \A i \in 1 .. Len(down) : Fresh(i) => down[i].is # "stop",
           up' \in Seq(Items), cache' \in Seq(Items),
           job' \in BOOLEAN, messages' \in 0 .. Messages,
           UNCHANGED <<gdbvars, handled, faults, setting>>
    PROVE  PInv'
<1> USE DEF gdbvars, setting
<1>1. Len(down) \in Nat /\ Len(down') \in Nat
  BY DEF PInv, PacketTypeOK
<1>2. Offers
  BY <1>1 DEF Offers
<1>3. OnTheLines' /\ Answerable' /\ Faultless' /\ Delivered' = Delivered /\ (Worn' => Worn)
  BY <1>2, ServerLines
<1>4. Patience'
  BY <1>3, PatienceKept
<1>5. /\ \A i \in 1 .. Len(down') : i \in 1 .. Len(down) \/ i \in Len(down) + 1 .. Len(down')
      /\ \A i \in 1 .. Len(down) : Fresh(i)' = Fresh(i)
  BY <1>1, <1>2, OffersLines
<1>6. PacketTypeOK'
  BY DEF PInv, PacketTypeOK
<1>7. out.is \in {"c", "m", "F"} /\ (out.is = "c" => Delivered)
  BY DEF InRun
<1>8. Turn' /\ Unseen' /\ Asked' /\ OneReply' /\ Sole' /\ Alert'
  BY <1>3, <1>7 DEF PInv, Turn, Unseen, Asked, Answering, OneReply, Sole, Alert
<1>9. Running'
  BY <1>5 DEF PInv, Running
<1>10. Owed'
  <2>1. Len(down') \in 1 .. Len(down') /\ Len(down') \in Len(down) + 1 .. Len(down')
    BY <1>1
  <2>2. ~IsSign(down'[Len(down')])
    BY <2>1 DEF IsSign, Signs, Replies
  <2> QED
    BY <2>1, <2>2 DEF Owed, IsSign
<1> QED
  BY <1>3, <1>4, <1>6, <1>8, <1>9, <1>10 DEF PInv

LEMMA RunOffers ==
    ASSUME PInv, InRun, gdb # "idle", ~Alone, Takes,
           NEW x \in Items, x.is \in Replies, down' = down \o <<x>>,
           at' = "put", reply' = x, then' \in {"prompt", "write", "written", "stop"},
           x.is = "stop" => x.of = asked /\ then' = "prompt",
           then' # "prompt" => \A i \in 1 .. Len(down) : Fresh(i) => down[i].is # "stop",
           up' \in Seq(Items), cache' \in Seq(Items),
           job' \in BOOLEAN, messages' \in 0 .. Messages,
           UNCHANGED <<gdbvars, handled, faults, setting>>
    PROVE  PInv'
<1>1. down' \in Seq(Items) /\ Grows(down, down', x)
  BY DownAdded DEF PInv, PacketTypeOK
<1>2. /\ Len(down') > Len(down)
      /\ \A i \in 1 .. Len(down) : down'[i] = down[i]
      /\ \A i \in Len(down) + 1 .. Len(down') : down'[i] = x
  BY <1>1 DEF Grows
<1> QED
  BY <1>1, <1>2, RunPuts

(* putpacket has found a +, perhaps in a packet it has sent its own again  *)
(* for.                                                                    *)
LEMMA FinishInv ==
    ASSUME PInv, at = "put", Shrinks(Inbox, Inbox'),
           up' \in Seq(Items), cache' \in Seq(Items),
           NEW n \in Nat, Finish(Copies(n)),
           (Inbox[1].is = "+" /\ n = 0) \/ Inbox[1].is \in {"ask", "bad"},
           UNCHANGED <<gdbvars, handled, job, messages, faults, setting>>
    PROVE  PInv'
<1> USE DEF gdbvars, setting
<1>1. down \in Seq(Items) /\ reply \in Items /\ reply.is \in Replies /\ Len(down) \in Nat
  BY DEF PInv, PacketTypeOK
<1>2. Takes /\ ~Alone
  BY DEF Takes, Alone
<1>3. CASE then # "stop"
  <2>1. at' = "get" /\ down' = down \o Copies(n) /\ UNCHANGED <<reply, then>>
    BY <1>3 DEF Finish
  <2>2. down' \in Seq(Items) /\ Len(down') = Len(down) + n /\ Fills(down, down', reply)
    BY <1>1, <2>1, CopiesAdded
  <2>3. Offers
    BY <1>1, <2>2 DEF Offers, Fills
  <2>4. OnTheLines' /\ Answerable' /\ Faultless' /\ Delivered' = Delivered /\ (Worn' => Worn)
    BY <1>2, <2>3, ServerLines
  <2>5. Patience'
    BY <1>2, <2>4, PatienceKept
  <2>6. /\ \A i \in 1 .. Len(down') :
              (i \in 1 .. Len(down) /\ down'[i] = down[i]) \/ down'[i] = reply
        /\ \A i \in 1 .. Len(down) : Fresh(i)' = Fresh(i)
    <3>1. \A i \in 1 .. Len(down') :
              (i \in 1 .. Len(down) /\ down'[i] = down[i]) \/ down'[i] = reply
      BY <2>2 DEF Fills
    <3> QED
      BY <2>3, <3>1, OffersLines
  <2>7. PacketTypeOK'
    BY <2>1, <2>2 DEF PInv, PacketTypeOK
  <2>8. Turn' /\ Unseen' /\ Owed' /\ Alert'
    BY <2>1, <2>4 DEF PInv, Turn, Unseen, Owed, Alert
  <2>9. Running'
    BY <2>1, <2>4, <2>6 DEF PInv, Running, InRun
  <2>10. Asked'
    <3> SUFFICES ASSUME out.is = "ask", Delivered PROVE Asked'
      BY <2>4 DEF Asked, Answering
    <3>1. /\ then = "prompt" /\ handled = asked /\ reply = Item("reply", asked)
          /\ \A i \in 1 .. Len(down) :
                Fresh(i) => down[i].is = "bad" \/ down[i] = Item("reply", asked)
      BY DEF PInv, Asked, Answering
    <3>2. \A i \in 1 .. Len(Inbox') : IsSign(Inbox'[i])
      BY <1>2, SignsKept
    <3>3. \A i \in 1 .. Len(down') :
              Fresh(i)' => down'[i].is = "bad" \/ down'[i] = Item("reply", asked)
      BY <2>2, <2>6, <3>1
    <3> QED
      BY <2>1, <3>1, <3>2, <3>3 DEF Asked, Answering
  <2>11. OneReply'
    <3> SUFFICES ASSUME out.is = "ask", Delivered PROVE OneReply'
      BY <2>4 DEF OneReply
    <3>1. IsSign(Inbox[1])
      BY DEF PInv, Asked, Answering, Shrinks
    <3>2. n = 0
      BY <3>1 DEF IsSign, Signs
    <3> QED
      BY <1>1, <2>1, <2>2, <3>2 DEF PInv, OneReply
  <2>12. Sole'
    <3> SUFFICES ASSUME user = "careful", faults = 0, out.is = "c", ~Delivered PROVE Sole'
      BY <2>4 DEF Sole
    <3>1. Inbox[1].is \in {"+", "c"}
      BY DEF PInv, Sole, Shrinks
    <3>2. n = 0 /\ Inbox[1].is # "c"
      BY <3>1
    <3>3. UNCHANGED down
      BY <1>1, <2>2, <3>2, SeqEqual DEF Fills
    <3> QED
      BY <2>4, <3>2, <3>3, SoleKept
  <2> QED
    BY <2>4, <2>5, <2>7, <2>8, <2>9, <2>10, <2>11, <2>12 DEF PInv
<1>4. CASE then = "stop"
  <2> DEFINE c == down \o Copies(n)
  <2>1. /\ InRun /\ gdb # "idle" /\ handled = asked
        /\ Stop \in Items /\ Stop.is = "stop" /\ Stop.of = asked
    BY <1>4, HandledType, RunPhase
  <2>2. reply.is # "stop"
    BY <1>4, <2>1 DEF PInv, Running
  <2>3. c \in Seq(Items) /\ Copies(n) \in Seq(Items) /\ Fills(down, c, reply)
    BY <1>1, CopiesAdded
  <2>4. down' = Append(c, Stop) /\ at' = "put" /\ reply' = Stop /\ then' = "prompt"
    <3> DEFINE k == Copies(n)
    <3> HIDE DEF k
    <3>1. k \in Seq(Items) => /\ down \o Append(k, Stop) = Append(down \o k, Stop)
                              /\ Append(k, Stop)[Len(Append(k, Stop))] = Stop
      BY <1>1, <2>1
    <3> QED
      BY <1>4, <2>3, <3>1 DEF Finish, Put, k
  <2> HIDE DEF c
  <2>5. /\ down' \in Seq(Items) /\ Len(down') = Len(c) + 1 /\ down'[Len(c) + 1] = Stop
        /\ \A i \in 1 .. Len(c) : down'[i] = c[i]
    BY <2>1, <2>3, <2>4, Added
  <2>6. /\ Len(down') > Len(down)
        /\ \A i \in 1 .. Len(down) : down'[i] = down[i]
        /\ \A i \in Len(down) + 1 .. Len(down') : down'[i] = reply \/ down'[i] = Stop
    <3>1. /\ Len(c) \in Nat /\ Len(c) >= Len(down)
          /\ \A i \in 1 .. Len(down) : c[i] = down[i]
          /\ \A i \in Len(down) + 1 .. Len(c) : c[i] = reply
      BY <2>3 DEF Fills
    <3>2. ASSUME NEW i \in Len(down) + 1 .. Len(down') PROVE down'[i] = reply \/ down'[i] = Stop
      <4>1. i \in Len(down) + 1 .. Len(c) \/ i = Len(c) + 1
        BY <1>1, <2>5, <3>1
      <4> QED
        BY <1>1, <2>5, <3>1, <4>1
    <3>3. \A i \in 1 .. Len(down) : down'[i] = down[i]
      BY <1>1, <2>5, <3>1
    <3> QED
      BY <1>1, <2>5, <3>1, <3>2, <3>3
  <2>7. Stop.is \in Replies
    BY <2>1 DEF Replies
  <2>8. job' \in BOOLEAN /\ messages' \in 0 .. Messages
    BY DEF PInv, PacketTypeOK
  <2>9. \A i \in Len(down) + 1 .. Len(down') :
            /\ down'[i].is \in Replies
            /\ down'[i].is = "stop" => down'[i].of = asked /\ then' = "prompt"
    BY <1>1, <2>1, <2>2, <2>4, <2>6, <2>7
  <2> QED
    BY <1>2, <2>1, <2>4, <2>5, <2>6, <2>7, <2>8, <2>9, RunPuts
<1> QED
  BY <1>3, <1>4

LEMMA AckedInv ==
    ASSUME PInv, Acked \/ AckedInside
    PROVE  PInv'
<1>1. CASE Acked
  <2>1. /\ up' \in Seq(Items) /\ cache' \in Seq(Items)
        /\ Shrinks(Inbox, Inbox') /\ Inbox[1].is = "+"
    BY <1>1, InboxTaken DEF Acked, PInv, PacketTypeOK
  <2>2. Copies(0) = <<>>
    BY SeqEqual DEF Copies
  <2> QED
    BY <1>1, <2>1, <2>2, FinishInv DEF Acked
<1>2. CASE AckedInside
  <2>1. /\ up' \in Seq(Items) /\ cache' \in Seq(Items)
        /\ Shrinks(Inbox, Inbox') /\ Inbox[1].is \in {"ask", "bad"}
    BY <1>2, InboxTaken DEF AckedInside, PInv, PacketTypeOK
  <2>2. PICK n \in Nat : Finish(Copies(n))
    BY <1>2, Constants DEF AckedInside
  <2> QED
    BY <1>2, <2>1, <2>2, FinishInv DEF AckedInside
<1> QED
  BY <1>1, <1>2

(* The server answers a packet about a message. *)
LEMMA RunAnswers ==
    ASSUME PInv, Shrinks(Inbox, Inbox'), Inbox[1].is \in {"m", "F"},
           NEW x \in Items, x.is \in {"empty", "reply"}, down' = down \o <<Plus, x>>,
           at' = "put", reply' = x, then' \in {"prompt", "write", "written"},
           then' # "prompt" => \A i \in 1 .. Len(down) : Fresh(i) => down[i].is # "stop",
           up' \in Seq(Items), cache' \in Seq(Items),
           UNCHANGED <<gdbvars, handled, job, messages, faults, setting>>
    PROVE  PInv'
<1> USE DEF gdbvars, setting
<1> DEFINE d == Append(down, Plus)
<1>1. d \in Seq(Items) /\ Grows(down, d, Plus) /\ down' \in Seq(Items) /\ Grows(d, down', x)
  BY AddedTwo, SignItems DEF PInv, PacketTypeOK
<1> HIDE DEF d
<1>2. x.is \in Replies /\ Inbox[1].is \in Requests
  BY DEF Replies, Requests
<1>3. /\ OnTheLines' /\ Answerable' /\ Faultless' /\ Delivered'
      /\ gdb = "send" /\ ~Delivered /\ Inbox[1] = out
      /\ Len(down) \in Nat /\ Len(down') \in {Len(down) + 1, Len(down) + 2}
      /\ down'[Len(down) + 1] = Plus
      /\ \A i \in 1 .. Len(down) :
            down'[i] = down[i] /\ ~IsSign(down[i]) /\ Fresh(i)' = Fresh(i)
      /\ \A i \in 1 .. Len(down') :
            i \in 1 .. Len(down) \/ i = Len(down) + 1 \/ (i = Len(down) + 2 /\ i = Len(down'))
  BY <1>1, <1>2, ReceivedLines
<1>4. Len(down') = Len(down) + 2 /\ down'[Len(down) + 2] = x
  BY <1>1 DEF Grows
<1>5. PacketTypeOK'
  BY <1>1, <1>2 DEF PInv, PacketTypeOK
<1>6. out.is \in {"m", "F"}
  BY <1>3
<1>7. Turn' /\ Unseen' /\ Asked' /\ Patience' /\ OneReply' /\ Sole' /\ Alert'
  BY <1>3, <1>6 DEF PInv, Turn, Unseen, Asked, Answering, Patience, OneReply, Sole, Alert
<1>8. handled = asked /\ \A i \in 1 .. Len(down) : Fresh(i) /\ down[i].is = "stop" =>
          down[i].of = asked
  BY <1>6 DEF PInv, Running, InRun
<1>9. Running'
  <2>1. ASSUME NEW i \in 1 .. Len(down'), Fresh(i)', down'[i].is = "stop"
        PROVE  down'[i].of = asked /\ then' = "prompt"
    <3>1. i \in 1 .. Len(down)
      BY <1>3, <1>4, <2>1, SignItems
    <3> QED
      BY <1>3, <1>8, <2>1, <3>1
  <2> QED
    BY <1>8, <2>1 DEF Running
<1>10. Owed'
  <2>1. Len(down) + 2 \in 1 .. Len(down') /\ ~IsSign(down'[Len(down) + 2])
    BY <1>3, <1>4 DEF IsSign, Signs
  <2> QED
    BY <2>1 DEF Owed
<1> QED
  BY <1>3, <1>5, <1>7, <1>9, <1>10 DEF PInv

LEMMA UnsupportedInv ==
    ASSUME PInv, Unsupported
    PROVE  PInv'
<1>1. /\ up' \in Seq(Items) /\ cache' \in Seq(Items)
      /\ Shrinks(Inbox, Inbox') /\ Inbox[1].is \in {"m", "F"}
  BY InboxTaken DEF Unsupported, PInv, PacketTypeOK
<1>2. /\ down' = down \o <<Plus, Empty>> /\ at' = "put" /\ reply' = Empty /\ then' = "prompt"
      /\ UNCHANGED <<gdbvars, handled, job, messages, faults, setting>>
  BY DEF Unsupported, Put
<1> QED
  BY <1>1, <1>2, RunAnswers, SignItems

(* The run ends. *)
LEMMA StopsInv ==
    ASSUME PInv, at \in {"run", "fake"}, Put(<<Stop>>, "prompt"),
           UNCHANGED <<gdbvars, up, cache, handled, job, messages, faults, setting>>
    PROVE  PInv'
<1>1. down' = down \o <<Stop>> /\ at' = "put" /\ reply' = Stop /\ then' = "prompt"
  BY HandledType DEF Put
<1>2. InRun /\ gdb # "idle" /\ handled = asked
  BY RunPhase
<1>3. Stop \in Items /\ Stop.is = "stop" /\ Stop.is \in Replies /\ Stop.of = asked
  BY <1>2, HandledType DEF Replies
<1>4. ~Alone
  BY DEF Alone
<1>5. Takes
  BY DEF Takes, Inbox
<1>6. up' \in Seq(Items) /\ cache' \in Seq(Items) /\ job' \in BOOLEAN /\ messages' \in 0 .. Messages
  BY DEF PInv, PacketTypeOK
<1> QED
  BY <1>1, <1>2, <1>3, <1>4, <1>5, <1>6, RunOffers

LEMMA RunStopsInv ==
    ASSUME PInv, ProgramStops \/ InterruptRun \/ FakeEnd
    PROVE  PInv'
BY StopsInv DEF ProgramStops, InterruptRun, FakeEnd

LEMMA FakeWriteInv ==
    ASSUME PInv, FakeWrite
    PROVE  PInv'
<1> DEFINE x == Item("Fwrite", 0)
<1>1. /\ at = "fake" /\ messages > 0 /\ messages' = messages - 1
      /\ down' = down \o <<x>> /\ at' = "put" /\ reply' = x /\ then' = "write"
      /\ UNCHANGED <<gdbvars, up, cache, handled, job, faults, setting>>
  BY DEF FakeWrite, Put
<1>2. x \in Items /\ x.is \in Replies /\ x.is # "stop"
  <2>1. "Fwrite" \in Kinds /\ "Fwrite" \in Replies
    BY DEF Kinds, Frames, Replies
  <2> QED
    BY <2>1, ItemType, Constants
<1> HIDE DEF x
<1>3. /\ InRun /\ gdb # "idle"
      /\ \A i \in 1 .. Len(down) : Fresh(i) => down[i].is # "stop"
  BY <1>1, RunPhase
<1>4. ~Alone
  BY <1>1 DEF Alone
<1>5. Takes
  BY <1>1 DEF Takes, Inbox
<1>6. up' \in Seq(Items) /\ cache' \in Seq(Items) /\ job' \in BOOLEAN /\ messages' \in 0 .. Messages
  BY <1>1, Constants DEF PInv, PacketTypeOK
<1> QED
  BY <1>1, <1>2, <1>3, <1>4, <1>5, <1>6, RunOffers

LEMMA FakeReadInv ==
    ASSUME PInv, FakeRead
    PROVE  PInv'
<1> DEFINE x == Item("reply", 0)
<1>1. /\ up' \in Seq(Items) /\ cache' \in Seq(Items)
      /\ Shrinks(Inbox, Inbox') /\ Inbox[1].is \in {"m", "F"}
  BY InboxTaken DEF FakeRead, PInv, PacketTypeOK
<1>2. /\ then = "write" /\ down' = down \o <<Plus, x>> /\ at' = "put" /\ reply' = x
      /\ then' = "written"
      /\ UNCHANGED <<gdbvars, handled, job, messages, faults, setting>>
  BY DEF FakeRead, Put
<1>3. x \in Items /\ x.is = "reply"
  <2>1. "reply" \in Kinds
    BY DEF Kinds, Frames, Replies
  <2> QED
    BY <2>1, ItemType, Constants
<1> HIDE DEF x
<1>4. \A i \in 1 .. Len(down) : Fresh(i) => down[i].is # "stop"
  BY <1>2, RunPhase
<1> QED
  BY <1>1, <1>2, <1>3, <1>4, RunAnswers

LEMMA FakeOtherInv ==
    ASSUME PInv, FakeOther
    PROVE  PInv'
<1>1. /\ up' \in Seq(Items) /\ cache' \in Seq(Items)
      /\ Shrinks(Inbox, Inbox') /\ Inbox[1].is \in Frames
  BY InboxTaken DEF FakeOther, PInv, PacketTypeOK
<1>2. /\ then = "write" /\ down' = down \o <<Plus, Empty>> /\ at' = "put" /\ reply' = Empty
      /\ then' = "write"
      /\ UNCHANGED <<gdbvars, handled, job, messages, faults, setting>>
  BY DEF FakeOther, Put
<1>3. /\ InRun /\ out.is \in {"c", "m", "F"}
      /\ \A i \in 1 .. Len(down) : Fresh(i) => down[i].is # "stop"
  BY <1>2, RunPhase
<1>4. Inbox[1] = out /\ ~Delivered
  <2>1. Inbox[1] = out
    BY <1>1 DEF PInv, OnTheLines, InboxKinds, Shrinks, Frames, Requests, Replies
  <2> QED
    BY <1>1, <1>3, <2>1, TakesRequest DEF Carries, Requests
<1>5. Inbox[1].is \in {"m", "F"}
  BY <1>3, <1>4 DEF InRun
<1> QED
  BY <1>1, <1>2, <1>3, <1>5, RunAnswers, SignItems

LEMMA FakeInterruptInv ==
    ASSUME PInv, FakeInterrupt
    PROVE  PInv'
<1>1. /\ up' \in Seq(Items) /\ cache' \in Seq(Items)
      /\ Shrinks(Inbox, Inbox') /\ Inbox[1].is = "^C"
  BY InboxTaken DEF FakeInterrupt, PInv, PacketTypeOK
<1>2. /\ at = "get" /\ then = "write" /\ job' = FALSE
      /\ down' = down \o <<Empty>> /\ at' = "put" /\ reply' = Empty /\ then' = "stop"
      /\ UNCHANGED <<gdbvars, handled, messages, faults, setting>>
  BY DEF FakeInterrupt, Put
<1>3. /\ InRun /\ gdb # "idle"
      /\ \A i \in 1 .. Len(down) : Fresh(i) => down[i].is # "stop"
  BY <1>2, RunPhase
<1>4. ~Alone
  BY <1>1 DEF Alone, Shrinks, Carries, Requests
<1>5. Empty \in Items /\ Empty.is \in Replies /\ Empty.is # "stop"
  BY SignItems DEF Replies
<1>6. messages' \in 0 .. Messages
  BY <1>2 DEF PInv, PacketTypeOK
<1>7. job' \in BOOLEAN
  BY <1>2
<1> QED
  BY <1>1, <1>2, <1>3, <1>4, <1>5, <1>6, <1>7, RunOffers DEF Takes

LEMMA FakeWrittenInv ==
    ASSUME PInv, FakeWritten
    PROVE  PInv'
<1>1. /\ up' \in Seq(Items) /\ cache' \in Seq(Items) /\ Char = Inbox[1]
      /\ Shrinks(Inbox, Inbox') /\ Inbox[1].is \in Frames \cup {"^C"}
  BY InboxTaken DEF FakeWritten, PInv, PacketTypeOK
<1>2. /\ at = "get" /\ then = "written" /\ at' = "fake"
      /\ UNCHANGED <<gdbvars, reply, then, handled, job, messages, faults, setting>>
  BY DEF FakeWritten
<1> USE <1>2 DEF gdbvars, setting
<1>3. /\ InRun /\ out.is \in {"c", "m", "F"} /\ handled = asked /\ gdb # "idle"
      /\ \A i \in 1 .. Len(down) : Fresh(i) => down[i].is # "stop"
  BY RunPhase
<1>4. CASE Inbox[1].is = "^C"
  <2>1. UNCHANGED down
    BY <1>1, <1>4 DEF FakeWritten, Frames, Requests, Replies
  <2>2. OnTheLines' /\ Answerable' /\ Faultless' /\ Delivered' = Delivered /\ (Worn' => Worn)
    BY <1>1, <2>1, ServerLines DEF Takes, Offers
  <2>3. ~Alone
    BY <1>1, <1>4 DEF Alone, Shrinks, Carries, Requests
  <2>4. Patience'
    BY <2>2, <2>3, PatienceKept
  <2>5. \A i : Fresh(i)' = Fresh(i)
    BY <2>1 DEF Fresh
  <2>6. PacketTypeOK'
    BY <1>1, <2>1 DEF PInv, PacketTypeOK
  <2>7. Turn' /\ Unseen' /\ Asked' /\ Owed' /\ OneReply' /\ Sole' /\ Alert'
    BY <1>3, <2>2 DEF PInv, Turn, Unseen, Asked, Answering, Owed, InRun, OneReply, Sole, Alert
  <2>8. Running'
    BY <1>3, <2>1, <2>5 DEF Running
  <2> QED
    BY <2>2, <2>4, <2>6, <2>7, <2>8 DEF PInv
<1>5. CASE Inbox[1].is \in Frames
  <2>1. down' \in Seq(Items) /\ Grows(down, down', Plus)
    BY <1>1, <1>5, DownAdded, SignItems DEF FakeWritten, PInv, PacketTypeOK
  <2>2. Inbox[1].is \in Requests
    <3>1. 1 \in 1 .. Len(Inbox)
      BY <1>1 DEF Shrinks
    <3>2. Inbox[1].is \in {"+", "-", "^C", "bad"} \/ Inbox[1] = out
      BY <3>1 DEF PInv, OnTheLines, InboxKinds
    <3> QED
      BY <1>5, <3>2 DEF PInv, PacketTypeOK, Frames, Requests, Replies
  <2>3. /\ OnTheLines' /\ Answerable' /\ Faultless' /\ Delivered'
        /\ gdb = "send" /\ ~Delivered /\ Inbox[1] = out
        /\ Len(down) \in Nat /\ down'[Len(down) + 1] = Plus
        /\ \A i \in 1 .. Len(down) :
              down'[i] = down[i] /\ ~IsSign(down[i]) /\ Fresh(i)' = Fresh(i)
    BY <1>1, <2>1, <2>2, ReceivedLines
  <2>4. out.is \in {"m", "F"}
    BY <1>3, <2>3 DEF InRun
  <2>5. Len(down') = Len(down) + 1
    BY <2>1 DEF Grows
  <2>6. PacketTypeOK'
    BY <1>1, <2>1 DEF PInv, PacketTypeOK
  <2>7. Turn' /\ Unseen' /\ Asked' /\ Owed' /\ Patience' /\ OneReply' /\ Sole' /\ Alert'
    BY <2>3, <2>4 DEF PInv, Turn, Unseen, Asked, Answering, Owed, Patience, OneReply, Sole, Alert
  <2>8. Running'
    BY <1>3, <2>3, <2>4, <2>5, SignItems DEF Running
  <2> QED
    BY <2>3, <2>6, <2>7, <2>8 DEF PInv
<1> QED
  BY <1>1, <1>4, <1>5

(* Callbacks change nothing that gdb or the lines see.                     *)
LEMMA JobInv ==
    ASSUME PInv, JobSpeaks \/ JobEnds
    PROVE  PInv'
<1>1. /\ UNCHANGED <<gdbvars, linevars, at, reply, then, handled, faults, setting>>
      /\ job' \in BOOLEAN
  BY DEF JobSpeaks, JobEnds, PInv, PacketTypeOK
<1>2. messages' \in 0 .. Messages
  BY Constants DEF JobSpeaks, JobEnds, PInv, PacketTypeOK
<1> USE <1>1 DEF gdbvars, linevars, setting
<1>3. PacketTypeOK'
  BY <1>2 DEF PInv, PacketTypeOK
<1>4. UNCHANGED Inbox
  BY DEF Inbox
<1>5. OnTheLines' /\ Answerable' /\ Faultless' /\ Delivered' = Delivered /\ (Worn' => Worn)
  BY <1>4, ServerLines DEF Takes, Offers
<1>6. Alone' = Alone /\ \A i : Fresh(i)' = Fresh(i)
  BY <1>4 DEF Alone, Fresh
<1>7. Turn' /\ Unseen' /\ Asked' /\ Running' /\ Owed'
  BY <1>4, <1>5, <1>6 DEF PInv, Turn, Unseen, Asked, Answering, Running, InRun, Owed
<1>8. Patience'
  BY <1>5, <1>6 DEF PInv, Patience, PacketTypeOK
<1>9. OneReply' /\ Sole' /\ Alert'
  BY <1>4, <1>5 DEF PInv, OneReply, Sole, Alert
<1> QED
  BY <1>3, <1>5, <1>7, <1>8, <1>9 DEF PInv

-----------------------------------------------------------------------------
(* gdb *)

(* gdb puts something on the line to the server. *)
LEMMA InboxGains ==
    ASSUME PInv, NEW x, Grows(Inbox, Inbox', x),
           \/ x.is = "+" /\ UNCHANGED out
           \/ x.is \in {"-", "^C"} /\ UNCHANGED out /\ \A i \in 1 .. Len(Inbox) : ~Carries(Inbox[i])
           \/ x = out' /\ \A i \in 1 .. Len(Inbox) : ~Carries(Inbox[i])
    PROVE  /\ InboxKinds' /\ OneRequest'
           /\ Len(Inbox) \in Nat /\ Len(Inbox') = Len(Inbox) + 1 /\ Inbox'[Len(Inbox')] = x
           /\ \A i \in 1 .. Len(Inbox) : Inbox'[i] = Inbox[i] /\ i \in 1 .. Len(Inbox')
           /\ \A i \in 1 .. Len(Inbox') : i \in 1 .. Len(Inbox) \/ i = Len(Inbox')
<1>1. /\ Len(Inbox) \in Nat /\ Len(Inbox') = Len(Inbox) + 1 /\ Inbox'[Len(Inbox')] = x
      /\ \A i \in 1 .. Len(Inbox) : Inbox'[i] = Inbox[i] /\ i \in 1 .. Len(Inbox')
      /\ \A i \in 1 .. Len(Inbox') : i \in 1 .. Len(Inbox) \/ i = Len(Inbox')
  BY DEF Grows
<1>2. /\ \A i \in 1 .. Len(Inbox) : Inbox[i].is \in {"+", "-", "^C", "bad"} \/ Inbox[i] = out
      /\ out.is \in Requests
      /\ \A i, j \in 1 .. Len(Inbox) : i < j /\ Carries(Inbox[i]) => Inbox[j].is = "+"
  BY DEF PInv, PacketTypeOK, OnTheLines, InboxKinds, OneRequest
<1>3. InboxKinds'
  BY <1>1, <1>2 DEF InboxKinds, Carries
<1>4. OneRequest'
  <2> SUFFICES ASSUME NEW i \in 1 .. Len(Inbox'), NEW j \in 1 .. Len(Inbox'),
                      i < j, Carries(Inbox'[i])
               PROVE  Inbox'[j].is = "+"
    BY DEF OneRequest, Carries
  <2>1. i \in 1 .. Len(Inbox)
    BY <1>1
  <2> QED
    BY <1>1, <1>2, <2>1
<1> QED
  BY <1>1, <1>3, <1>4

(* gdb takes something from its line. *)
LEMMA HeardLines ==
    ASSUME PInv, Shrinks(down, down'), down' \in Seq(Items)
    PROVE  /\ DownKinds' /\ OneSign'
           /\ Len(down) \in Nat \ {0} /\ Len(down') = Len(down) - 1
           /\ 1 \in 1 .. Len(down)
           /\ \A i \in 1 .. Len(down') : down'[i] = down[i + 1] /\ i + 1 \in 1 .. Len(down)
           /\ \A i \in 1 .. Len(down) :
                 i = 1 \/ (i - 1 \in 1 .. Len(down') /\ down'[i - 1] = down[i])
           /\ IsSign(down[1]) => \A i \in 1 .. Len(down') : ~IsSign(down'[i])
           /\ Cardinality(BadIn(down)) =
                 Cardinality(BadIn(down')) + IF down[1].is = "bad" THEN 1 ELSE 0
           /\ Cardinality(BadIn(down)) \in Nat /\ Cardinality(BadIn(down')) \in Nat
<1>1. /\ Len(down) \in Nat \ {0} /\ Len(down') = Len(down) - 1
      /\ 1 \in 1 .. Len(down)
      /\ \A i \in 1 .. Len(down') : down'[i] = down[i + 1] /\ i + 1 \in 1 .. Len(down)
      /\ \A i \in 1 .. Len(down) : i = 1 \/ (i - 1 \in 1 .. Len(down') /\ down'[i - 1] = down[i])
  BY DEF Shrinks
<1>2. DownKinds'
  BY <1>1 DEF PInv, OnTheLines, DownKinds
<1>3. OneSign'
  <2> SUFFICES ASSUME NEW i \in 1 .. Len(down'), NEW j \in 1 .. Len(down'), i < j
               PROVE  ~IsSign(down'[i]) \/ ~IsSign(down'[j])
    BY DEF OneSign, IsSign
  <2>1. i + 1 \in 1 .. Len(down) /\ j + 1 \in 1 .. Len(down) /\ i + 1 < j + 1
    BY <1>1
  <2> QED
    BY <1>1, <2>1 DEF PInv, OnTheLines, OneSign
<1>4. ASSUME IsSign(down[1]), NEW i \in 1 .. Len(down') PROVE ~IsSign(down'[i])
  <2>1. i + 1 \in 1 .. Len(down) /\ 1 < i + 1 /\ down'[i] = down[i + 1]
    BY <1>1
  <2> QED
    BY <1>1, <1>4, <2>1 DEF PInv, OnTheLines, OneSign
<1>5. down \in Seq(Items)
  BY DEF PInv, PacketTypeOK
<1> QED
  BY <1>1, <1>2, <1>3, <1>4, <1>5, BadTaken, BadsFinite

(* gdb goes on hearing what it hears: the packets it has not heard yet are *)
(* as new as before.                                                       *)
LEMMA HeardFresh ==
    ASSUME PInv, Shrinks(down, down'), down' \in Seq(Items), ~IsSign(down[1]),
           UNCHANGED <<gdb, out>>
    PROVE  /\ Delivered' = Delivered
           /\ \A i \in 1 .. Len(down') : Fresh(i)' => Fresh(i + 1)
<1>1. Delivered' = Delivered
  BY HeardLines DEF Delivered, IsSign, Signs
<1>2. ASSUME NEW i \in 1 .. Len(down'), Fresh(i)' PROVE Fresh(i + 1)
  <2>1. ~IsSign(down[i + 1])
    BY <1>2, HeardLines DEF Fresh, IsSign
  <2>2. CASE gdb # "send" \/ out.is \in {"m", "F"}
    BY <2>1, <2>2 DEF Fresh
  <2>3. CASE \E j \in 1 .. i - 1 : down'[j].is = "+"
    <3>1. PICK j \in 1 .. i - 1 : down'[j].is = "+"
      BY <2>3
    <3>2. j \in 1 .. Len(down') /\ j + 1 \in 1 .. (i + 1) - 1
      BY <3>1, HeardLines
    <3>3. down[j + 1].is = "+"
      BY <3>1, <3>2, HeardLines
    <3> QED
      BY <2>1, <3>2, <3>3 DEF Fresh
  <2> QED
    BY <1>2, <2>2, <2>3 DEF Fresh
<1> QED
  BY <1>1, <1>2

(* gdb sends its next request. *)
LEMMA RequestSent ==
    ASSUME PInv, gdb = "idle", asked < Turns, NEW k \in {"ask", "c"},
           k = "c" /\ user = "careful" => out.is = "ask",
           asked' = asked + 1, Send(Item(k, asked + 1)), up' = Append(up, out'),
           UNCHANGED <<took, ctrlc, down, cache, servervars, faults, setting>>
    PROVE  PInv'
<1> USE DEF servervars, setting
<1>1. /\ out' \in Items /\ out'.is = k /\ out'.of = asked' /\ asked' \in 0 .. Turns
      /\ gdb' = "send" /\ tries' = 0
  <2>1. k \in Kinds /\ asked + 1 \in 0 .. Turns
    BY Constants DEF PInv, PacketTypeOK, Kinds, Frames, Requests
  <2> QED
    BY <2>1, ItemType DEF Send
<1>2. up' \in Seq(Items) /\ Grows(Inbox, Inbox', out')
  BY <1>1, InboxAdded DEF PInv, PacketTypeOK
<1>3. /\ Delivered
      /\ \A i \in 1 .. Len(Inbox) : ~Carries(Inbox[i])
      /\ \A i \in 1 .. Len(down) : ~IsSign(down[i])
  BY DEF PInv, OnTheLines, NoneLeft, Delivered
<1>4. /\ InboxKinds' /\ OneRequest'
      /\ Len(Inbox) \in Nat /\ Len(Inbox') = Len(Inbox) + 1 /\ Inbox'[Len(Inbox')] = out'
      /\ \A i \in 1 .. Len(Inbox) : Inbox'[i] = Inbox[i] /\ i \in 1 .. Len(Inbox')
      /\ \A i \in 1 .. Len(Inbox') : i \in 1 .. Len(Inbox) \/ i = Len(Inbox')
  BY <1>2, <1>3, InboxGains
<1>5. ~Delivered'
  BY <1>1, <1>3 DEF Delivered, IsSign, Signs
<1>6. PacketTypeOK'
  BY <1>1, <1>2 DEF PInv, PacketTypeOK, Requests
<1>7. OnTheLines'
  BY <1>1, <1>3, <1>4 DEF PInv, OnTheLines, DownKinds, OneSign, NotBoth, NoneLeft
<1>8. at \in {"get", "put"} /\ then = "prompt" /\ handled = asked /\ took = asked
  BY DEF PInv, Turn
<1>9. Turn' /\ Unseen' /\ Asked' /\ Running' /\ Alert'
  BY <1>1, <1>5, <1>8, Constants DEF PInv, PacketTypeOK, Turn, Unseen, Asked, Answering,
     Running, InRun, Alert
<1>10. Owed'
  BY <1>4 DEF PInv, Owed
<1>11. Answerable'
  BY <1>1 DEF PInv, Answerable, Given
<1>12. ~Worn'
  BY <1>1, <1>3, <1>4 DEF Worn, Carries, IsSign, Signs, Requests
<1>13. Patience'
  BY <1>1, <1>12 DEF PInv, PacketTypeOK, Patience
<1>14. Faultless'
  BY <1>1, <1>4 DEF PInv, Faultless
<1>15. OneReply'
  BY <1>5 DEF OneReply
<1>16. Sole'
  <2> SUFFICES ASSUME user = "careful", faults = 0, k = "c"
               PROVE  /\ Len(down) = 0
                      /\ \A i \in 1 .. Len(Inbox) : Inbox[i].is = "+"
    BY <1>1, <1>4 DEF Sole
  <2>1. Len(down) = 0 /\ \A i \in 1 .. Len(Inbox) : IsSign(Inbox[i])
    BY <1>3 DEF PInv, OneReply, Asked, Answering
  <2> QED
    BY <2>1 DEF PInv, Faultless, IsSign, Signs
<1> QED
  BY <1>6, <1>7, <1>9, <1>10, <1>11, <1>13, <1>14, <1>15, <1>16 DEF PInv

LEMMA AsksInv ==
    ASSUME PInv, AskSomething \/ Resume
    PROVE  PInv'
BY RequestSent DEF AskSomething, Resume

LEMMA SendAckedInv ==
    ASSUME PInv, SendAcked
    PROVE  PInv'
<1>1. /\ gdb = "send" /\ gdb' = (IF out.is \in {"ask", "m"} THEN "answer" ELSE "wait")
      /\ tries' = 0
      /\ UNCHANGED <<asked, took, out, ctrlc, up, cache, servervars, faults, setting>>
  BY DEF SendAcked, Sent
<1> USE <1>1 DEF servervars, setting
<1>2. down' \in Seq(Items) /\ Shrinks(down, down') /\ down[1].is = "+"
  BY DownTaken DEF SendAcked, PInv, PacketTypeOK
<1>3. IsSign(down[1]) /\ UNCHANGED Inbox
  BY <1>2 DEF IsSign, Signs, Inbox
<1>4. /\ DownKinds' /\ OneSign'
      /\ Len(down) \in Nat \ {0} /\ Len(down') = Len(down) - 1 /\ 1 \in 1 .. Len(down)
      /\ \A i \in 1 .. Len(down') : down'[i] = down[i + 1] /\ i + 1 \in 1 .. Len(down)
      /\ \A i \in 1 .. Len(down) : i = 1 \/ (i - 1 \in 1 .. Len(down') /\ down'[i - 1] = down[i])
      /\ \A i \in 1 .. Len(down') : ~IsSign(down'[i])
      /\ Cardinality(BadIn(down)) = Cardinality(BadIn(down'))
  BY <1>2, <1>3, HeardLines
<1>5. Delivered /\ Delivered' /\ out.is \in Requests
  BY <1>2, <1>4 DEF Delivered, PInv, PacketTypeOK
<1>6. \A i \in 1 .. Len(Inbox) : ~Carries(Inbox[i])
  BY <1>5, Delivery
<1>7. OnTheLines'
  BY <1>3, <1>4, <1>6 DEF PInv, OnTheLines, InboxKinds, OneRequest, NotBoth, NoneLeft
<1>8. \A i \in 1 .. Len(down') : Fresh(i)' => Fresh(i + 1)
  <2> SUFFICES ASSUME NEW i \in 1 .. Len(down') PROVE Fresh(i + 1)
    OBVIOUS
  <2>1. ~IsSign(down[i + 1]) /\ 1 \in 1 .. (i + 1) - 1
    BY <1>4 DEF IsSign
  <2> QED
    BY <1>2, <2>1 DEF Fresh
<1>9. PacketTypeOK'
  BY <1>2 DEF PInv, PacketTypeOK
<1>10. Turn'
  BY <1>5 DEF PInv, Turn, Requests
<1>11. Unseen' /\ Patience' /\ Sole'
  BY <1>5 DEF Unseen, Patience, Sole
<1>12. Asked'
  <2> SUFFICES ASSUME out.is = "ask" PROVE Asked'
    BY DEF Asked, Answering
  <2>1. /\ \A i \in 1 .. Len(Inbox) : IsSign(Inbox[i])
        /\ then = "prompt" /\ at \in {"work", "put", "get"}
        /\ at = "work" => /\ handled + 1 = asked /\ reply = Item("reply", asked)
                          /\ \A i \in 1 .. Len(down) : ~Fresh(i)
        /\ at # "work" => /\ handled = asked
                          /\ at = "put" => reply = Item("reply", asked)
                          /\ \A i \in 1 .. Len(down) :
                                Fresh(i) => down[i].is = "bad" \/ down[i] = Item("reply", asked)
    BY <1>5 DEF PInv, Asked, Answering
  <2>2. \A i \in 1 .. Len(Inbox') : IsSign(Inbox'[i])
    BY <1>3, <2>1
  <2>3. ASSUME NEW i \in 1 .. Len(down'), Fresh(i)'
        PROVE  \E k \in 1 .. Len(down) : Fresh(k) /\ down'[i] = down[k]
    BY <1>4, <1>8, <2>3
  <2>4. at = "work" => \A i \in 1 .. Len(down') : ~Fresh(i)'
    BY <2>1, <2>3
  <2>5. ASSUME at # "work", NEW i \in 1 .. Len(down'), Fresh(i)'
        PROVE  down'[i].is = "bad" \/ down'[i] = Item("reply", asked)
    <3>1. PICK k \in 1 .. Len(down) : Fresh(k) /\ down'[i] = down[k]
      BY <2>3, <2>5
    <3> QED
      BY <2>1, <2>5, <3>1
  <2>6. UNCHANGED <<at, reply, then, handled, asked, out>>
    OBVIOUS
  <2> QED
    BY <2>1, <2>2, <2>4, <2>5, <2>6 DEF Asked, Answering
<1>13. Running'
  BY <1>4, <1>5, <1>8 DEF PInv, Running, InRun
<1>14. Owed'
  <2> SUFFICES ASSUME at = "put",  \A i \in 1 .. Len(Inbox) : Carries(Inbox[i])
               PROVE  \E i \in 1 .. Len(down') : ~IsSign(down'[i])
    BY <1>3 DEF Owed
  <2>1. PICK i \in 1 .. Len(down) : ~IsSign(down[i])
    BY DEF PInv, Owed
  <2> QED
    BY <1>3, <1>4, <2>1
<1>15. Answerable'
  BY <1>4 DEF PInv, Answerable, Given
<1>16. Faultless'
  BY <1>3, <1>4 DEF PInv, Faultless
<1>17. OneReply'
  BY <1>2, <1>4, <1>5 DEF PInv, OneReply
<1>18. Alert'
  BY <1>3, <1>4 DEF PInv, Alert
<1> QED
  BY <1>7, <1>9, <1>10, <1>11, <1>12, <1>13, <1>14, <1>15, <1>16, <1>17, <1>18 DEF PInv

(* gdb hears a packet and stays where it is: what it may still hear is as  *)
(* it was.                                                                 *)
LEMMA HeardPhases ==
    ASSUME PInv, Shrinks(down, down'), down' \in Seq(Items), ~IsSign(down[1]),
           UNCHANGED <<gdb, out, asked, took, servervars>>,
           \A i \in 1 .. Len(Inbox') :
              IsSign(Inbox'[i]) \/ (i \in 1 .. Len(Inbox) /\ Inbox'[i] = Inbox[i])
    PROVE  Turn' /\ Unseen' /\ Asked' /\ Running'
<1> USE DEF servervars
<1>1. Delivered' = Delivered
  BY HeardFresh
<1>2. ASSUME NEW i \in 1 .. Len(down'), Fresh(i)'
      PROVE  \E k \in 1 .. Len(down) : Fresh(k) /\ down'[i] = down[k]
  BY <1>2, HeardFresh, HeardLines
<1>3. Turn' /\ Unseen'
  BY <1>1 DEF PInv, Turn, Unseen
<1>4. Asked'
  <2> SUFFICES ASSUME out.is = "ask", Delivered PROVE Asked'
    BY <1>1 DEF Asked, Answering
  <2>1. /\ \A i \in 1 .. Len(Inbox) : IsSign(Inbox[i])
        /\ then = "prompt" /\ at \in {"work", "put", "get"}
        /\ at = "work" => /\ handled + 1 = asked /\ reply = Item("reply", asked)
                          /\ \A i \in 1 .. Len(down) : ~Fresh(i)
        /\ at # "work" => /\ handled = asked
                          /\ at = "put" => reply = Item("reply", asked)
                          /\ \A i \in 1 .. Len(down) :
                                Fresh(i) => down[i].is = "bad" \/ down[i] = Item("reply", asked)
    BY DEF PInv, Asked, Answering
  <2>2. \A i \in 1 .. Len(Inbox') : IsSign(Inbox'[i])
    BY <2>1 DEF IsSign
  <2>3. at = "work" => \A i \in 1 .. Len(down') : ~Fresh(i)'
    BY <1>2, <2>1
  <2>4. ASSUME at # "work", NEW i \in 1 .. Len(down'), Fresh(i)'
        PROVE  down'[i].is = "bad" \/ down'[i] = Item("reply", asked)
    BY <1>2, <2>1, <2>4
  <2> QED
    BY <2>1, <2>2, <2>3, <2>4 DEF Asked, Answering
<1>5. Running'
  <2> SUFFICES ASSUME InRun PROVE Running'
    BY <1>1 DEF Running, InRun
  <2>1. /\ handled = asked /\ at # "work"
        /\ at = "put" /\ reply.is = "stop" => reply.of = asked /\ then = "prompt"
        /\ \A i \in 1 .. Len(down) : Fresh(i) /\ down[i].is = "stop" =>
              down[i].of = asked /\ then = "prompt" /\ at \in {"get", "put"}
    BY DEF PInv, Running
  <2>2. ASSUME NEW i \in 1 .. Len(down'), Fresh(i)', down'[i].is = "stop"
        PROVE  down'[i].of = asked /\ then = "prompt" /\ at \in {"get", "put"}
    BY <1>2, <2>1, <2>2
  <2> QED
    BY <2>1, <2>2 DEF Running
<1> QED
  BY <1>3, <1>4, <1>5

(* gdb answers a packet with a character.                                  *)
LEMMA HeardSigned ==
    ASSUME PInv, Shrinks(down, down'), down' \in Seq(Items), ~IsSign(down[1]),
           UNCHANGED <<gdb, out, asked, took, servervars, faults, setting>>,
           NEW x \in {Plus, Minus}, Grows(Inbox, Inbox', x),
           x = Minus => gdb # "send" /\ faults # 0
    PROVE  /\ OnTheLines' /\ Turn' /\ Unseen' /\ Asked' /\ Running' /\ Owed'
           /\ Faultless' /\ Sole' /\ Alert'
           /\ Delivered' = Delivered
           /\ Worn' /\ ~Delivered => Worn
           /\ ~Alone
<1> USE DEF servervars, setting
<1>1. /\ x.is \in Signs /\ (x.is = "-" => x = Minus)
      /\ gdb # "send" => /\ \A i \in 1 .. Len(Inbox) : ~Carries(Inbox[i])
                         /\ \A i \in 1 .. Len(down) : ~IsSign(down[i])
  BY SignItems DEF Signs, PInv, OnTheLines, NoneLeft
<1>2. /\ InboxKinds' /\ OneRequest'
      /\ Len(Inbox) \in Nat /\ Len(Inbox') = Len(Inbox) + 1 /\ Inbox'[Len(Inbox')] = x
      /\ \A i \in 1 .. Len(Inbox) : Inbox'[i] = Inbox[i] /\ i \in 1 .. Len(Inbox')
      /\ \A i \in 1 .. Len(Inbox') : i \in 1 .. Len(Inbox) \/ i = Len(Inbox')
  <2>1. \/ x.is = "+" /\ UNCHANGED out
        \/ x.is \in {"-", "^C"} /\ UNCHANGED out /\ \A i \in 1 .. Len(Inbox) : ~Carries(Inbox[i])
    BY <1>1 DEF Signs
  <2> QED
    BY <2>1, InboxGains
<1>3. /\ DownKinds' /\ OneSign'
      /\ Len(down) \in Nat \ {0} /\ Len(down') = Len(down) - 1 /\ 1 \in 1 .. Len(down)
      /\ \A i \in 1 .. Len(down') : down'[i] = down[i + 1] /\ i + 1 \in 1 .. Len(down)
  BY HeardLines
<1>4. OnTheLines'
  <2>1. ~Carries(x)
    BY <1>1 DEF Signs, Carries, Requests
  <2>2. \A i \in 1 .. Len(Inbox') :
            ~Carries(Inbox'[i]) \/ (i \in 1 .. Len(Inbox) /\ Carries(Inbox[i]))
    BY <1>2, <2>1 DEF Carries
  <2>3. \A i \in 1 .. Len(down') :
            ~IsSign(down'[i]) \/ (i + 1 \in 1 .. Len(down) /\ IsSign(down[i + 1]))
    BY <1>3 DEF IsSign
  <2>4. NotBoth' /\ NoneLeft'
    BY <2>2, <2>3 DEF PInv, OnTheLines, NotBoth, NoneLeft, Carries, IsSign
  <2> QED
    BY <1>2, <1>3, <2>4 DEF OnTheLines
<1>5. Turn' /\ Unseen' /\ Asked' /\ Running'
  <2>1. \A i \in 1 .. Len(Inbox') :
            IsSign(Inbox'[i]) \/ (i \in 1 .. Len(Inbox) /\ Inbox'[i] = Inbox[i])
    BY <1>1, <1>2 DEF IsSign
  <2> QED
    BY <2>1, HeardPhases
<1>6. Owed'
  <2>1. Len(Inbox') \in 1 .. Len(Inbox') /\ ~Carries(Inbox'[Len(Inbox')])
    BY <1>1, <1>2 DEF Signs, Carries, Requests
  <2> QED
    BY <2>1 DEF Owed, Carries
<1>7. Faultless'
  <2> SUFFICES ASSUME faults = 0
               PROVE  /\ \A i \in 1 .. Len(Inbox') : Inbox'[i].is \notin {"bad", "-"}
                      /\ \A i \in 1 .. Len(down') : down'[i].is \notin {"bad", "-"}
    BY DEF Faultless
  <2>1. x.is = "+"
    BY <1>1 DEF Signs
  <2> QED
    BY <1>2, <1>3, <2>1 DEF PInv, Faultless
<1>8. Delivered' = Delivered
  BY HeardFresh
<1>9. Sole'
  BY <1>3, <1>8 DEF PInv, Sole
<1>10. Alert'
  BY <1>3 DEF PInv, Alert, IsSign, Signs
<1>11. ASSUME Worn', ~Delivered PROVE Worn
  <2>1. x.is = "+" /\ gdb = "send"
    BY <1>1, <1>11 DEF Delivered, Signs
  <2>2. CASE \E i \in 1 .. Len(Inbox') : Inbox'[i].is = "bad"
    BY <1>2, <2>1, <2>2 DEF Worn
  <2>3. CASE \E i \in 1 .. Len(down') : down'[i].is = "-"
    BY <1>3, <2>3 DEF Worn
  <2> QED
    BY <1>11, <2>2, <2>3 DEF Worn
<1>12. ~Alone
  BY <1>3 DEF Alone, IsSign, Signs
<1> QED
  BY <1>4, <1>5, <1>6, <1>7, <1>8, <1>9, <1>10, <1>11, <1>12

LEMMA SkipFrameInv ==
    ASSUME PInv, SkipFrame
    PROVE  PInv'
<1>1. /\ gdb = "send" /\ up' = Append(up, Plus)
      /\ UNCHANGED <<gdbvars, cache, servervars, faults, setting>>
  BY DEF SkipFrame
<1> USE <1>1 DEF gdbvars, servervars, setting
<1>2. down' \in Seq(Items) /\ Shrinks(down, down') /\ ~IsSign(down[1])
  <2>1. Hears(Frames \cup {"bad"}) /\ down \in Seq(Items)
    BY DEF SkipFrame, PInv, PacketTypeOK
  <2>2. /\ down' \in Seq(Items) /\ Shrinks(down, down')
        /\ down[1].is \in Frames \cup {"bad"}
    BY <2>1, DownTaken
  <2> QED
    BY <2>2 DEF IsSign, Signs, Frames, Requests, Replies
<1>3. up' \in Seq(Items) /\ Grows(Inbox, Inbox', Plus)
  BY InboxAdded, SignItems DEF PInv, PacketTypeOK
<1>4. Plus \in {Plus, Minus} /\ Plus # Minus
  BY SignItems
<1>5. /\ OnTheLines' /\ Turn' /\ Unseen' /\ Asked' /\ Running' /\ Owed'
      /\ Faultless' /\ Sole' /\ Alert'
      /\ Delivered' = Delivered
      /\ Worn' /\ ~Delivered => Worn
      /\ ~Alone
  BY <1>2, <1>3, <1>4, HeardSigned
<1>6. PacketTypeOK'
  BY <1>2, <1>3 DEF PInv, PacketTypeOK
<1>7. Patience'
  BY <1>5 DEF PInv, Patience, PacketTypeOK
<1>8. Answerable'
  BY <1>2, HeardLines DEF PInv, Answerable, Given, PacketTypeOK
<1>9. OneReply'
  <2> SUFFICES ASSUME user = "careful", faults = 0, out.is = "ask", Delivered,
                      NEW i \in 1 .. Len(down'), down'[i].is = "+"
               PROVE  Len(down') <= i + 1 /\ (at = "work" => Len(down') = i)
    BY <1>5 DEF OneReply
  <2>1. /\ i + 1 \in 1 .. Len(down) /\ down[i + 1].is = "+"
        /\ Len(down') = Len(down) - 1 /\ Len(down) \in Nat
    BY <1>2, HeardLines
  <2>2. Len(down) <= (i + 1) + 1 /\ (at = "work" => Len(down) = i + 1)
    BY <2>1 DEF PInv, OneReply
  <2> QED
    BY <2>1, <2>2
<1> QED
  BY <1>5, <1>6, <1>7, <1>8, <1>9 DEF PInv

LEMMA DamagedInv ==
    ASSUME PInv, Damaged, faults <= 2
    PROVE  PInv'
<1>1. /\ gdb \in {"answer", "wait"} /\ Complain
      /\ UNCHANGED <<asked, took, out, ctrlc, cache, servervars, faults, setting>>
  BY DEF Damaged
<1>2. down' \in Seq(Items) /\ Shrinks(down, down') /\ down[1].is = "bad"
  <2>1. PICK n \in DOMAIN down : GetPkt(n, {"bad"})
    BY DEF Damaged
  <2> QED
    BY <1>1, <2>1, PacketTaken DEF PInv, PacketTypeOK, OnTheLines, NoneLeft
<1>3. ~IsSign(down[1])
  BY <1>2 DEF IsSign, Signs
<1>4. /\ Cardinality(BadIn(down)) = Cardinality(BadIn(down')) + 1
      /\ Cardinality(BadIn(down')) \in Nat
  BY <1>2, <1>3, HeardLines
<1>5. tries + Cardinality(BadIn(down)) <= faults /\ tries \in Nat /\ faults \in Nat
  BY <1>1 DEF PInv, Answerable, Given, PacketTypeOK
<1>6. tries < 2 /\ faults # 0
  BY <1>4, <1>5
<1>7. up' = Append(up, Minus) /\ tries' = tries + 1 /\ UNCHANGED gdb
  BY <1>1, <1>6 DEF Complain
<1> USE <1>1, <1>7 DEF servervars, setting
<1>8. up' \in Seq(Items) /\ Grows(Inbox, Inbox', Minus)
  BY InboxAdded, SignItems DEF PInv, PacketTypeOK
<1>9. /\ OnTheLines' /\ Turn' /\ Unseen' /\ Asked' /\ Running' /\ Owed'
      /\ Faultless' /\ Sole' /\ Alert'
      /\ Delivered' = Delivered
  BY <1>2, <1>3, <1>6, <1>8, HeardSigned
<1>10. PacketTypeOK'
  BY <1>2, <1>6, <1>8 DEF PInv, PacketTypeOK
<1>11. Patience'
  BY DEF Patience, Delivered
<1>12. Answerable'
  BY <1>4, <1>5 DEF Answerable, Given
<1>13. OneReply'
  BY <1>6 DEF OneReply
<1> QED
  BY <1>9, <1>10, <1>11, <1>12, <1>13 DEF PInv

LEMMA InvalidInv ==
    ASSUME PInv, Invalid
    PROVE  PInv'
<1>1. /\ gdb = "wait" /\ ctrlc' = FALSE /\ tries' = 0 /\ up' = Append(up, Plus)
      /\ UNCHANGED <<asked, took, gdb, out, cache, servervars, faults, setting>>
  BY DEF Invalid
<1> USE <1>1 DEF servervars, setting
<1>2. down' \in Seq(Items) /\ Shrinks(down, down') /\ ~IsSign(down[1])
  <2>1. PICK n \in DOMAIN down : GetPkt(n, {"empty", "reply"})
    BY DEF Invalid
  <2>2. /\ down' \in Seq(Items) /\ Shrinks(down, down')
        /\ down[1].is \in {"empty", "reply"}
    BY <2>1, PacketTaken DEF PInv, PacketTypeOK, OnTheLines, NoneLeft
  <2> QED
    BY <2>2 DEF IsSign, Signs
<1>3. up' \in Seq(Items) /\ Grows(Inbox, Inbox', Plus)
  BY InboxAdded, SignItems DEF PInv, PacketTypeOK
<1>4. Plus \in {Plus, Minus} /\ Plus # Minus
  BY SignItems
<1>5. /\ OnTheLines' /\ Turn' /\ Unseen' /\ Asked' /\ Running' /\ Owed'
      /\ Faultless' /\ Sole' /\ Alert'
  BY <1>2, <1>3, <1>4, HeardSigned
<1>6. PacketTypeOK'
  <2>1. ctrlc' \in BOOLEAN
    OBVIOUS
  <2>2. tries' \in 0 .. 3
    OBVIOUS
  <2> QED
    BY <1>2, <1>3, <2>1, <2>2 DEF PInv, PacketTypeOK
<1>7. Patience'
  BY DEF Patience, Delivered
<1>8. Answerable'
  <2>1. /\ tries + Cardinality(BadIn(down)) <= faults /\ tries \in Nat /\ faults \in Nat
        /\ Given' = 0
    BY DEF PInv, PacketTypeOK, Answerable, Given
  <2>2. /\ Cardinality(BadIn(down')) <= Cardinality(BadIn(down))
        /\ Cardinality(BadIn(down')) \in Nat /\ Cardinality(BadIn(down)) \in Nat
    BY <1>2, HeardLines
  <2> QED
    BY <2>1, <2>2 DEF Answerable
<1>9. OneReply'
  BY DEF PInv, Turn, OneReply
<1> QED
  BY <1>5, <1>6, <1>7, <1>8, <1>9 DEF PInv

LEMMA StoppedInv ==
    ASSUME PInv, Stopped
    PROVE  PInv'
<1>1. /\ gdb = "wait" /\ gdb' = "idle" /\ tries' = 0 /\ ctrlc' = FALSE
      /\ up' = Append(up, Plus)
      /\ UNCHANGED <<asked, out, cache, servervars, faults, setting>>
  BY DEF Stopped
<1> USE <1>1 DEF servervars, setting
<1>2. /\ down' \in Seq(Items) /\ Shrinks(down, down') /\ down[1].is = "stop"
      /\ took' = down[1].of
  <2>1. PICK n \in DOMAIN down : GetPkt(n, {"stop"}) /\ took' = down[n].of
    BY DEF Stopped
  <2> QED
    BY <2>1, PacketTaken DEF PInv, PacketTypeOK, OnTheLines, NoneLeft
<1>3. out.is \in {"c", "F"} /\ InRun /\ Delivered /\ Delivered' /\ InRun'
  BY DEF PInv, Turn, InRun, Delivered
<1>4. /\ DownKinds' /\ OneSign'
      /\ Len(down) \in Nat \ {0} /\ Len(down') = Len(down) - 1 /\ 1 \in 1 .. Len(down)
      /\ \A i \in 1 .. Len(down') : down'[i] = down[i + 1] /\ i + 1 \in 1 .. Len(down)
  BY <1>2, HeardLines
<1>5. /\ \A i \in 1 .. Len(Inbox) : ~Carries(Inbox[i])
      /\ \A i \in 1 .. Len(down) : ~IsSign(down[i])
  BY DEF PInv, OnTheLines, NoneLeft
<1>6. up' \in Seq(Items) /\ Grows(Inbox, Inbox', Plus)
  BY InboxAdded, SignItems DEF PInv, PacketTypeOK
<1>7. /\ InboxKinds' /\ OneRequest'
      /\ Len(Inbox) \in Nat /\ Len(Inbox') = Len(Inbox) + 1 /\ Inbox'[Len(Inbox')] = Plus
      /\ \A i \in 1 .. Len(Inbox) : Inbox'[i] = Inbox[i] /\ i \in 1 .. Len(Inbox')
      /\ \A i \in 1 .. Len(Inbox') : i \in 1 .. Len(Inbox) \/ i = Len(Inbox')
  BY <1>6, InboxGains, SignItems
<1>8. /\ handled = asked /\ took' = asked /\ then = "prompt" /\ at \in {"get", "put"}
      /\ at = "put" /\ reply.is = "stop" => reply.of = asked /\ then = "prompt"
  <2>1. Fresh(1)
    BY <1>4, <1>5 DEF Fresh
  <2> QED
    BY <1>2, <1>3, <1>4, <2>1 DEF PInv, Running
<1>9. ~Carries(Plus)
  BY SignItems DEF Carries, Requests
<1>10. OnTheLines'
  BY <1>4, <1>5, <1>7, <1>9 DEF OnTheLines, NotBoth, NoneLeft, Carries
<1>11. PacketTypeOK'
  <2>1. ctrlc' \in BOOLEAN
    OBVIOUS
  <2>2. tries' \in 0 .. 3 /\ took' \in 0 .. Turns
    BY <1>8 DEF PInv, PacketTypeOK
  <2> QED
    BY <1>2, <1>6, <2>1, <2>2 DEF PInv, PacketTypeOK
<1>12. Turn' /\ Unseen' /\ Asked' /\ Patience' /\ OneReply' /\ Sole' /\ Alert'
  BY <1>3, <1>8 DEF PInv, Turn, Unseen, Asked, Answering, Patience, OneReply, Sole, Alert
<1>13. Running'
  <2>1. ASSUME NEW i \in 1 .. Len(down'), down'[i].is = "stop"
        PROVE  down'[i].of = asked
    <3>1. i + 1 \in 1 .. Len(down) /\ down[i + 1] = down'[i]
      BY <1>4
    <3>2. Fresh(i + 1)
      BY <1>5, <3>1 DEF Fresh
    <3> QED
      BY <1>3, <2>1, <3>1, <3>2 DEF PInv, Running
  <2> QED
    BY <1>8, <2>1 DEF Running
<1>14. Owed'
  <2>1. Len(Inbox') \in 1 .. Len(Inbox') /\ ~Carries(Inbox'[Len(Inbox')])
    BY <1>7, <1>9 DEF Carries
  <2> QED
    BY <2>1 DEF Owed, Carries
<1>15. Answerable'
  BY <1>2, HeardLines DEF PInv, Answerable, Given, PacketTypeOK
<1>16. Faultless'
  BY <1>4, <1>7, SignItems DEF PInv, Faultless
<1> QED
  BY <1>10, <1>11, <1>12, <1>13, <1>14, <1>15, <1>16 DEF PInv

(* gdb sends its packet once more.                                         *)
LEMMA SentAgain ==
    ASSUME PInv, gdb = "send", ~Delivered, \A i \in 1 .. Len(Inbox) : ~Carries(Inbox[i]),
           tries < 3, tries' = tries + 1, up' = Append(up, out),
           UNCHANGED <<asked, took, gdb, out, ctrlc, cache, servervars, faults, setting>>,
           down' \in Seq(Items), DownKinds', \A i \in 1 .. Len(down') : ~IsSign(down'[i]),
           \A i \in 1 .. Len(down') : Fresh(i)' =>
               \E k \in 1 .. Len(down) : Fresh(k) /\ down'[i] = down[k]
    PROVE  /\ PacketTypeOK' /\ OnTheLines' /\ Turn' /\ Unseen' /\ Asked' /\ Running'
           /\ OneReply'
           /\ ~Delivered' /\ ~Worn'
           /\ Len(Inbox) \in Nat /\ Len(Inbox') = Len(Inbox) + 1 /\ Inbox'[Len(Inbox')] = out
           /\ \A i \in 1 .. Len(Inbox) : Inbox'[i] = Inbox[i] /\ i \in 1 .. Len(Inbox')
           /\ \A i \in 1 .. Len(Inbox') : i \in 1 .. Len(Inbox) \/ i = Len(Inbox')
           /\ out.is \in Requests /\ Carries(out)
<1> USE DEF servervars, setting
<1>1. out \in Items /\ out.is \in Requests /\ Carries(out)
  BY DEF PInv, PacketTypeOK, Carries
<1>2. up' \in Seq(Items) /\ Grows(Inbox, Inbox', out')
  BY <1>1, InboxAdded DEF PInv, PacketTypeOK
<1>3. /\ InboxKinds' /\ OneRequest'
      /\ Len(Inbox) \in Nat /\ Len(Inbox') = Len(Inbox) + 1 /\ Inbox'[Len(Inbox')] = out
      /\ \A i \in 1 .. Len(Inbox) : Inbox'[i] = Inbox[i] /\ i \in 1 .. Len(Inbox')
      /\ \A i \in 1 .. Len(Inbox') : i \in 1 .. Len(Inbox) \/ i = Len(Inbox')
  BY <1>2, InboxGains
<1>4. PacketTypeOK'
  BY <1>2 DEF PInv, PacketTypeOK
<1>5. OnTheLines'
  BY <1>3 DEF OnTheLines, OneSign, NotBoth, NoneLeft, IsSign
<1>6. ~Delivered'
  BY DEF Delivered, IsSign, Signs
<1>7. ~Worn'
  BY <1>1, <1>3 DEF Worn, Carries, IsSign, Signs, Requests
<1>8. Turn' /\ Unseen' /\ Asked' /\ OneReply'
  BY <1>6 DEF PInv, Turn, Unseen, Asked, Answering, OneReply
<1>9. Running'
  <2> SUFFICES ASSUME InRun PROVE Running'
    BY <1>6 DEF Running, InRun
  <2>1. /\ handled = asked /\ at # "work"
        /\ at = "put" /\ reply.is = "stop" => reply.of = asked /\ then = "prompt"
        /\ \A i \in 1 .. Len(down) : Fresh(i) /\ down[i].is = "stop" =>
              down[i].of = asked /\ then = "prompt" /\ at \in {"get", "put"}
    BY DEF PInv, Running
  <2>2. ASSUME NEW i \in 1 .. Len(down'), Fresh(i)', down'[i].is = "stop"
        PROVE  down'[i].of = asked /\ then = "prompt" /\ at \in {"get", "put"}
    BY <2>1, <2>2
  <2> QED
    BY <2>1, <2>2 DEF Running
<1> QED
  BY <1>1, <1>3, <1>4, <1>5, <1>6, <1>7, <1>8, <1>9

LEMMA SendRefusedInv ==
    ASSUME PInv, SendRefused, faults <= 2
    PROVE  PInv'
<1>1. /\ gdb = "send" /\ Retry
      /\ UNCHANGED <<asked, took, out, ctrlc, cache, servervars, faults, setting>>
  BY DEF SendRefused
<1>2. down' \in Seq(Items) /\ Shrinks(down, down') /\ down[1].is = "-"
  BY DownTaken DEF SendRefused, PInv, PacketTypeOK
<1>3. IsSign(down[1])
  BY <1>2 DEF IsSign, Signs
<1>4. /\ DownKinds'
      /\ Len(down) \in Nat \ {0} /\ Len(down') = Len(down) - 1 /\ 1 \in 1 .. Len(down)
      /\ \A i \in 1 .. Len(down') : down'[i] = down[i + 1] /\ i + 1 \in 1 .. Len(down)
      /\ \A i \in 1 .. Len(down) : i = 1 \/ (i - 1 \in 1 .. Len(down') /\ down'[i - 1] = down[i])
      /\ \A i \in 1 .. Len(down') : ~IsSign(down'[i])
      /\ Cardinality(BadIn(down)) = Cardinality(BadIn(down'))
  BY <1>2, <1>3, HeardLines
<1>5. ~Delivered /\ Worn /\ faults # 0
  BY <1>2, <1>4, Delivery DEF Worn, PInv, Faultless
<1>6. \A i \in 1 .. Len(Inbox) : ~Carries(Inbox[i])
  BY <1>3, <1>4 DEF PInv, OnTheLines, NotBoth
<1>7. tries + 1 <= faults + (IF Alone THEN 1 ELSE 0) /\ tries \in Nat /\ faults \in Nat
  BY <1>5 DEF PInv, Patience, PacketTypeOK
<1>8. tries < 3
  BY <1>7
<1>9. up' = Append(up, out) /\ tries' = tries + 1 /\ UNCHANGED gdb
  BY <1>1, <1>8 DEF Retry
<1> USE <1>1, <1>9 DEF servervars, setting
<1>10. ASSUME NEW i \in 1 .. Len(down'), Fresh(i)'
       PROVE  \E k \in 1 .. Len(down) : Fresh(k) /\ down'[i] = down[k]
  <2>1. out.is \in {"m", "F"}
    BY <1>4, <1>10 DEF Fresh, IsSign, Signs
  <2>2. Fresh(i + 1)
    BY <1>4, <2>1 DEF Fresh, IsSign
  <2> QED
    BY <1>4, <2>2
<1>11. /\ PacketTypeOK' /\ OnTheLines' /\ Turn' /\ Unseen' /\ Asked' /\ Running'
       /\ OneReply'
       /\ ~Delivered' /\ ~Worn'
       /\ Len(Inbox) \in Nat /\ Len(Inbox') = Len(Inbox) + 1 /\ Inbox'[Len(Inbox')] = out
       /\ \A i \in 1 .. Len(Inbox) : Inbox'[i] = Inbox[i] /\ i \in 1 .. Len(Inbox')
       /\ Carries(out)
  BY <1>2, <1>4, <1>5, <1>6, <1>8, <1>10, SentAgain
<1>12. Owed'
  <2> SUFFICES ASSUME at = "put", \A i \in 1 .. Len(Inbox') : Carries(Inbox'[i])
               PROVE  \E i \in 1 .. Len(down') : ~IsSign(down'[i])
    BY DEF Owed, Carries
  <2>1. \A i \in 1 .. Len(Inbox) : Carries(Inbox[i])
    BY <1>11
  <2>2. PICK i \in 1 .. Len(down) : ~IsSign(down[i])
    BY <2>1 DEF PInv, Owed
  <2>3. i - 1 \in 1 .. Len(down')
    BY <1>3, <1>4, <2>2
  <2> QED
    BY <1>4, <2>3
<1>13. Answerable'
  BY <1>4 DEF PInv, Answerable, Given
<1>14. Patience'
  <2>1. Alone => Alone'
    BY <1>4, <1>11 DEF Alone, Carries
  <2> QED
    BY <1>7, <1>11, <2>1 DEF Patience
<1>15. Faultless' /\ Sole' /\ Alert'
  BY <1>5 DEF Faultless, Sole, Alert
<1> QED
  BY <1>11, <1>12, <1>13, <1>14, <1>15 DEF PInv

LEMMA SendTimeoutInv ==
    ASSUME PInv, SendTimeout, faults <= 2
    PROVE  PInv'
<1>1. /\ gdb = "send" /\ Quiet /\ Retry
      /\ UNCHANGED <<asked, took, out, ctrlc, down, cache, servervars, faults, setting>>
  BY DEF SendTimeout
<1>2. Inbox \in Seq(Items) /\ Len(Inbox) = 0 /\ Len(down) = 0 /\ at \in {"get", "put"}
  BY <1>1, InboxType DEF Quiet, PInv, PacketTypeOK
<1>3. at = "get" /\ ~Alone /\ ~Worn /\ ~Delivered
  BY <1>1, <1>2 DEF PInv, Owed, Alone, Worn, Delivered
<1>4. tries <= faults /\ tries \in Nat /\ faults \in Nat
  BY <1>3 DEF PInv, Patience, PacketTypeOK
<1>5. tries < 3
  BY <1>4
<1>6. up' = Append(up, out) /\ tries' = tries + 1 /\ UNCHANGED gdb
  BY <1>1, <1>5 DEF Retry
<1> USE <1>1, <1>6 DEF servervars, setting
<1>7. down' \in Seq(Items) /\ DownKinds'
  BY DEF PInv, PacketTypeOK, OnTheLines, DownKinds
<1>8. \A i \in 1 .. Len(Inbox) : ~Carries(Inbox[i])
  BY <1>2
<1>9. /\ \A i \in 1 .. Len(down') : ~IsSign(down'[i])
      /\ \A i \in 1 .. Len(down') : Fresh(i)' =>
               \E k \in 1 .. Len(down) : Fresh(k) /\ down'[i] = down[k]
  BY <1>2
<1>10. /\ PacketTypeOK' /\ OnTheLines' /\ Turn' /\ Unseen' /\ Asked' /\ Running'
       /\ OneReply'
       /\ ~Delivered' /\ ~Worn'
       /\ Len(Inbox') = Len(Inbox) + 1 /\ Inbox'[Len(Inbox')] = out
       /\ out.is \in Requests /\ Carries(out)
  BY <1>3, <1>5, <1>7, <1>8, <1>9, SentAgain
<1>11. Alone'
  BY <1>2, <1>3, <1>10 DEF Alone, Carries
<1>12. Patience'
  BY <1>4, <1>10, <1>11 DEF Patience
<1>13. Owed' /\ Alert'
  BY <1>3 DEF Owed, Alert
<1>14. Answerable'
  BY DEF PInv, Answerable, Given
<1>15. Faultless'
  BY <1>2, <1>10 DEF Faultless, Requests
<1>16. Sole'
  BY <1>2, <1>3 DEF PInv, Sole
<1> QED
  BY <1>10, <1>12, <1>13, <1>14, <1>15, <1>16 DEF PInv

LEMMA LateInv ==
    ASSUME PInv, Late, faults' <= 2
    PROVE  PInv'
<1>1. /\ gdb = "answer" /\ faults < MaxFaults[line] /\ faults' = faults + 1 /\ Complain
      /\ UNCHANGED <<asked, took, out, ctrlc, down, cache, servervars, setting>>
  BY DEF Late
<1>2. Delivered /\ Cardinality(BadIn(down)) \in Nat
  BY <1>1, BadsFinite DEF Delivered, PInv, PacketTypeOK
<1>3. /\ tries + Cardinality(BadIn(down)) <= faults /\ tries \in Nat /\ faults \in Nat
      /\ MaxFaults[line] \in Nat
  BY <1>1, Constants DEF PInv, Answerable, Given, PacketTypeOK
<1>4. tries < 2
  BY <1>1, <1>2, <1>3
<1>5. up' = Append(up, Minus) /\ tries' = tries + 1 /\ UNCHANGED gdb
  BY <1>1, <1>4 DEF Complain
<1> USE <1>1, <1>5 DEF servervars, setting
<1>6. up' \in Seq(Items) /\ Grows(Inbox, Inbox', Minus)
  BY InboxAdded, SignItems DEF PInv, PacketTypeOK
<1>7. /\ \A i \in 1 .. Len(Inbox) : ~Carries(Inbox[i])
      /\ ~Carries(Minus) /\ IsSign(Minus)
  BY SignItems DEF PInv, OnTheLines, NoneLeft, Carries, Requests, IsSign, Signs
<1>8. /\ InboxKinds' /\ OneRequest'
      /\ Len(Inbox) \in Nat /\ Len(Inbox') = Len(Inbox) + 1 /\ Inbox'[Len(Inbox')] = Minus
      /\ \A i \in 1 .. Len(Inbox) : Inbox'[i] = Inbox[i] /\ i \in 1 .. Len(Inbox')
      /\ \A i \in 1 .. Len(Inbox') : i \in 1 .. Len(Inbox) \/ i = Len(Inbox')
  BY <1>6, <1>7, InboxGains, SignItems
<1>9. PacketTypeOK'
  BY <1>3, <1>4, <1>6 DEF PInv, PacketTypeOK
<1>10. OnTheLines'
  BY <1>7, <1>8 DEF PInv, OnTheLines, DownKinds, OneSign, NotBoth, NoneLeft, Carries
<1>11. Delivered' /\ \A i : Fresh(i)' = Fresh(i)
  BY DEF Delivered, Fresh
<1>12. Turn' /\ Unseen' /\ Running'
  BY <1>2, <1>11 DEF PInv, Turn, Unseen, Running, InRun
<1>13. Asked'
  <2> SUFFICES ASSUME out.is = "ask" PROVE Asked'
    BY DEF Asked, Answering
  <2>1. \A i \in 1 .. Len(Inbox') : IsSign(Inbox'[i])
    BY <1>2, <1>7, <1>8 DEF PInv, Asked, Answering, IsSign
  <2> QED
    BY <1>2, <1>11, <2>1 DEF PInv, Asked, Answering, IsSign
<1>14. Owed'
  <2>1. Len(Inbox') \in 1 .. Len(Inbox') /\ ~Carries(Inbox'[Len(Inbox')])
    BY <1>7, <1>8 DEF Carries
  <2> QED
    BY <2>1 DEF Owed, Carries
<1>15. Answerable'
  BY <1>2, <1>3 DEF Answerable, Given
<1>16. Patience' /\ Faultless' /\ OneReply' /\ Sole' /\ Alert'
  BY <1>3 DEF Patience, Delivered, Faultless, OneReply, Sole, Alert
<1> QED
  BY <1>9, <1>10, <1>12, <1>13, <1>14, <1>15, <1>16 DEF PInv

(* gdb reads the message the server offers, or tells what became of it.    *)
LEMMA MessageSent ==
    ASSUME PInv, gdb \in {"answer", "wait"}, InRun,
           down' \in Seq(Items), Shrinks(down, down'), down[1].is \in Frames,
           NEW k \in {"m", "F"}, Send(Item(k, 0)), up' = up \o <<Plus, out'>>, ctrlc' \in BOOLEAN,
           UNCHANGED <<asked, took, cache, servervars, faults, setting>>
    PROVE  PInv'
<1> USE DEF servervars, setting
<1>1. /\ out' \in Items /\ out'.is = k /\ out'.of = 0
      /\ gdb' = "send" /\ tries' = 0
  BY Constants, ItemType DEF Send, Kinds, Frames, Requests
<1>2. /\ \A i \in 1 .. Len(Inbox) : ~Carries(Inbox[i])
      /\ \A i \in 1 .. Len(down) : ~IsSign(down[i])
  BY DEF PInv, OnTheLines, NoneLeft
<1>3. /\ up' \in Seq(Items) /\ Len(Inbox) \in Nat /\ Len(Inbox') = Len(Inbox) + 2
      /\ \A i \in 1 .. Len(Inbox) : Inbox'[i] = Inbox[i]
      /\ Inbox'[Len(Inbox) + 1] = Plus /\ Inbox'[Len(Inbox) + 2] = out'
  <2>1. up \in Seq(Items) /\ cache \in Seq(Items) /\ Plus \in Items
    BY SignItems DEF PInv, PacketTypeOK
  <2>2. Inbox \in Seq(Items) /\ up' \in Seq(Items) /\ <<Plus, out'>> \in Seq(Items)
    BY <1>1, <2>1, AddedTwo DEF Inbox
  <2>3. Inbox' = Inbox \o <<Plus, out'>>
    BY <1>1, <2>1, Regrouped DEF Inbox
  <2> HIDE DEF Inbox
  <2> QED
    BY <1>1, <2>1, <2>2, <2>3
<1>4. \A i \in 1 .. Len(Inbox') : \/ i \in 1 .. Len(Inbox) /\ Inbox'[i] = Inbox[i]
                                  \/ i = Len(Inbox) + 1 /\ Inbox'[i] = Plus
                                  \/ i = Len(Inbox) + 2 /\ Inbox'[i] = out'
  BY <1>3
<1>5. /\ DownKinds' /\ OneSign'
      /\ Len(down) \in Nat \ {0} /\ Len(down') = Len(down) - 1 /\ 1 \in 1 .. Len(down)
      /\ \A i \in 1 .. Len(down') : down'[i] = down[i + 1] /\ i + 1 \in 1 .. Len(down)
  BY HeardLines
<1>6. \A i \in 1 .. Len(down') : ~IsSign(down'[i])
  BY <1>2, <1>5
<1>7. ~Delivered'
  BY <1>1, <1>6 DEF Delivered, IsSign, Signs
<1>8. ~Carries(Plus) /\ Plus.is = "+"
  BY SignItems DEF Carries, Requests
<1>9. PacketTypeOK'
  BY <1>1, <1>3 DEF PInv, PacketTypeOK, Requests
<1>10. OnTheLines'
  <2>1. \A i \in 1 .. Len(Inbox) : Inbox[i].is \in {"+", "-", "^C"}
    BY <1>2 DEF PInv, OnTheLines, InboxKinds, Carries, PacketTypeOK
  <2>2. InboxKinds'
    BY <1>4, <1>8, <2>1 DEF InboxKinds
  <2>3. OneRequest'
    <3> SUFFICES ASSUME NEW i \in 1 .. Len(Inbox'), NEW j \in 1 .. Len(Inbox'),
                        i < j, Carries(Inbox'[i])
                 PROVE  FALSE
      BY DEF OneRequest, Carries
    <3>1. i = Len(Inbox) + 2
      BY <1>2, <1>4, <1>8
    <3> QED
      BY <1>3, <3>1
  <2>4. NotBoth' /\ NoneLeft'
    BY <1>1, <1>6 DEF NotBoth, NoneLeft, IsSign
  <2> QED
    BY <1>5, <2>2, <2>3, <2>4 DEF OnTheLines
<1>11. Turn'
  BY <1>1 DEF PInv, Turn
<1>12. Unseen' /\ Asked' /\ OneReply' /\ Sole'
  BY <1>1 DEF Unseen, Asked, Answering, OneReply, Sole
<1>13. Running'
  <2>1. /\ handled = asked /\ at # "work"
        /\ at = "put" /\ reply.is = "stop" => reply.of = asked /\ then = "prompt"
        /\ \A i \in 1 .. Len(down) : Fresh(i) /\ down[i].is = "stop" =>
              down[i].of = asked /\ then = "prompt" /\ at \in {"get", "put"}
    BY DEF PInv, Running
  <2>2. \A i \in 1 .. Len(down) : Fresh(i)
    BY <1>2 DEF Fresh
  <2>3. ASSUME NEW i \in 1 .. Len(down'), down'[i].is = "stop"
        PROVE  down'[i].of = asked /\ then = "prompt" /\ at \in {"get", "put"}
    BY <1>5, <2>1, <2>2, <2>3
  <2> QED
    BY <2>1, <2>3 DEF Running
<1>14. Owed'
  <2>1. Len(Inbox) + 1 \in 1 .. Len(Inbox') /\ ~Carries(Inbox'[Len(Inbox) + 1])
    BY <1>3, <1>8
  <2> QED
    BY <2>1 DEF Owed, Carries
<1>15. Answerable'
  <2>1. tries + Cardinality(BadIn(down)) <= faults /\ tries \in Nat /\ faults \in Nat
    BY DEF PInv, PacketTypeOK, Answerable, Given
  <2>2. /\ Cardinality(BadIn(down')) <= Cardinality(BadIn(down))
        /\ Cardinality(BadIn(down')) \in Nat /\ Cardinality(BadIn(down)) \in Nat
    BY HeardLines
  <2> QED
    BY <1>1, <2>1, <2>2 DEF Answerable, Given
<1>16. ~Worn'
  <2>1. \A i \in 1 .. Len(Inbox') : Inbox'[i].is # "bad"
    BY <1>1, <1>2, <1>4, <1>8 DEF Carries
  <2> QED
    BY <1>6, <2>1 DEF Worn, IsSign, Signs
<1>17. Patience'
  BY <1>1, <1>16 DEF PInv, PacketTypeOK, Patience
<1>18. Faultless'
  <2>1. faults = 0 => \A i \in 1 .. Len(Inbox') : Inbox'[i].is \notin {"bad", "-"}
    BY <1>1, <1>4, <1>8 DEF PInv, Faultless
  <2>2. faults = 0 => \A i \in 1 .. Len(down') : down'[i].is \notin {"bad", "-"}
    BY <1>5 DEF PInv, Faultless
  <2> QED
    BY <2>1, <2>2 DEF Faultless
<1>19. Alert'
  BY <1>5 DEF PInv, Alert, Frames, Requests, Replies
<1> QED
  BY <1>9, <1>10, <1>11, <1>12, <1>13, <1>14, <1>15, <1>17, <1>18, <1>19 DEF PInv

LEMMA WriteMessageInv ==
    ASSUME PInv, WriteMessage
    PROVE  PInv'
<1>1. /\ gdb = "wait" /\ ctrlc' = FALSE /\ up' = up \o <<Plus, out'>>
      /\ Send(Item(IF ctrlc THEN "F" ELSE "m", 0))
      /\ UNCHANGED <<asked, took, cache, servervars, faults, setting>>
  BY DEF WriteMessage
<1>2. down' \in Seq(Items) /\ Shrinks(down, down') /\ down[1].is \in Frames
  <2>1. PICK n \in DOMAIN down : GetPkt(n, {"Fwrite"})
    BY DEF WriteMessage
  <2> QED
    BY <1>1, <2>1, PacketTaken DEF PInv, PacketTypeOK, OnTheLines, NoneLeft, Frames, Replies
<1>3. InRun
  BY <1>1 DEF PInv, Turn, InRun, Delivered
<1>4. ctrlc' \in BOOLEAN
  BY <1>1
<1>5. CASE ctrlc
  BY <1>1, <1>2, <1>3, <1>4, <1>5, MessageSent
<1>6. CASE ~ctrlc
  BY <1>1, <1>2, <1>3, <1>4, <1>6, MessageSent
<1> QED
  BY <1>5, <1>6

LEMMA TakeAnswerInv ==
    ASSUME PInv, TakeAnswer
    PROVE  PInv'
<1>1. PICK n \in DOMAIN down :
          /\ GetPkt(n, Frames)
          /\ gdb = "answer"
          /\ IF out.is = "m"
             THEN Send(Item("F", 0)) /\ up' = up \o <<Plus, out'>> /\ UNCHANGED took
             ELSE /\ gdb' = "idle" /\ tries' = 0 /\ took' = down[n].of
                  /\ up' = Append(up, Plus) /\ UNCHANGED out
          /\ UNCHANGED <<asked, ctrlc, cache, servervars, faults, setting>>
  BY DEF TakeAnswer
<1>2. n = 1 /\ down' \in Seq(Items) /\ Shrinks(down, down') /\ down[1].is \in Frames
  BY <1>1, PacketTaken DEF PInv, PacketTypeOK, OnTheLines, NoneLeft
<1>3. out.is \in {"ask", "m"} /\ Delivered
  BY <1>1 DEF PInv, Turn, Delivered
<1>4. CASE out.is = "m"
  <2>1. InRun
    BY <1>4 DEF InRun
  <2>2. ctrlc' \in BOOLEAN
    BY <1>1 DEF PInv, PacketTypeOK
  <2> QED
    BY <1>1, <1>2, <1>4, <2>1, <2>2, MessageSent
<1>5. CASE out.is = "ask"
  <2> USE DEF servervars, setting
  <2>1. /\ gdb' = "idle" /\ tries' = 0 /\ took' = down[1].of
        /\ up' = Append(up, Plus)
        /\ UNCHANGED <<asked, out, ctrlc, cache, servervars, faults, setting>>
    BY <1>1, <1>2, <1>5
  <2>2. /\ \A i \in 1 .. Len(Inbox) : ~Carries(Inbox[i])
        /\ \A i \in 1 .. Len(down) : ~IsSign(down[i])
    BY <1>1 DEF PInv, OnTheLines, NoneLeft
  <2>3. \A i \in 1 .. Len(down) : Fresh(i)
    BY <1>1, <2>2 DEF Fresh
  <2>4. /\ DownKinds' /\ OneSign'
        /\ Len(down) \in Nat \ {0} /\ Len(down') = Len(down) - 1 /\ 1 \in 1 .. Len(down)
        /\ \A i \in 1 .. Len(down') : down'[i] = down[i + 1] /\ i + 1 \in 1 .. Len(down)
    BY <1>2, HeardLines
  <2>5. /\ \A i \in 1 .. Len(Inbox) : IsSign(Inbox[i])
        /\ then = "prompt" /\ at \in {"put", "get"} /\ handled = asked
        /\ at = "put" => reply = Item("reply", asked)
        /\ \A i \in 1 .. Len(down) : down[i].is = "bad" \/ down[i] = Item("reply", asked)
    BY <1>3, <1>5, <2>3, <2>4 DEF PInv, Asked, Answering
  <2>6. took' = asked
    BY <1>2, <2>1, <2>4, <2>5, ItemType DEF Frames, Requests, Replies, Item
  <2>7. up' \in Seq(Items) /\ Grows(Inbox, Inbox', Plus)
    BY <2>1, InboxAdded, SignItems DEF PInv, PacketTypeOK
  <2>8. /\ InboxKinds' /\ OneRequest'
        /\ Len(Inbox) \in Nat /\ Len(Inbox') = Len(Inbox) + 1 /\ Inbox'[Len(Inbox')] = Plus
        /\ \A i \in 1 .. Len(Inbox) : Inbox'[i] = Inbox[i] /\ i \in 1 .. Len(Inbox')
        /\ \A i \in 1 .. Len(Inbox') : i \in 1 .. Len(Inbox) \/ i = Len(Inbox')
    BY <2>1, <2>7, InboxGains, SignItems
  <2>9. ~Carries(Plus) /\ IsSign(Plus)
    BY SignItems DEF Carries, Requests, IsSign, Signs
  <2>10. PacketTypeOK'
    BY <1>2, <2>1, <2>6, <2>7 DEF PInv, PacketTypeOK
  <2>11. OnTheLines'
    BY <2>2, <2>4, <2>8, <2>9 DEF OnTheLines, NotBoth, NoneLeft, Carries
  <2>12. Delivered' /\ ~InRun'
    BY <1>5, <2>1 DEF Delivered, InRun
  <2>13. Turn' /\ Unseen' /\ Running' /\ Patience' /\ Sole' /\ Alert'
    BY <1>5, <2>1, <2>5, <2>6, <2>12 DEF PInv, Turn, Unseen, Running, Patience, Sole, Alert
  <2>14. Asked'
    <3>1. \A i \in 1 .. Len(Inbox') : IsSign(Inbox'[i])
      BY <2>5, <2>8, <2>9
    <3>2. \A i \in 1 .. Len(down') : down'[i].is = "bad" \/ down'[i] = Item("reply", asked)
      BY <2>4, <2>5
    <3> QED
      BY <2>1, <2>5, <3>1, <3>2 DEF Asked, Answering, IsSign
  <2>15. Owed'
    <3>1. Len(Inbox') \in 1 .. Len(Inbox') /\ ~Carries(Inbox'[Len(Inbox')])
      BY <2>8, <2>9
    <3> QED
      BY <3>1 DEF Owed, Carries
  <2>16. Answerable'
    <3>1. tries + Cardinality(BadIn(down)) <= faults /\ tries \in Nat /\ faults \in Nat
      BY <1>1 DEF PInv, PacketTypeOK, Answerable, Given
    <3>2. /\ Cardinality(BadIn(down')) <= Cardinality(BadIn(down))
          /\ Cardinality(BadIn(down')) \in Nat /\ Cardinality(BadIn(down)) \in Nat
      BY <1>2, HeardLines
    <3> QED
      BY <2>1, <3>1, <3>2 DEF Answerable, Given
  <2>17. Faultless'
    BY <2>1, <2>4, <2>8, SignItems DEF PInv, Faultless
  <2>18. OneReply'
    BY <1>1, <1>3, <1>5, <2>1, <2>4 DEF PInv, OneReply
  <2> QED
    BY <2>10, <2>11, <2>13, <2>14, <2>15, <2>16, <2>17, <2>18 DEF PInv
<1> QED
  BY <1>3, <1>4, <1>5

LEMMA InterruptInv ==
    ASSUME PInv, Interrupt
    PROVE  PInv'
<1>1. /\ gdb = "wait" /\ ctrlc' = TRUE /\ up' = Append(up, ETX)
      /\ UNCHANGED <<asked, took, gdb, out, tries, down, cache, servervars, faults, setting>>
  BY DEF Interrupt
<1> USE <1>1 DEF servervars, setting
<1>2. up' \in Seq(Items) /\ Grows(Inbox, Inbox', ETX)
  BY InboxAdded, SignItems DEF PInv, PacketTypeOK
<1>3. /\ \A i \in 1 .. Len(Inbox) : ~Carries(Inbox[i])
      /\ ~Carries(ETX)
  BY SignItems DEF PInv, OnTheLines, NoneLeft, Carries, Requests
<1>4. /\ InboxKinds' /\ OneRequest'
      /\ Len(Inbox) \in Nat /\ Len(Inbox') = Len(Inbox) + 1 /\ Inbox'[Len(Inbox')] = ETX
      /\ \A i \in 1 .. Len(Inbox) : Inbox'[i] = Inbox[i] /\ i \in 1 .. Len(Inbox')
      /\ \A i \in 1 .. Len(Inbox') : i \in 1 .. Len(Inbox) \/ i = Len(Inbox')
  BY <1>2, <1>3, InboxGains, SignItems
<1>5. out.is \in {"c", "F"} /\ Delivered'
  BY DEF PInv, Turn, Delivered
<1>6. PacketTypeOK'
  <2>1. ctrlc' \in BOOLEAN
    OBVIOUS
  <2> QED
    BY <1>2, <2>1 DEF PInv, PacketTypeOK
<1>7. OnTheLines'
  BY <1>3, <1>4 DEF PInv, OnTheLines, DownKinds, OneSign, NotBoth, NoneLeft, Carries
<1>8. Turn' /\ Unseen' /\ Asked' /\ Running' /\ Patience' /\ OneReply' /\ Sole'
  BY <1>5 DEF PInv, Turn, Unseen, Asked, Answering, Running, InRun, Delivered, Fresh, Patience,
     OneReply, Sole
<1>9. Owed'
  <2>1. Len(Inbox') \in 1 .. Len(Inbox') /\ ~Carries(Inbox'[Len(Inbox')])
    BY <1>3, <1>4
  <2> QED
    BY <2>1 DEF Owed, Carries
<1>10. Answerable'
  BY DEF PInv, Answerable, Given
<1>11. Faultless'
  BY <1>4, SignItems DEF PInv, Faultless
<1>12. Alert'
  BY <1>4 DEF PInv, Alert
<1> QED
  BY <1>6, <1>7, <1>8, <1>9, <1>10, <1>11, <1>12 DEF PInv

-----------------------------------------------------------------------------
(* The lines *)

LEMMA DamageUp ==
    ASSUME PInv, NEW k \in DOMAIN up, up[k].is \in Frames, up' = Bad(up, k),
           faults < MaxFaults[line], faults' = faults + 1,
           UNCHANGED <<gdbvars, down, cache, servervars, setting>>
    PROVE  PInv'
<1> USE DEF gdbvars, servervars, setting
<1>1. up \in Seq(Items) /\ cache \in Seq(Items) /\ faults \in Nat /\ faults' # 0
  BY DEF PInv, PacketTypeOK
<1>2. up[k].is # "bad"
  BY DEF Frames, Requests, Replies
<1>3. /\ up' \in Seq(Items) /\ Len(up') = Len(up) /\ Len(up) \in Nat \ {0}
      /\ k \in 1 .. Len(up)
      /\ \A i \in 1 .. Len(up) : i # k => up'[i] = up[i]
      /\ up'[k] = Item("bad", 0)
  BY <1>1, <1>2, BadAt
<1> DEFINE n == Len(cache) + k
<1>4. /\ n \in 1 .. Len(Inbox) /\ Len(Inbox') = Len(Inbox) /\ Len(Inbox) \in Nat
      /\ Inbox[n] = up[k] /\ Inbox'[n] = Item("bad", 0)
      /\ \A i \in 1 .. Len(Inbox) : i # n => Inbox'[i] = Inbox[i]
  <2>1. Len(Inbox) = Len(cache) + Len(up) /\ Len(Inbox') = Len(Inbox) /\ Len(cache) \in Nat
    <3>1. Inbox = cache \o up /\ Inbox' = cache \o up'
      BY DEF Inbox
    <3>2. /\ Len(cache \o up) = Len(cache) + Len(up) /\ Len(cache) \in Nat
          /\ Len(cache \o up') = Len(cache) + Len(up')
      BY <1>1, <1>3, SignItems, Regrouped
    <3> QED
      BY <1>3, <3>1, <3>2
  <2>2. n \in 1 .. Len(Inbox) /\ Inbox[n] = up[k] /\ Inbox'[n] = Item("bad", 0)
    BY <1>1, <1>3, <2>1 DEF Inbox
  <2>3. ASSUME NEW i \in 1 .. Len(Inbox), i # n PROVE Inbox'[i] = Inbox[i]
    <3>1. CASE i <= Len(cache)
      BY <1>1, <1>3, <2>1, <3>1 DEF Inbox
    <3>2. CASE i > Len(cache)
      <4>1. i - Len(cache) \in 1 .. Len(up) /\ i - Len(cache) # k
        BY <1>3, <2>1, <2>3, <3>2
      <4>2. Inbox'[i] = up'[i - Len(cache)] /\ Inbox[i] = up[i - Len(cache)]
        BY <1>1, <1>3, <2>1, <3>2, <4>1 DEF Inbox
      <4> QED
        BY <1>3, <4>1, <4>2
    <3> QED
      BY <2>1, <3>1, <3>2
  <2> HIDE DEF n
  <2> QED
    BY <1>3, <2>1, <2>2, <2>3
<1> HIDE DEF n
<1>5. Inbox[n] = out /\ out.is \in Requests /\ Carries(Inbox[n])
  BY <1>4 DEF PInv, OnTheLines, InboxKinds, PacketTypeOK, Frames, Requests, Replies, Carries
<1>6. Inbox'[n].is = "bad" /\ Carries(Inbox'[n])
  BY <1>4, SignItems DEF Carries
<1>7. gdb = "send" /\ ~Delivered
  BY <1>4, <1>5, Delivery
<1>8. /\ \A i \in 1 .. Len(Inbox) : i # n => ~Carries(Inbox[i]) /\ ~Carries(Inbox'[i])
      /\ \A i \in 1 .. Len(Inbox) : n < i => Inbox'[i].is = "+"
  <2>1. ASSUME NEW i \in 1 .. Len(Inbox), n < i PROVE Inbox[i].is = "+"
    BY <1>4, <1>5, <2>1 DEF PInv, OnTheLines, OneRequest
  <2>2. ASSUME NEW i \in 1 .. Len(Inbox), i < n PROVE ~Carries(Inbox[i])
    <3>1. Carries(Inbox[i]) => Inbox[n].is = "+"
      BY <1>4, <2>2 DEF PInv, OnTheLines, OneRequest
    <3> QED
      BY <1>5, <3>1 DEF Requests
  <2> QED
    BY <1>4, <2>1, <2>2 DEF Carries, Requests
<1>9. \A i \in 1 .. Len(down) : ~IsSign(down[i])
  BY <1>4, <1>5 DEF PInv, OnTheLines, NotBoth
<1>11. PacketTypeOK'
  BY <1>1, <1>3, Constants DEF PInv, PacketTypeOK
<1>12. OnTheLines'
  <2>1. InboxKinds'
    BY <1>4, <1>6 DEF PInv, OnTheLines, InboxKinds
  <2>2. OneRequest'
    BY <1>4, <1>8 DEF OneRequest, Carries
  <2> QED
    BY <1>7, <1>9, <2>1, <2>2 DEF PInv, OnTheLines, DownKinds, OneSign, NotBoth, NoneLeft
<1>13. ~Delivered'
  BY <1>7 DEF Delivered
<1>14. Turn' /\ Unseen' /\ Asked' /\ OneReply' /\ Sole' /\ Alert' /\ Faultless'
  BY <1>1, <1>7, <1>13 DEF PInv, Turn, Unseen, Asked, Answering, OneReply, Sole, Alert, Faultless
<1>15. Running'
  BY <1>7, <1>13 DEF PInv, Running, InRun, Fresh, IsSign
<1>16. Owed'
  <2> SUFFICES ASSUME at = "put", NEW i \in 1 .. Len(Inbox), ~Carries(Inbox[i])
               PROVE  \E j \in 1 .. Len(Inbox') : ~Carries(Inbox'[j])
    BY DEF PInv, Owed, Carries
  <2> QED
    BY <1>4, <1>5, <1>8
<1>17. Answerable'
  <2>1. Cardinality(BadIn(down)) \in Nat
    BY BadsFinite DEF PInv, PacketTypeOK
  <2> QED
    BY <1>1, <1>7, <2>1 DEF PInv, Answerable, Given
<1>18. Patience'
  <2>1. ~Worn
    BY <1>5, <1>8, <1>9 DEF Worn, Carries, IsSign, Signs, Requests
  <2>2. Alone => Alone'
    BY <1>4, <1>6, <1>9 DEF Alone, Carries, IsSign, Signs
  <2>3. tries <= faults + (IF Alone THEN 1 ELSE 0) /\ tries \in Nat
    BY <1>7, <2>1 DEF PInv, Patience, PacketTypeOK
  <2> QED
    BY <1>1, <2>2, <2>3 DEF Patience
<1> QED
  BY <1>11, <1>12, <1>14, <1>15, <1>16, <1>17, <1>18 DEF PInv

LEMMA DamageDown ==
    ASSUME PInv, NEW k \in DOMAIN down, down[k].is \in Frames, down' = Bad(down, k),
           faults < MaxFaults[line], faults' = faults + 1,
           UNCHANGED <<gdbvars, up, cache, servervars, setting>>
    PROVE  PInv'
<1> USE DEF gdbvars, servervars, setting
<1>1. down \in Seq(Items) /\ faults \in Nat /\ faults' # 0 /\ UNCHANGED Inbox
  BY DEF PInv, PacketTypeOK, Inbox
<1>2. down[k].is # "bad" /\ ~IsSign(down[k])
  BY DEF Frames, Requests, Replies, IsSign, Signs
<1> DEFINE n == Len(down)
<1>3. /\ down' \in Seq(Items) /\ Len(down') = n /\ n \in Nat \ {0} /\ k \in 1 .. n
      /\ \A i \in 1 .. n : i # k => down'[i] = down[i]
      /\ down'[k] = Item("bad", 0)
      /\ Cardinality(BadIn(down')) = Cardinality(BadIn(down)) + 1
      /\ Cardinality(BadIn(down)) \in Nat
  BY <1>1, <1>2, BadAt, BadsFinite
<1>4. down'[k].is = "bad" /\ ~IsSign(down'[k])
  BY <1>3, SignItems DEF IsSign, Signs
<1>5. \A i \in 1 .. n : /\ i = k \/ down'[i] = down[i]
                        /\ IsSign(down'[i]) <=> IsSign(down[i])
                        /\ \A s \in Signs : down'[i].is = s <=> down[i].is = s
  BY <1>2, <1>3, <1>4 DEF IsSign, Signs
<1>6. ASSUME NEW i \in 1 .. n PROVE Fresh(i)' => Fresh(i)
  <2>1. \A j \in 1 .. i - 1 : j \in 1 .. n
    BY <1>3
  <2> QED
    BY <1>5, <2>1 DEF Fresh, IsSign, Signs
<1>7. Delivered' = Delivered
  BY <1>3, <1>5 DEF Delivered, Signs
<1>8. PacketTypeOK'
  BY <1>1, <1>3, Constants DEF PInv, PacketTypeOK
<1>9. OnTheLines'
  <2>1. DownKinds'
    BY <1>3, <1>4, <1>5 DEF PInv, OnTheLines, DownKinds
  <2>2. OneSign' /\ NotBoth' /\ NoneLeft'
    BY <1>1, <1>3, <1>5 DEF PInv, OnTheLines, OneSign, NotBoth, NoneLeft, IsSign
  <2> QED
    BY <1>1, <2>1, <2>2 DEF PInv, OnTheLines, InboxKinds, OneRequest
<1>10. Turn' /\ Unseen' /\ OneReply' /\ Sole' /\ Alert' /\ Faultless'
  BY <1>1, <1>7 DEF PInv, Turn, Unseen, OneReply, Sole, Alert, Faultless
<1>11. Asked'
  <2> SUFFICES ASSUME out.is = "ask", Delivered PROVE Asked'
    BY <1>7 DEF Asked, Answering
  <2>1. /\ \A i \in 1 .. Len(Inbox) : IsSign(Inbox[i])
        /\ then = "prompt" /\ at \in {"work", "put", "get"}
        /\ at = "work" => /\ handled + 1 = asked /\ reply = Item("reply", asked)
                          /\ \A i \in 1 .. n : ~Fresh(i)
        /\ at # "work" => /\ handled = asked
                          /\ at = "put" => reply = Item("reply", asked)
                          /\ \A i \in 1 .. n :
                                Fresh(i) => down[i].is = "bad" \/ down[i] = Item("reply", asked)
    BY DEF PInv, Asked, Answering
  <2>2. at # "work" => \A i \in 1 .. n :
            Fresh(i)' => down'[i].is = "bad" \/ down'[i] = Item("reply", asked)
    BY <1>4, <1>5, <1>6, <2>1
  <2> QED
    BY <1>1, <1>3, <1>6, <2>1, <2>2 DEF Asked, Answering, IsSign
<1>12. Running'
  <2> SUFFICES ASSUME InRun PROVE Running'
    BY <1>7 DEF Running, InRun
  <2>1. /\ handled = asked /\ at # "work"
        /\ at = "put" /\ reply.is = "stop" => reply.of = asked /\ then = "prompt"
        /\ \A i \in 1 .. n : Fresh(i) /\ down[i].is = "stop" =>
              down[i].of = asked /\ then = "prompt" /\ at \in {"get", "put"}
    BY DEF PInv, Running
  <2>2. ASSUME NEW i \in 1 .. n, Fresh(i)', down'[i].is = "stop"
        PROVE  down'[i].of = asked /\ then = "prompt" /\ at \in {"get", "put"}
    BY <1>4, <1>5, <1>6, <2>1, <2>2
  <2> QED
    BY <1>3, <2>1, <2>2 DEF Running
<1>13. Owed'
  BY <1>1, <1>3, <1>5 DEF PInv, Owed, IsSign
<1>14. Answerable'
  <2>1. Given + Cardinality(BadIn(down)) <= faults /\ Given \in Nat /\ Given' = Given
    BY DEF PInv, Answerable, Given, PacketTypeOK
  <2> QED
    BY <1>1, <1>3, <2>1 DEF Answerable
<1>15. Patience'
  <2>1. Worn' => Worn
    BY <1>1, <1>3, <1>5 DEF Worn, Signs
  <2>2. ~Alone
    BY <1>2, <1>3 DEF Alone, IsSign, Signs
  <2> QED
    BY <1>1, <1>7, <2>1, <2>2 DEF PInv, Patience, PacketTypeOK
<1> QED
  BY <1>8, <1>9, <1>10, <1>11, <1>12, <1>13, <1>14, <1>15 DEF PInv

LEMMA DamageInv ==
    ASSUME PInv, Damage
    PROVE  PInv'
<1>1. CASE \E i \in DOMAIN up : up[i].is \in Frames /\ up' = Bad(up, i) /\ UNCHANGED down
  <2>1. PICK i \in DOMAIN up : up[i].is \in Frames /\ up' = Bad(up, i) /\ UNCHANGED down
    BY <1>1
  <2> QED
    BY <2>1, DamageUp DEF Damage
<1>2. CASE \E i \in DOMAIN down : down[i].is \in Frames /\ down' = Bad(down, i) /\ UNCHANGED up
  <2>1. PICK i \in DOMAIN down : down[i].is \in Frames /\ down' = Bad(down, i) /\ UNCHANGED up
    BY <1>2
  <2> QED
    BY <2>1, DamageDown DEF Damage
<1> QED
  BY <1>1, <1>2 DEF Damage

-----------------------------------------------------------------------------
(* On a busy line BInv goes on after the late +.                           *)

LEMMA BusyInit == Init => BInv
<1> SUFFICES ASSUME Init PROVE BInv
  OBVIOUS
<1>1. Inbox = <<>> /\ down = <<>> /\ Len(Inbox) = 0 /\ Len(down) = 0
  BY DEF Init, Inbox
<1>2. PacketTypeOK /\ Turn /\ Unseen /\ Answering /\ Running
  BY InitInv DEF PInv, Asked
<1> QED
  BY <1>1, <1>2 DEF Init, BInv, BusyLines, Lively, Due, Lockstep, Current, Delivered

(* Who has the turn on a busy line. *)
LEMMA BusyFacts ==
    ASSUME BInv
    PROVE  /\ up \in Seq(Items) /\ cache \in Seq(Items) /\ down \in Seq(Items)
           /\ Len(Inbox) \in Nat /\ Len(down) \in Nat
           /\ gdb # "send" => Delivered /\ \A i \in 1 .. Len(down) :
                                              down[i].is \in Replies /\ Current(i)
           /\ Delivered => \A i \in 1 .. Len(Inbox) : ~Live(i)
           /\ ~Delivered => gdb = "send" /\ \A i \in 1 .. Len(down) :
                                              down[i].is \in Replies /\ ~Current(i)
           /\ at \notin {"get", "put"} =>
                 /\ Delivered /\ gdb # "idle" /\ then # "stop"
                 /\ \A i \in 1 .. Len(down) : ~Current(i)
<1>1. up \in Seq(Items) /\ cache \in Seq(Items) /\ down \in Seq(Items)
  BY DEF BInv, PacketTypeOK
<1>2. Len(Inbox) \in Nat /\ Len(down) \in Nat
  BY <1>1, InboxType
<1>3. gdb # "send" => Delivered /\ \A i \in 1 .. Len(down) : down[i].is \in Replies /\ Current(i)
  BY DEF BInv, BusyLines, Delivered, Current
<1>4. Delivered => \A i \in 1 .. Len(Inbox) : ~Live(i)
  BY DEF BInv, Lively
<1>5. ASSUME ~Delivered, NEW i \in 1 .. Len(down) PROVE down[i].is \in Replies /\ ~Current(i)
  <2>1. gdb = "send" /\ \A j \in 1 .. Len(down) : down[j].is # "+"
    BY <1>5 DEF Delivered
  <2>2. \A j \in 1 .. i - 1 : j \in 1 .. Len(down)
    BY <1>2
  <2> QED
    BY <2>1, <2>2 DEF BInv, BusyLines, Current
<1>6. ASSUME at \notin {"get", "put"} PROVE Delivered /\ gdb # "idle"
  <2>1. gdb # "idle" /\ out.is \in Requests
    BY <1>6 DEF BInv, Turn, PacketTypeOK
  <2>2. ~Delivered => \E i \in 1 .. Len(Inbox) : Live(i)
    BY DEF BInv, Lively, Delivered
  <2> QED
    BY <1>6, <2>1, <2>2 DEF BInv, Lively
<1>7. ~Delivered => gdb = "send"
  BY DEF Delivered
<1> QED
  BY <1>1, <1>2, <1>3, <1>4, <1>5, <1>6, <1>7 DEF BInv, Due

LEMMA BusyTakes ==
    ASSUME BInv, Shrinks(Inbox, Inbox')
    PROVE  /\ 1 \in 1 .. Len(Inbox)
           /\ Len(Inbox) \in Nat \ {0} /\ Len(Inbox') = Len(Inbox) - 1
           /\ \A i \in 1 .. Len(Inbox') :
                 /\ i + 1 \in 1 .. Len(Inbox) /\ Inbox'[i] = Inbox[i + 1]
                 /\ Inbox'[i].is \in {"+"} \cup Requests
                 /\ Inbox'[i].is \in Requests => Live(i + 1)
           /\ \A i \in 1 .. Len(Inbox) :
                 i = 1 \/ (i - 1 \in 1 .. Len(Inbox') /\ Inbox'[i - 1] = Inbox[i])
<1>1. /\ 1 \in 1 .. Len(Inbox) /\ Len(Inbox) \in Nat \ {0} /\ Len(Inbox') = Len(Inbox) - 1
      /\ \A i \in 1 .. Len(Inbox') : i + 1 \in 1 .. Len(Inbox) /\ Inbox'[i] = Inbox[i + 1]
      /\ \A i \in 1 .. Len(Inbox) :
            i = 1 \/ (i - 1 \in 1 .. Len(Inbox') /\ Inbox'[i - 1] = Inbox[i])
  BY DEF Shrinks
<1>2. ASSUME NEW i \in 1 .. Len(Inbox')
      PROVE  /\ Inbox'[i].is \in {"+"} \cup Requests
             /\ Inbox'[i].is \in Requests => Live(i + 1)
  BY <1>1 DEF BInv, BusyLines, Live
<1> QED
  BY <1>1, <1>2

LEMMA BusyOffers ==
    ASSUME BInv, Offers, UNCHANGED <<out, gdb>>
    PROVE  /\ Delivered' = Delivered
           /\ \A i \in 1 .. Len(down') : down'[i].is \in {"+"} \cup Replies
           /\ \A i \in 1 .. Len(down') : down'[i].is = "+" =>
                 gdb = "send" /\ \A j \in 1 .. i - 1 : down'[j].is # "+"
           /\ Len(down) \in Nat /\ Len(down') >= Len(down)
           /\ \A i \in 1 .. Len(down) :
                 /\ down'[i] = down[i] /\ i \in 1 .. Len(down')
                 /\ Fresh(i)' = Fresh(i) /\ Current(i)' = Current(i)
<1>1. Len(down) \in Nat
  BY BusyFacts
<1>2. CASE UNCHANGED down
  BY <1>1, <1>2 DEF BInv, BusyLines, Delivered, Fresh, Current
<1>3. CASE ~UNCHANGED down
  <2>1. /\ Len(down') \in Nat /\ Len(down') >= Len(down)
        /\ \A i \in 1 .. Len(down) : down'[i] = down[i] /\ i \in 1 .. Len(down')
        /\ \A i \in 1 .. Len(down') : i \in 1 .. Len(down) \/ down'[i].is \in Replies
    BY <1>1, <1>3 DEF Offers
  <2>2. "+" \notin Replies
    BY DEF Replies
  <2>3. Delivered' = Delivered
    BY <2>1, <2>2 DEF Delivered
  <2>4. \A i \in 1 .. Len(down') : down'[i].is \in {"+"} \cup Replies
    BY <2>1 DEF BInv, BusyLines
  <2>5. \A i \in 1 .. Len(down') : down'[i].is = "+" =>
              gdb = "send" /\ \A j \in 1 .. i - 1 : down'[j].is # "+"
    <3> SUFFICES ASSUME NEW i \in 1 .. Len(down'), down'[i].is = "+"
                 PROVE  gdb = "send" /\ \A j \in 1 .. i - 1 : down'[j].is # "+"
      OBVIOUS
    <3>1. i \in 1 .. Len(down) /\ down[i].is = "+"
      BY <2>1, <2>2
    <3>2. \A j \in 1 .. i - 1 : j \in 1 .. Len(down)
      BY <1>1, <3>1
    <3> QED
      BY <2>1, <3>1, <3>2 DEF BInv, BusyLines
  <2>6. ASSUME NEW i \in 1 .. Len(down) PROVE Fresh(i)' = Fresh(i) /\ Current(i)' = Current(i)
    <3>1. \A j \in 1 .. i - 1 : j \in 1 .. Len(down)
      BY <1>1
    <3> QED
      BY <2>1, <3>1 DEF Fresh, Current, IsSign
  <2> QED
    BY <1>1, <2>1, <2>3, <2>4, <2>5, <2>6
<1> QED
  BY <1>2, <1>3

(* What gdb has asked for, the server still does. *)
LEMMA BusyPhases ==
    ASSUME BInv, Offers, UNCHANGED <<gdbvars, handled, then, setting>>,
           at \in {"get", "put"}, at' \in {"get", "put"}, reply' = reply,
           at' = "put" => at = "put",
           \A i \in Len(down) + 1 .. Len(down') : down'[i] = reply /\ at = "put"
    PROVE  Turn' /\ Unseen' /\ Answering' /\ Running'
<1> USE DEF gdbvars, setting
<1>1. /\ Delivered' = Delivered /\ Len(down) \in Nat
      /\ \A i \in 1 .. Len(down) : down'[i] = down[i] /\ Fresh(i)' = Fresh(i)
      /\ \A i \in 1 .. Len(down') : i \in 1 .. Len(down) \/ (down'[i] = reply /\ at = "put")
  BY BusyOffers DEF BInv
<1>2. Turn' /\ Unseen'
  BY <1>1 DEF BInv, Turn, Unseen
<1>3. Answering'
  BY <1>1 DEF BInv, Answering
<1>4. Running'
  BY <1>1 DEF BInv, Running, InRun
<1> QED
  BY <1>2, <1>3, <1>4

(* The server takes a +: a getpacket that goes on, a putpacket that ends.  *)
LEMMA BusyPlus ==
    ASSUME BInv, at \in {"get", "put"}, at' = "get", Shrinks(Inbox, Inbox'), Inbox[1].is = "+",
           up' \in Seq(Items), cache' \in Seq(Items),
           UNCHANGED <<gdbvars, down, reply, then, handled, job, messages, faults, setting>>
    PROVE  BInv'
<1> USE DEF gdbvars, setting
<1>1. Offers
  BY DEF Offers
<1>2. /\ Delivered' = Delivered
      /\ \A i \in 1 .. Len(down) : Current(i)' = Current(i)
  BY DEF Delivered, Current
<1>3. /\ 1 \in 1 .. Len(Inbox)
      /\ Len(Inbox) \in Nat \ {0} /\ Len(Inbox') = Len(Inbox) - 1
      /\ \A i \in 1 .. Len(Inbox') :
            /\ i + 1 \in 1 .. Len(Inbox) /\ Inbox'[i] = Inbox[i + 1]
            /\ Inbox'[i].is \in {"+"} \cup Requests
            /\ Inbox'[i].is \in Requests => Live(i + 1)
      /\ \A i \in 1 .. Len(Inbox) :
            i = 1 \/ (i - 1 \in 1 .. Len(Inbox') /\ Inbox'[i - 1] = Inbox[i])
  BY BusyTakes
<1>4. ASSUME NEW i \in 1 .. Len(Inbox') PROVE Live(i)' <=> Inbox'[i].is \in Requests
  BY DEF Live
<1>5. PacketTypeOK'
  BY DEF BInv, PacketTypeOK
<1>6. BusyLines'
  BY <1>3 DEF BInv, BusyLines
<1>7. Lively'
  <2>1. ASSUME gdb = "send", ~Delivered PROVE \E i \in 1 .. Len(Inbox') : Live(i)'
    <3>1. PICK i \in 1 .. Len(Inbox) : Live(i)
      BY <2>1 DEF BInv, Lively
    <3>2. i # 1 /\ Inbox[i].is \in Requests
      BY <3>1 DEF Live, Requests
    <3> QED
      BY <1>3, <1>4, <3>2
  <2>2. ASSUME NEW i \in 1 .. Len(Inbox'), Live(i)'
        PROVE  /\ gdb = "send" /\ ~Delivered /\ Inbox'[i] = out
               /\ \A j \in i + 1 .. Len(Inbox') : Inbox'[j].is \in Requests =>
                     /\ j = i + 1 /\ j = Len(Inbox') /\ Inbox'[j] = out /\ Len(down) = 0
                     /\ \A k \in 1 .. i - 1 : Inbox'[k].is = "+"
    <3>1. /\ Live(i + 1) /\ i + 1 \in 1 .. Len(Inbox)
      BY <1>3, <1>4, <2>2
    <3>2. /\ gdb = "send" /\ ~Delivered /\ Inbox[i + 1] = out
          /\ \A j \in (i + 1) + 1 .. Len(Inbox) : Inbox[j].is \in Requests =>
                /\ j = (i + 1) + 1 /\ j = Len(Inbox) /\ Inbox[j] = out /\ Len(down) = 0
                /\ \A k \in 1 .. (i + 1) - 1 : Inbox[k].is = "+"
      BY <3>1 DEF BInv, Lively
    <3>3. ASSUME NEW j \in i + 1 .. Len(Inbox'), Inbox'[j].is \in Requests
          PROVE  /\ j = i + 1 /\ j = Len(Inbox') /\ Inbox'[j] = out /\ Len(down) = 0
                 /\ \A k \in 1 .. i - 1 : Inbox'[k].is = "+"
      <4>1. j \in 1 .. Len(Inbox') /\ j + 1 \in (i + 1) + 1 .. Len(Inbox)
        BY <1>3
      <4>2. /\ j + 1 = (i + 1) + 1 /\ j + 1 = Len(Inbox) /\ Inbox[j + 1] = out /\ Len(down) = 0
            /\ \A k \in 1 .. (i + 1) - 1 : Inbox[k].is = "+"
        BY <1>3, <3>2, <3>3, <4>1
      <4>3. ASSUME NEW k \in 1 .. i - 1 PROVE Inbox'[k].is = "+"
        <5>1. k \in 1 .. Len(Inbox') /\ k + 1 \in 1 .. (i + 1) - 1
          OBVIOUS
        <5> QED
          BY <1>3, <4>2, <5>1
      <4> QED
        BY <1>3, <4>1, <4>2, <4>3
    <3> QED
      BY <1>3, <3>2, <3>3
  <2> QED
    BY <1>2, <2>1, <2>2 DEF Lively
<1>8. Due'
  BY <1>2 DEF BInv, Due
<1>9. Lockstep'
  <2> SUFFICES ASSUME faults = 0 PROVE Lockstep'
    BY DEF Lockstep
  <2>1. /\ tries = 0
        /\ \A i \in 1 .. Len(Inbox) : Inbox[i].is \in Requests => Live(i) /\ i = Len(Inbox)
        /\ gdb = "idle" \/ ~Delivered => Len(down) = 0
        /\ gdb \in {"answer", "wait"} => Len(down) <= 1
        /\ ~(gdb = "send" /\ Delivered)
    BY <1>3 DEF BInv, Lockstep
  <2>2. \A i \in 1 .. Len(Inbox') :
            Inbox'[i].is \in Requests => Live(i)' /\ i = Len(Inbox')
    BY <1>3, <1>4, <2>1
  <2> QED
    BY <1>2, <2>1, <2>2 DEF Lockstep
<1>10. Turn' /\ Unseen' /\ Answering' /\ Running'
  BY <1>1, BusyPhases DEF BInv, PacketTypeOK
<1> QED
  BY <1>5, <1>6, <1>7, <1>8, <1>9, <1>10 DEF BInv

(* A putpacket that eats a packet, a copy of a request that it has taken   *)
(* already: gdb has then had its late +.                                   *)
LEMMA BusyEats ==
    ASSUME BInv, at = "put", Shrinks(Inbox, Inbox'), Inbox[1].is # "+",
           up' \in Seq(Items), cache' \in Seq(Items), down' \in Seq(Items),
           Fills(down, down', reply), at' \in {"get", "put"},
           UNCHANGED <<gdbvars, reply, then, handled, job, messages, faults, setting>>
    PROVE  BInv'
<1> USE DEF gdbvars, setting
<1>1. /\ 1 \in 1 .. Len(Inbox)
      /\ Len(Inbox) \in Nat \ {0} /\ Len(Inbox') = Len(Inbox) - 1
      /\ \A i \in 1 .. Len(Inbox') :
            /\ i + 1 \in 1 .. Len(Inbox) /\ Inbox'[i] = Inbox[i + 1]
            /\ Inbox'[i].is \in {"+"} \cup Requests
            /\ Inbox'[i].is \in Requests => Live(i + 1)
      /\ \A i \in 1 .. Len(Inbox) :
            i = 1 \/ (i - 1 \in 1 .. Len(Inbox') /\ Inbox'[i - 1] = Inbox[i])
  BY BusyTakes
<1>2. Offers
  BY DEF Offers, Fills, BInv, PacketTypeOK
<1>3. /\ Delivered' = Delivered
      /\ \A i \in 1 .. Len(down') : down'[i].is \in {"+"} \cup Replies
      /\ \A i \in 1 .. Len(down') : down'[i].is = "+" =>
            gdb = "send" /\ \A j \in 1 .. i - 1 : down'[j].is # "+"
      /\ Len(down) \in Nat /\ Len(down') >= Len(down)
      /\ \A i \in 1 .. Len(down) :
            /\ down'[i] = down[i] /\ i \in 1 .. Len(down')
            /\ Fresh(i)' = Fresh(i) /\ Current(i)' = Current(i)
  BY <1>2, BusyOffers
<1>4. Inbox[1].is \in Requests /\ ~Live(1)
  BY <1>1 DEF BInv, BusyLines, Live
<1>5. faults # 0
  BY <1>1, <1>4 DEF BInv, Lockstep
<1>6. ASSUME NEW i \in 1 .. Len(Inbox), Live(i)
      PROVE  /\ gdb = "send" /\ ~Delivered /\ Inbox[i] = out /\ i > 2
             /\ \E j \in 1 .. i - 2 : Inbox'[j].is = "+"
             /\ \A j \in i + 1 .. Len(Inbox) : Inbox[j].is \notin Requests
  <2>1. /\ gdb = "send" /\ ~Delivered /\ Inbox[i] = out
        /\ \E j \in 1 .. i - 1 : Inbox[j].is = "+"
        /\ \A j \in i + 1 .. Len(Inbox) : Inbox[j].is \in Requests =>
              \A k \in 1 .. i - 1 : Inbox[k].is = "+"
    BY <1>6 DEF BInv, Lively
  <2>2. PICK j \in 1 .. i - 1 : Inbox[j].is = "+"
    BY <2>1
  <2>3. j # 1 /\ j - 1 \in 1 .. i - 2 /\ Inbox'[j - 1] = Inbox[j] /\ i > 2
    BY <1>1, <2>2
  <2>4. 1 \in 1 .. i - 1
    BY <2>3
  <2> QED
    BY <2>1, <2>2, <2>3, <2>4
<1>7. PacketTypeOK'
  BY DEF BInv, PacketTypeOK
<1>8. BusyLines'
  BY <1>1, <1>3 DEF BusyLines
<1>9. Lively'
  <2>1. ASSUME gdb = "send", ~Delivered PROVE \E i \in 1 .. Len(Inbox') : Live(i)'
    <3>1. PICK i \in 1 .. Len(Inbox) : Live(i)
      BY <2>1 DEF BInv, Lively
    <3>2. i > 2 /\ Inbox[i].is \in Requests
      BY <1>6, <3>1 DEF Live
    <3>3. i - 1 \in 1 .. Len(Inbox') /\ i - 1 # 1 /\ Inbox'[i - 1] = Inbox[i]
      BY <1>1, <3>2
    <3> QED
      BY <3>2, <3>3 DEF Live
  <2>2. ASSUME NEW i \in 1 .. Len(Inbox'), Live(i)'
        PROVE  /\ gdb = "send" /\ ~Delivered /\ Inbox'[i] = out
               /\ \E j \in 1 .. i - 1 : Inbox'[j].is = "+"
               /\ \A j \in i + 1 .. Len(Inbox') : Inbox'[j].is \notin Requests
    <3>1. Live(i + 1) /\ i + 1 \in 1 .. Len(Inbox)
      BY <1>1, <2>2 DEF Live
    <3>2. /\ gdb = "send" /\ ~Delivered /\ Inbox[i + 1] = out
          /\ \E j \in 1 .. (i + 1) - 2 : Inbox'[j].is = "+"
          /\ \A j \in (i + 1) + 1 .. Len(Inbox) : Inbox[j].is \notin Requests
      BY <1>6, <3>1
    <3>3. \A j \in i + 1 .. Len(Inbox') : /\ j \in 1 .. Len(Inbox')
                                          /\ j + 1 \in (i + 1) + 1 .. Len(Inbox)
      BY <1>1
    <3> QED
      BY <1>1, <3>2, <3>3
  <2> QED
    BY <1>3, <2>1, <2>2 DEF Lively
<1>10. Due'
  <2>1. (\E i \in 1 .. Len(Inbox) : Inbox[i].is = "+") =>
            \E i \in 1 .. Len(Inbox') : Inbox'[i].is = "+"
    BY <1>1
  <2> QED
    BY <1>3, <2>1 DEF BInv, Due
<1>11. Lockstep'
  BY <1>5 DEF Lockstep
<1>12. Turn' /\ Unseen' /\ Answering' /\ Running'
  BY <1>2, BusyPhases DEF BInv, PacketTypeOK, Fills
<1> QED
  BY <1>7, <1>8, <1>9, <1>10, <1>11, <1>12 DEF BInv

LEMMA BusyWaits ==
    ASSUME BInv, Skip \/ Acked \/ AckedInside \/ Resend
    PROVE  BInv'
<1>1. /\ up \in Seq(Items) /\ cache \in Seq(Items) /\ down \in Seq(Items)
      /\ reply \in Items /\ Len(Inbox) \in Nat
      /\ then # "stop"
  BY BusyFacts DEF BInv, PacketTypeOK, Due
<1>2. CASE Skip
  <2>1. /\ up' \in Seq(Items) /\ cache' \in Seq(Items) /\ Shrinks(Inbox, Inbox')
        /\ Inbox[1].is \in {"+", "-"}
    BY <1>1, <1>2, InboxTaken DEF Skip
  <2>2. Inbox[1].is = "+"
    BY <2>1 DEF BInv, BusyLines, Shrinks, Requests
  <2> QED
    BY <1>2, <2>1, <2>2, BusyPlus DEF Skip, servervars
<1>3. CASE Acked
  <2>1. /\ up' \in Seq(Items) /\ cache' \in Seq(Items) /\ Shrinks(Inbox, Inbox')
        /\ Inbox[1].is = "+"
    BY <1>1, <1>3, InboxTaken DEF Acked
  <2>2. at = "put" /\ at' = "get" /\ down' = down \o <<>> /\ UNCHANGED <<reply, then>>
    BY <1>1, <1>3 DEF Acked, Finish
  <2>3. down' = down
    BY <1>1, <2>2
  <2> QED
    BY <1>3, <2>1, <2>2, <2>3, BusyPlus DEF Acked
<1>4. CASE AckedInside
  <2>1. /\ up' \in Seq(Items) /\ cache' \in Seq(Items) /\ Shrinks(Inbox, Inbox')
        /\ Inbox[1].is \in {"ask", "bad"}
    BY <1>1, <1>4, InboxTaken DEF AckedInside
  <2>2. PICK n \in Nat : Finish(Copies(n))
    BY <1>4, Constants DEF AckedInside
  <2>3. at' = "get" /\ down' = down \o Copies(n) /\ UNCHANGED <<reply, then>>
    BY <1>1, <2>2 DEF Finish
  <2>4. down' \in Seq(Items) /\ Fills(down, down', reply)
    BY <1>1, <2>3, CopiesAdded
  <2> QED
    BY <1>4, <2>1, <2>3, <2>4, BusyEats DEF AckedInside
<1>5. CASE Resend
  <2>1. /\ up' \in Seq(Items) /\ cache' \in Seq(Items) /\ Shrinks(Inbox, Inbox')
        /\ Inbox[1].is # "+"
    BY <1>1, <1>5, InboxTaken DEF Resend
  <2>2. PICK n \in Nat : down' = down \o Copies(n)
    BY <1>5, Constants DEF Resend
  <2>3. down' \in Seq(Items) /\ Fills(down, down', reply)
    BY <1>1, <2>2, CopiesAdded
  <2> QED
    BY <1>5, <2>1, <2>3, BusyEats DEF Resend, servervars
<1> QED
  BY <1>2, <1>3, <1>4, <1>5

(* The server takes the request, sends the + and perhaps a packet: if      *)
(* there is another copy behind it, the server is then not where it looks  *)
(* for a request.                                                          *)
LEMMA BusyReceived ==
    ASSUME BInv, at = "get", at' # "get", Shrinks(Inbox, Inbox'), Inbox[1].is \in Requests,
           UNCHANGED <<gdbvars, faults, setting>>, then' # "stop",
           NEW d, Grows(down, d, Plus),
           \/ down' = d /\ at' # "put"
           \/ at' = "put" /\ \E x \in Items : Grows(d, down', x) /\ x.is \in Replies
    PROVE  /\ BusyLines' /\ Lively' /\ Due' /\ Lockstep' /\ Delivered'
           /\ gdb = "send" /\ ~Delivered /\ Inbox[1] = out
           /\ Len(down) \in Nat /\ down'[Len(down) + 1] = Plus
           /\ \A i \in 1 .. Len(down) :
                 down'[i] = down[i] /\ ~IsSign(down[i]) /\ Fresh(i)' = Fresh(i)
           /\ \A i \in 1 .. Len(down') :
                 i \in 1 .. Len(down) \/ i = Len(down) + 1
                   \/ (at' = "put" /\ i = Len(down) + 2 /\ i = Len(down'))
<1> USE DEF gdbvars, setting
<1>1. /\ 1 \in 1 .. Len(Inbox)
      /\ Len(Inbox) \in Nat \ {0} /\ Len(Inbox') = Len(Inbox) - 1
      /\ \A i \in 1 .. Len(Inbox') :
            /\ i + 1 \in 1 .. Len(Inbox) /\ Inbox'[i] = Inbox[i + 1]
            /\ Inbox'[i].is \in {"+"} \cup Requests
  BY BusyTakes
<1>2. Live(1)
  BY DEF Live
<1>3. /\ gdb = "send" /\ ~Delivered /\ Inbox[1] = out
      /\ \A j \in 1 + 1 .. Len(Inbox) : Inbox[j].is \in Requests => j = 1 + 1 /\ j = Len(Inbox)
  BY <1>1, <1>2 DEF BInv, Lively
<1>4. ASSUME NEW i \in 1 .. Len(Inbox') PROVE ~Live(i)'
  <2> SUFFICES ASSUME Inbox'[i].is \in Requests PROVE i = 1
    BY DEF Live
  <2>1. i + 1 \in 1 + 1 .. Len(Inbox) /\ Inbox[i + 1].is \in Requests
    BY <1>1
  <2> QED
    BY <1>3, <2>1
<1>5. \A i \in 1 .. Len(down) : down[i].is \in Replies /\ ~Current(i)
  BY <1>3, BusyFacts
<1>6. /\ \A i \in 1 .. Len(down) : d[i] = down[i]
      /\ Len(d) = Len(down) + 1 /\ Len(down) \in Nat /\ d[Len(down) + 1] = Plus
  BY DEF Grows
<1>7. /\ \A i \in 1 .. Len(down) : down'[i] = down[i] /\ i \in 1 .. Len(down')
      /\ down'[Len(down) + 1] = Plus /\ Len(down) + 1 \in 1 .. Len(down')
      /\ Len(down') \in {Len(down) + 1, Len(down) + 2}
      /\ Len(down') = Len(down) + 2 <=> at' = "put"
      /\ Len(down') = Len(down) + 2 => down'[Len(down) + 2].is \in Replies
      /\ \A i \in 1 .. Len(down') :
            i \in 1 .. Len(down) \/ i = Len(down) + 1
              \/ (at' = "put" /\ i = Len(down) + 2 /\ i = Len(down'))
  BY <1>6 DEF Grows
<1>8. Delivered'
  BY <1>7, SignItems DEF Delivered
<1>9. "+" \notin Replies
  BY DEF Replies
<1>10. BusyLines'
  <2>1. ASSUME NEW i \in 1 .. Len(down'), down'[i].is = "+"
        PROVE  \A j \in 1 .. i - 1 : down'[j].is # "+"
    <3>1. i = Len(down) + 1
      BY <1>5, <1>7, <1>9, <2>1
    <3> QED
      BY <1>5, <1>6, <1>7, <1>9, <3>1
  <2>2. \A i \in 1 .. Len(down') : down'[i].is \in {"+"} \cup Replies
    BY <1>5, <1>7, SignItems
  <2> QED
    BY <1>1, <1>3, <2>1, <2>2 DEF BusyLines
<1>11. Lively'
  BY <1>4, <1>8 DEF Lively
<1>12. ASSUME NEW i \in 1 .. Len(down) PROVE ~Current(i)' /\ Fresh(i)' = Fresh(i)
  <2>1. \A j \in 1 .. i - 1 : j \in 1 .. Len(down)
    BY <1>6
  <2> QED
    BY <1>3, <1>5, <1>7, <1>9, <2>1 DEF Current, Fresh, IsSign
<1>13. Due'
  <2>1. ASSUME NEW i \in 1 .. Len(down'), Current(i)' PROVE at' = "put"
    BY <1>7, <1>9, <1>12, <2>1, SignItems DEF Current
  <2>2. ASSUME at' = "put" PROVE \E i \in 1 .. Len(down') : Current(i)'
    <3>1. PICK i \in 1 .. Len(down') : i = Len(down) + 2
      BY <1>6, <1>7, <2>2
    <3>2. down'[i].is \in Replies /\ \E j \in 1 .. i - 1 : down'[j].is = "+"
      BY <1>6, <1>7, <3>1, SignItems
    <3> QED
      BY <3>2 DEF Current
  <2>3. gdb' # "idle"
    BY <1>3
  <2> QED
    BY <2>1, <2>2, <2>3 DEF Due
<1>14. Lockstep'
  <2> SUFFICES ASSUME faults = 0 PROVE Lockstep'
    BY DEF Lockstep
  <2>1. tries = 0 /\ Len(down) = 0 /\ 1 = Len(Inbox)
    BY <1>1, <1>3 DEF BInv, Lockstep
  <2>2. Len(Inbox') = 0 /\ Len(down') \in 1 .. 2 /\ down'[1].is = "+"
    <3>1. Len(Inbox') = 0
      <4>1. Len(Inbox') = Len(Inbox) - 1
        BY <1>1
      <4> QED
        BY <2>1, <4>1
    <3>2. Len(down') \in 1 .. 2
      BY <1>7, <2>1
    <3>3. down'[1] = Plus
      BY <1>7, <2>1
    <3> QED
      BY <3>1, <3>2, <3>3, SignItems
  <2>3. gdb' = "send" /\ tries' = 0
    BY <1>3, <2>1
  <2> QED
    BY <1>8, <2>2, <2>3 DEF Lockstep
<1>15. \A i \in 1 .. Len(down) : ~IsSign(down[i])
  BY <1>5 DEF IsSign, Signs, Replies
<1> QED
  BY <1>3, <1>6, <1>7, <1>8, <1>10, <1>11, <1>12, <1>13, <1>14, <1>15

LEMMA BusyRequest ==
    ASSUME BInv, Request
    PROVE  BInv'
<1>1. /\ up' \in Seq(Items) /\ cache' \in Seq(Items) /\ Char = Inbox[1]
      /\ Shrinks(Inbox, Inbox') /\ Inbox[1].is = "ask"
  BY InboxTaken, BusyFacts DEF Request
<1>2. /\ at = "get" /\ then = "prompt" /\ at' = "work" /\ reply' = Item("reply", Char.of)
      /\ UNCHANGED <<gdbvars, then, handled, job, messages, faults, setting>>
  BY DEF Request, AtPrompt
<1>3. down' \in Seq(Items) /\ Grows(down, down', Plus)
  BY DownAdded, SignItems DEF Request, BInv, PacketTypeOK
<1>4. /\ BusyLines' /\ Lively' /\ Due' /\ Lockstep' /\ Delivered'
      /\ gdb = "send" /\ ~Delivered /\ Inbox[1] = out
      /\ Len(down) \in Nat /\ down'[Len(down) + 1] = Plus
      /\ \A i \in 1 .. Len(down) : down'[i] = down[i] /\ ~IsSign(down[i])
  BY <1>1, <1>2, <1>3, BusyReceived DEF Requests
<1> USE <1>2 DEF gdbvars, setting
<1>5. out.is = "ask" /\ out.of = asked /\ handled + 1 = asked
  BY <1>1, <1>4 DEF BInv, Turn, Unseen
<1>6. Len(down') = Len(down) + 1
  BY <1>3 DEF Grows
<1>7. /\ reply' = Item("reply", asked) /\ reply' \in Items /\ reply'.is \in Replies
  <2>1. "reply" \in Kinds /\ "reply" \in Replies /\ asked \in 0 .. Turns
    BY DEF BInv, PacketTypeOK, Kinds, Frames, Replies
  <2>2. reply' = Item("reply", asked)
    BY <1>1, <1>4, <1>5
  <2> QED
    BY <2>1, <2>2, ItemType
<1>8. PacketTypeOK'
  BY <1>1, <1>3, <1>7 DEF BInv, PacketTypeOK
<1>9. Turn' /\ Unseen' /\ Running'
  BY <1>4, <1>5 DEF BInv, Turn, Unseen, Running, InRun
<1>10. \A i \in 1 .. Len(down') : ~Fresh(i)'
  BY <1>4, <1>5, <1>6, SignItems DEF Fresh, IsSign, Signs
<1>11. Answering'
  BY <1>4, <1>5, <1>7, <1>10 DEF Answering
<1> QED
  BY <1>4, <1>8, <1>9, <1>11 DEF BInv

LEMMA BusyContinue ==
    ASSUME BInv, Continue
    PROVE  BInv'
<1>1. /\ up' \in Seq(Items) /\ cache' \in Seq(Items)
      /\ Shrinks(Inbox, Inbox') /\ Inbox[1].is = "c"
  BY InboxTaken, BusyFacts DEF Continue
<1>2. /\ at = "get" /\ then = "prompt" /\ at' \in {"run", "fake"} /\ handled' = handled + 1
      /\ UNCHANGED <<gdbvars, reply, then, job, messages, faults, setting>>
  BY DEF Continue, AtPrompt
<1>3. down' \in Seq(Items) /\ Grows(down, down', Plus)
  BY DownAdded, SignItems DEF Continue, BInv, PacketTypeOK
<1>4. /\ BusyLines' /\ Lively' /\ Due' /\ Lockstep' /\ Delivered'
      /\ gdb = "send" /\ ~Delivered /\ Inbox[1] = out
      /\ Len(down) \in Nat /\ down'[Len(down) + 1] = Plus
      /\ \A i \in 1 .. Len(down) : down'[i] = down[i] /\ ~IsSign(down[i])
  BY <1>1, <1>2, <1>3, BusyReceived DEF Requests
<1> USE <1>2 DEF gdbvars, setting
<1>5. out.is = "c" /\ handled' = asked
  BY <1>1, <1>4 DEF BInv, Unseen
<1>6. Len(down') = Len(down) + 1
  BY <1>3 DEF Grows
<1>7. PacketTypeOK'
  BY <1>1, <1>3 DEF BInv, PacketTypeOK
<1>8. Turn' /\ Unseen' /\ Answering'
  BY <1>4, <1>5 DEF BInv, Turn, Unseen, Answering
<1>9. \A i \in 1 .. Len(down') : ~Fresh(i)'
  BY <1>4, <1>5, <1>6, SignItems DEF Fresh, IsSign, Signs
<1>10. Running'
  BY <1>5, <1>9 DEF Running
<1> QED
  BY <1>4, <1>7, <1>8, <1>10 DEF BInv

(* A packet about a message. *)
LEMMA BusyAnswers ==
    ASSUME BInv, at = "get", Shrinks(Inbox, Inbox'), Inbox[1].is \in {"m", "F"},
           NEW x \in Items, x.is \in {"empty", "reply"}, down' = down \o <<Plus, x>>,
           at' = "put", reply' = x, then' \in {"prompt", "write", "written"},
           then' # "prompt" => \A i \in 1 .. Len(down) : Fresh(i) => down[i].is # "stop",
           up' \in Seq(Items), cache' \in Seq(Items),
           UNCHANGED <<gdbvars, handled, job, messages, faults, setting>>
    PROVE  BInv'
<1> DEFINE d == Append(down, Plus)
<1>1. d \in Seq(Items) /\ Grows(down, d, Plus) /\ down' \in Seq(Items) /\ Grows(d, down', x)
  BY AddedTwo, SignItems DEF BInv, PacketTypeOK
<1> HIDE DEF d
<1>2. x.is \in Replies /\ Inbox[1].is \in Requests
  BY DEF Replies, Requests
<1>3. /\ BusyLines' /\ Lively' /\ Due' /\ Lockstep' /\ Delivered'
      /\ gdb = "send" /\ ~Delivered /\ Inbox[1] = out
      /\ Len(down) \in Nat /\ down'[Len(down) + 1] = Plus
      /\ \A i \in 1 .. Len(down) :
            down'[i] = down[i] /\ ~IsSign(down[i]) /\ Fresh(i)' = Fresh(i)
      /\ \A i \in 1 .. Len(down') :
            i \in 1 .. Len(down) \/ i = Len(down) + 1 \/ (i = Len(down) + 2 /\ i = Len(down'))
  BY <1>1, <1>2, BusyReceived
<1> USE DEF gdbvars, setting
<1>4. Len(down') = Len(down) + 2 /\ down'[Len(down) + 2] = x
  BY <1>1 DEF Grows
<1>5. PacketTypeOK'
  BY <1>1, <1>2 DEF BInv, PacketTypeOK
<1>6. out.is \in {"m", "F"}
  BY <1>3
<1>7. Turn' /\ Unseen' /\ Answering'
  BY <1>3, <1>6 DEF BInv, Turn, Unseen, Answering
<1>8. handled = asked /\ \A i \in 1 .. Len(down) : Fresh(i) /\ down[i].is = "stop" =>
          down[i].of = asked
  BY <1>6 DEF BInv, Running, InRun
<1>9. Running'
  <2>1. ASSUME NEW i \in 1 .. Len(down'), Fresh(i)', down'[i].is = "stop"
        PROVE  down'[i].of = asked /\ then' = "prompt"
    <3>1. i \in 1 .. Len(down)
      BY <1>3, <1>4, <2>1, SignItems
    <3> QED
      BY <1>3, <1>8, <2>1, <3>1
  <2> QED
    BY <1>8, <2>1 DEF Running
<1> QED
  BY <1>3, <1>5, <1>7, <1>9 DEF BInv

LEMMA BusyFake ==
    ASSUME BInv, Unsupported \/ FakeRead \/ FakeOther
    PROVE  BInv'
<1>1. CASE Unsupported
  <2>1. /\ up' \in Seq(Items) /\ cache' \in Seq(Items)
        /\ Shrinks(Inbox, Inbox') /\ Inbox[1].is \in {"m", "F"}
    BY <1>1, InboxTaken DEF Unsupported, BInv, PacketTypeOK
  <2> QED
    BY <1>1, <2>1, BusyAnswers, SignItems DEF Unsupported, AtPrompt, Put
<1>2. CASE FakeRead
  <2> DEFINE x == Item("reply", 0)
  <2>1. /\ up' \in Seq(Items) /\ cache' \in Seq(Items)
        /\ Shrinks(Inbox, Inbox') /\ Inbox[1].is \in {"m", "F"}
    BY <1>2, InboxTaken DEF FakeRead, BInv, PacketTypeOK
  <2>2. /\ at = "get" /\ then = "write" /\ down' = down \o <<Plus, x>>
        /\ at' = "put" /\ reply' = x /\ then' = "written"
        /\ UNCHANGED <<gdbvars, handled, job, messages, faults, setting>>
    BY <1>2 DEF FakeRead, Put
  <2>3. x \in Items /\ x.is = "reply"
    BY ItemType, Constants DEF Kinds, Frames, Replies
  <2> HIDE DEF x
  <2>4. \A i \in 1 .. Len(down) : Fresh(i) => down[i].is # "stop"
    BY <2>2, RunPhase
  <2> QED
    BY <2>1, <2>2, <2>3, <2>4, BusyAnswers
<1>3. CASE FakeOther
  <2>1. /\ up' \in Seq(Items) /\ cache' \in Seq(Items)
        /\ Shrinks(Inbox, Inbox') /\ Inbox[1].is \in Frames
    BY <1>3, InboxTaken DEF FakeOther, BInv, PacketTypeOK
  <2>2. /\ at = "get" /\ then = "write" /\ down' = down \o <<Plus, Empty>>
        /\ at' = "put" /\ reply' = Empty /\ then' = "write"
        /\ UNCHANGED <<gdbvars, handled, job, messages, faults, setting>>
    BY <1>3 DEF FakeOther, Put
  <2>3. /\ InRun /\ out.is \in {"c", "m", "F"}
        /\ \A i \in 1 .. Len(down) : Fresh(i) => down[i].is # "stop"
    BY <2>2, RunPhase
  <2>4. Inbox[1] = out /\ ~Delivered
    <3>1. 1 \in 1 .. Len(Inbox)
      BY <2>1 DEF Shrinks
    <3>2. Live(1)
      BY <2>1, <2>2, <3>1 DEF BInv, BusyLines, Live, Frames, Requests, Replies
    <3> QED
      BY <3>1, <3>2 DEF BInv, Lively
  <2>5. Inbox[1].is \in {"m", "F"}
    BY <2>3, <2>4 DEF InRun
  <2> QED
    BY <2>1, <2>2, <2>3, <2>5, BusyAnswers, SignItems
<1> QED
  BY <1>1, <1>2, <1>3

LEMMA BusyWritten ==
    ASSUME BInv, FakeWritten
    PROVE  BInv'
<1>1. /\ up' \in Seq(Items) /\ cache' \in Seq(Items) /\ Char = Inbox[1]
      /\ Shrinks(Inbox, Inbox') /\ Inbox[1].is \in Frames \cup {"^C"}
  BY InboxTaken DEF FakeWritten, BInv, PacketTypeOK
<1>2. /\ at = "get" /\ then = "written" /\ at' = "fake"
      /\ UNCHANGED <<gdbvars, reply, then, handled, job, messages, faults, setting>>
  BY DEF FakeWritten
<1>3. /\ InRun /\ out.is \in {"c", "m", "F"} /\ handled = asked
      /\ \A i \in 1 .. Len(down) : Fresh(i) => down[i].is # "stop"
  BY <1>2, RunPhase
<1>4. Inbox[1].is \in Requests /\ Inbox[1].is \in Frames
  <2>1. Inbox[1].is \in {"+"} \cup Requests
    BY <1>1 DEF BInv, BusyLines, Shrinks
  <2> QED
    BY <1>1, <2>1 DEF Frames, Requests, Replies
<1>5. down' \in Seq(Items) /\ Grows(down, down', Plus)
  BY <1>1, <1>4, DownAdded, SignItems DEF FakeWritten, BInv, PacketTypeOK
<1>6. /\ BusyLines' /\ Lively' /\ Due' /\ Lockstep' /\ Delivered'
      /\ gdb = "send" /\ ~Delivered /\ Inbox[1] = out
      /\ Len(down) \in Nat /\ down'[Len(down) + 1] = Plus
      /\ \A i \in 1 .. Len(down) :
            down'[i] = down[i] /\ ~IsSign(down[i]) /\ Fresh(i)' = Fresh(i)
  BY <1>1, <1>2, <1>4, <1>5, BusyReceived
<1> USE <1>2 DEF gdbvars, setting
<1>7. out.is \in {"m", "F"}
  BY <1>3, <1>6 DEF InRun
<1>8. Len(down') = Len(down) + 1
  BY <1>5 DEF Grows
<1>9. PacketTypeOK'
  BY <1>1, <1>5 DEF BInv, PacketTypeOK
<1>10. Turn' /\ Unseen' /\ Answering'
  BY <1>6, <1>7 DEF BInv, Turn, Unseen, Answering
<1>11. Running'
  BY <1>3, <1>6, <1>7, <1>8, SignItems DEF Running
<1> QED
  BY <1>6, <1>9, <1>10, <1>11 DEF BInv

(* What the server sends on its own: no packet is on its way to gdb then.  *)
LEMMA BusyPuts ==
    ASSUME BInv, at \notin {"get", "put"},
           NEW x, x.is \in Replies, Grows(down, down', x), at' = "put", then' # "stop",
           UNCHANGED <<gdbvars, up, cache, faults, setting>>
    PROVE  /\ BusyLines' /\ Lively' /\ Due' /\ Lockstep'
           /\ Delivered /\ Delivered' /\ gdb # "idle"
           /\ Len(down) \in Nat /\ Len(down') = Len(down) + 1 /\ down'[Len(down')] = x
           /\ \A i \in 1 .. Len(down') : i \in 1 .. Len(down) \/ i = Len(down')
           /\ \A i \in 1 .. Len(down) : down'[i] = down[i] /\ Fresh(i)' = Fresh(i)
<1> USE DEF gdbvars, setting
<1>1. /\ Len(Inbox) \in Nat
      /\ Delivered /\ gdb # "idle"
      /\ \A i \in 1 .. Len(down) : ~Current(i)
      /\ gdb # "send" => \A i \in 1 .. Len(down) : Current(i)
      /\ \A i \in 1 .. Len(Inbox) : ~Live(i)
  BY BusyFacts
<1>2. /\ Len(down) \in Nat /\ Len(down') = Len(down) + 1 /\ down'[Len(down')] = x
      /\ \A i \in 1 .. Len(down') : i \in 1 .. Len(down) \/ i = Len(down')
  BY DEF Grows
<1>3. /\ Delivered' = Delivered
      /\ \A i \in 1 .. Len(down') : down'[i].is \in {"+"} \cup Replies
      /\ \A i \in 1 .. Len(down') : down'[i].is = "+" =>
            gdb = "send" /\ \A j \in 1 .. i - 1 : down'[j].is # "+"
      /\ \A i \in 1 .. Len(down) :
            /\ down'[i] = down[i] /\ i \in 1 .. Len(down')
            /\ Fresh(i)' = Fresh(i) /\ Current(i)' = Current(i)
  BY Offered, BusyOffers
<1>4. UNCHANGED Inbox
  BY DEF Inbox
<1>5. BusyLines'
  BY <1>3, <1>4 DEF BInv, BusyLines
<1>6. ASSUME NEW i \in 1 .. Len(Inbox') PROVE ~Live(i)'
  BY <1>1, <1>4 DEF Live
<1>7. Lively'
  BY <1>1, <1>3, <1>6 DEF Lively
<1>8. Due'
  <2>1. PICK n \in 1 .. Len(down') : n = Len(down')
    BY <1>2
  <2>2. gdb # "send" \/ \E j \in 1 .. n - 1 : down'[j].is = "+"
    BY <1>1, <1>2, <1>3, <2>1 DEF Delivered
  <2>3. Current(n)'
    BY <1>2, <2>1, <2>2 DEF Current
  <2> QED
    BY <1>1, <2>3 DEF Due
<1>9. Lockstep'
  <2> SUFFICES ASSUME faults = 0 PROVE Lockstep'
    BY DEF Lockstep
  <2>1. /\ tries = 0
        /\ \A i \in 1 .. Len(Inbox) : Inbox[i].is \notin Requests
        /\ gdb = "send" => /\ Len(Inbox) = 0 /\ Len(down) \in 1 .. 2 /\ down[1].is = "+"
    BY <1>1 DEF BInv, Lockstep
  <2>2. gdb # "send" => Len(down) = 0
    BY <1>1, <1>2
  <2>3. gdb = "send" => Len(down) = 1
    <3> SUFFICES ASSUME gdb = "send", Len(down) = 2 PROVE FALSE
      BY <2>1
    <3>1. down[2].is # "+" /\ down[2].is \in {"+"} \cup Replies
      BY <2>1 DEF BInv, BusyLines
    <3> QED
      BY <1>1, <2>1, <3>1 DEF Current
  <2>4. gdb = "send" => Len(Inbox') = 0 /\ Len(down') \in 1 .. 2 /\ down'[1].is = "+"
    <3> SUFFICES ASSUME gdb = "send"
                 PROVE  Len(Inbox') = 0 /\ Len(down') \in 1 .. 2 /\ down'[1].is = "+"
      OBVIOUS
    <3>1. Len(Inbox) = 0 /\ Len(down) = 1
      BY <2>1, <2>3
    <3>2. Len(Inbox') = 0
      BY <1>4, <3>1
    <3>3. Len(down') = Len(down) + 1
      BY <1>2
    <3>4. down'[1] = down[1]
      BY <1>3, <3>1
    <3> QED
      BY <2>1, <3>1, <3>2, <3>3, <3>4
  <2>5. gdb # "send" => Len(down') <= 1
    BY <1>2, <2>2
  <2> QED
    BY <1>1, <1>3, <1>4, <2>1, <2>4, <2>5 DEF Lockstep
<1> QED
  BY <1>1, <1>2, <1>3, <1>5, <1>7, <1>8, <1>9

LEMMA BusyWork ==
    ASSUME BInv, Work
    PROVE  BInv'
<1>1. /\ at = "work" /\ handled' = handled + 1 /\ job' \in {job, TRUE}
      /\ down' = down \o <<reply>> /\ at' = "put" /\ reply' = reply /\ then' = "prompt"
      /\ UNCHANGED <<gdbvars, up, cache, messages, faults, setting>>
  BY DEF Work, Put
<1>2. reply \in Items /\ reply.is \in Replies /\ down \in Seq(Items)
  BY DEF BInv, PacketTypeOK
<1>3. down' \in Seq(Items) /\ Grows(down, down', reply)
  BY <1>1, <1>2, DownAdded
<1>4. /\ BusyLines' /\ Lively' /\ Due' /\ Lockstep'
      /\ Delivered /\ Delivered' /\ gdb # "idle"
      /\ \A i \in 1 .. Len(down') : i \in 1 .. Len(down) \/ i = Len(down')
      /\ down'[Len(down')] = reply
      /\ \A i \in 1 .. Len(down) : down'[i] = down[i] /\ Fresh(i)' = Fresh(i)
  BY <1>1, <1>2, <1>3, BusyPuts
<1>5. out.is = "ask"
  BY <1>1, <1>4 DEF BInv, Running, InRun, PacketTypeOK, Requests
<1>6. /\ reply = Item("reply", asked) /\ handled + 1 = asked
      /\ \A i \in 1 .. Len(down) : ~Fresh(i)
  BY <1>1, <1>4, <1>5 DEF BInv, Answering
<1> USE <1>1 DEF gdbvars, setting
<1>7. PacketTypeOK'
  <2>1. job' \in BOOLEAN
    BY DEF BInv, PacketTypeOK
  <2> QED
    BY <1>3, <2>1 DEF BInv, PacketTypeOK
<1>8. Turn' /\ Unseen' /\ Running'
  BY <1>4, <1>5 DEF BInv, Turn, Unseen, Running, InRun
<1>9. Answering'
  BY <1>4, <1>6 DEF Answering
<1> QED
  BY <1>4, <1>7, <1>8, <1>9 DEF BInv

(* The run ends or has a message for gdb. *)
LEMMA BusyRun ==
    ASSUME BInv, ProgramStops \/ InterruptRun \/ FakeEnd \/ FakeWrite
    PROVE  BInv'
<1> DEFINE x == IF FakeWrite THEN Item("Fwrite", 0) ELSE Stop
<1>1. /\ at \in {"run", "fake"} /\ at' = "put" /\ reply' = x /\ down' = down \o <<x>>
      /\ then' = IF FakeWrite THEN "write" ELSE "prompt"
      /\ UNCHANGED <<gdbvars, up, cache, handled, job, faults, setting>>
  BY DEF ProgramStops, InterruptRun, FakeEnd, FakeWrite, Put
<1>2. messages' \in 0 .. Messages
  BY Constants DEF ProgramStops, InterruptRun, FakeEnd, FakeWrite, BInv, PacketTypeOK
<1>3. /\ InRun /\ out.is \in {"c", "m", "F"} /\ handled = asked
      /\ \A i \in 1 .. Len(down) : Fresh(i) => down[i].is # "stop"
  BY <1>1, RunPhase
<1>4. /\ x \in Items /\ x.is \in Replies
      /\ x.is = "stop" => x.of = asked /\ then' = "prompt"
  <2>1. CASE FakeWrite
    <3>1. Item("Fwrite", 0) \in Items /\ Item("Fwrite", 0).is = "Fwrite"
      BY Constants, ItemType DEF Kinds, Frames, Replies
    <3> QED
      BY <2>1, <3>1 DEF Replies
  <2>2. CASE ~FakeWrite
    BY <1>1, <1>3, <2>2, HandledType DEF Replies
  <2> QED
    BY <2>1, <2>2
<1> HIDE DEF x
<1>5. down' \in Seq(Items) /\ Grows(down, down', x)
  BY <1>1, <1>4, DownAdded DEF BInv, PacketTypeOK
<1>6. /\ at \notin {"get", "put"} /\ then' # "stop"
      /\ then' \in {"prompt", "write"}
  BY <1>1
<1>7. /\ BusyLines' /\ Lively' /\ Due' /\ Lockstep'
      /\ Delivered /\ Delivered' /\ gdb # "idle"
      /\ \A i \in 1 .. Len(down') : i \in 1 .. Len(down) \/ i = Len(down')
      /\ down'[Len(down')] = x
      /\ \A i \in 1 .. Len(down) : down'[i] = down[i] /\ Fresh(i)' = Fresh(i)
  BY <1>1, <1>4, <1>5, <1>6, BusyPuts
<1> USE DEF gdbvars, setting
<1>8. PacketTypeOK'
  BY <1>1, <1>2, <1>4, <1>5, <1>6 DEF BInv, PacketTypeOK
<1>9. Turn' /\ Unseen' /\ Answering'
  BY <1>1, <1>3, <1>7 DEF BInv, Turn, Unseen, Answering
<1>10. Running'
  BY <1>1, <1>3, <1>4, <1>7 DEF Running
<1> QED
  BY <1>7, <1>8, <1>9, <1>10 DEF BInv

LEMMA BusyJob ==
    ASSUME BInv, JobSpeaks \/ JobEnds \/ UNCHANGED vars
    PROVE  BInv'
<1>1. UNCHANGED <<gdbvars, linevars, at, reply, then, handled, faults, setting>>
  BY DEF JobSpeaks, JobEnds, vars, gdbvars, linevars, servervars, setting
<1>2. messages' \in 0 .. Messages /\ job' \in BOOLEAN
  <2>1. messages \in 0 .. Messages /\ job \in BOOLEAN
    BY DEF BInv, PacketTypeOK
  <2>2. CASE UNCHANGED vars
    BY <2>1, <2>2 DEF vars, gdbvars, linevars, servervars, setting
  <2>3. CASE JobSpeaks \/ JobEnds
    <3>1. \/ messages < Messages /\ messages' = messages + 1 /\ job' = job
          \/ messages' = messages /\ job' = FALSE
      BY <2>3 DEF JobSpeaks, JobEnds
    <3>2. messages' \in 0 .. Messages
      BY <2>1, <3>1, Constants
    <3>3. job' \in BOOLEAN
      BY <2>1, <3>1
    <3> QED
      BY <3>2, <3>3
  <2> QED
    BY <2>2, <2>3
<1> USE <1>1 DEF gdbvars, linevars, setting
<1>3. PacketTypeOK'
  BY <1>2 DEF BInv, PacketTypeOK
<1>4. UNCHANGED Inbox /\ Delivered' = Delivered
  BY DEF Inbox, Delivered
<1>5. \A i : Fresh(i)' = Fresh(i) /\ Current(i)' = Current(i) /\ Live(i)' = Live(i)
  BY <1>4 DEF Fresh, Current, Live
<1>6. BusyLines' /\ Lively' /\ Due' /\ Lockstep'
  BY <1>4, <1>5 DEF BInv, BusyLines, Lively, Due, Lockstep
<1>7. Turn' /\ Unseen' /\ Answering' /\ Running'
  BY <1>4, <1>5 DEF BInv, Turn, Unseen, Answering, Running, InRun
<1> QED
  BY <1>3, <1>6, <1>7 DEF BInv

(* gdb puts a + on its line to the server. *)
LEMMA BusyGains ==
    ASSUME BInv, Grows(Inbox, Inbox', Plus)
    PROVE  /\ Len(Inbox) \in Nat /\ Len(Inbox') = Len(Inbox) + 1
           /\ \A i \in 1 .. Len(Inbox) : Inbox'[i] = Inbox[i] /\ i \in 1 .. Len(Inbox')
           /\ \A i \in 1 .. Len(Inbox') :
                 i \in 1 .. Len(Inbox) \/ (i = Len(Inbox) + 1 /\ Inbox'[i].is = "+")
           /\ \A i \in 1 .. Len(Inbox') : Inbox'[i].is \in {"+"} \cup Requests
           /\ \E i \in 1 .. Len(Inbox') : Inbox'[i].is = "+"
<1>1. /\ Len(Inbox) \in Nat /\ Len(Inbox') = Len(Inbox) + 1
      /\ Inbox'[Len(Inbox) + 1].is = "+"
      /\ \A i \in 1 .. Len(Inbox) : Inbox'[i] = Inbox[i] /\ i \in 1 .. Len(Inbox')
  BY SignItems DEF Grows
<1>2. \A i \in 1 .. Len(Inbox') : i \in 1 .. Len(Inbox) \/ i = Len(Inbox) + 1
  BY <1>1
<1>3. Len(Inbox) + 1 \in 1 .. Len(Inbox')
  BY <1>1
<1> QED
  BY <1>1, <1>2, <1>3 DEF BInv, BusyLines

(* gdb takes something from its line. *)
LEMMA BusyHears ==
    ASSUME BInv, Shrinks(down, down')
    PROVE  /\ Len(down) \in Nat \ {0} /\ Len(down') = Len(down) - 1 /\ 1 \in 1 .. Len(down)
           /\ \A i \in 1 .. Len(down') : down'[i] = down[i + 1] /\ i + 1 \in 1 .. Len(down)
           /\ \A i \in 1 .. Len(down) :
                 i = 1 \/ (i - 1 \in 1 .. Len(down') /\ down'[i - 1] = down[i])
           /\ \A i \in 1 .. Len(down') : down'[i].is \in {"+"} \cup Replies
           /\ down[1].is \in {"+"} \cup Replies
           /\ \A i \in 1 .. Len(down') : down'[i].is = "+" =>
                 /\ gdb = "send" /\ down[1].is # "+"
                 /\ \A j \in 1 .. i - 1 : down'[j].is # "+"
<1>1. /\ Len(down) \in Nat \ {0} /\ Len(down') = Len(down) - 1 /\ 1 \in 1 .. Len(down)
      /\ \A i \in 1 .. Len(down') : down'[i] = down[i + 1] /\ i + 1 \in 1 .. Len(down)
      /\ \A i \in 1 .. Len(down) : i = 1 \/ (i - 1 \in 1 .. Len(down') /\ down'[i - 1] = down[i])
  BY DEF Shrinks
<1>2. ASSUME NEW i \in 1 .. Len(down'), down'[i].is = "+"
      PROVE  /\ gdb = "send" /\ down[1].is # "+"
             /\ \A j \in 1 .. i - 1 : down'[j].is # "+"
  <2>1. gdb = "send" /\ \A j \in 1 .. (i + 1) - 1 : down[j].is # "+"
    BY <1>1, <1>2 DEF BInv, BusyLines
  <2>2. \A j \in 1 .. i - 1 : j \in 1 .. Len(down') /\ j + 1 \in 1 .. (i + 1) - 1
    BY <1>1
  <2>3. 1 \in 1 .. (i + 1) - 1
    OBVIOUS
  <2> QED
    BY <1>1, <2>1, <2>2, <2>3
<1> QED
  BY <1>1, <1>2 DEF BInv, BusyLines

(* gdb sends its next request. *)
LEMMA BusySent ==
    ASSUME BInv, gdb = "idle", asked < Turns, NEW k \in {"ask", "c"},
           asked' = asked + 1, Send(Item(k, asked + 1)), up' = Append(up, out'),
           UNCHANGED <<took, ctrlc, down, cache, servervars, faults, setting>>
    PROVE  BInv'
<1>1. /\ out' \in Items /\ out'.is = k /\ out'.of = asked' /\ asked' \in 0 .. Turns
      /\ gdb' = "send" /\ tries' = 0
  <2>1. k \in Kinds /\ asked + 1 \in 0 .. Turns
    BY Constants DEF BInv, PacketTypeOK, Kinds, Frames, Requests
  <2> QED
    BY <2>1, ItemType DEF Send
<1>2. up' \in Seq(Items) /\ Grows(Inbox, Inbox', out')
  BY <1>1, InboxAdded DEF BInv, PacketTypeOK
<1>3. /\ Delivered
      /\ \A i \in 1 .. Len(down) : down[i].is \in Replies
      /\ \A i \in 1 .. Len(Inbox) : ~Live(i)
      /\ Len(down) \in Nat
  BY BusyFacts
<1>4. /\ Len(Inbox) \in Nat /\ Len(Inbox') = Len(Inbox) + 1 /\ Inbox'[Len(Inbox')] = out'
      /\ Len(Inbox') \in 1 .. Len(Inbox')
      /\ \A i \in 1 .. Len(Inbox) : Inbox'[i] = Inbox[i] /\ i \in 1 .. Len(Inbox')
      /\ \A i \in 1 .. Len(Inbox') : i \in 1 .. Len(Inbox) \/ i = Len(Inbox')
  BY <1>2 DEF Grows
<1> USE DEF servervars, setting
<1>5. ~Delivered' /\ \A i \in 1 .. Len(down') : ~Current(i)'
  <2>1. \A i \in 1 .. Len(down') : down'[i].is # "+"
    BY <1>3 DEF Replies
  <2>2. \A i \in 1 .. Len(down') : \A j \in 1 .. i - 1 : j \in 1 .. Len(down')
    BY <1>3
  <2> QED
    BY <1>1, <2>1, <2>2 DEF Delivered, Current
<1>6. at \in {"get", "put"} /\ then = "prompt" /\ handled = asked /\ took = asked
  BY DEF BInv, Turn
<1>7. at = "put" => \E i \in 1 .. Len(Inbox) : Inbox[i].is = "+"
  BY DEF BInv, Due
<1>8. PacketTypeOK'
  BY <1>1, <1>2 DEF BInv, PacketTypeOK, Requests
<1>9. BusyLines'
  <2>1. \A i \in 1 .. Len(down') : down'[i].is \in Replies /\ down'[i].is # "+"
    BY <1>3 DEF Replies
  <2>2. \A i \in 1 .. Len(Inbox') : Inbox'[i].is \in {"+"} \cup Requests
    BY <1>1, <1>4 DEF BInv, BusyLines, Requests
  <2> QED
    BY <2>1, <2>2 DEF BusyLines
<1>10. ASSUME NEW i \in 1 .. Len(Inbox'), Live(i)' PROVE i = Len(Inbox')
  BY <1>3, <1>4, <1>10 DEF Live
<1>11. Lively'
  <2>1. PICK n \in 1 .. Len(Inbox') : n = Len(Inbox')
    BY <1>4
  <2>2. at = "put" => \E j \in 1 .. n - 1 : Inbox'[j].is = "+"
    BY <1>4, <1>7, <2>1
  <2>3. at = "put" => n # 1
    BY <2>2
  <2>4. Live(n)'
    BY <1>1, <1>4, <1>6, <2>1, <2>3 DEF Live, Requests
  <2>5. ASSUME NEW i \in 1 .. Len(Inbox'), Live(i)'
        PROVE  /\ Inbox'[i] = out'
               /\ at' = "put" => \E j \in 1 .. i - 1 : Inbox'[j].is = "+"
               /\ \A j \in i + 1 .. Len(Inbox') : FALSE
    BY <1>4, <1>10, <2>1, <2>2, <2>5
  <2> QED
    BY <1>1, <1>5, <1>6, <2>4, <2>5 DEF Lively
<1>12. Due'
  BY <1>4, <1>5, <1>6, <1>7 DEF Due
<1>13. Lockstep'
  <2> SUFFICES ASSUME faults = 0 PROVE Lockstep'
    BY DEF Lockstep
  <2>1. Len(down) = 0 /\ \A i \in 1 .. Len(Inbox) : Inbox[i].is \notin Requests
    BY <1>3 DEF BInv, Lockstep
  <2>2. \A i \in 1 .. Len(Inbox') : Inbox'[i].is \in Requests => i = Len(Inbox')
    BY <1>4, <2>1
  <2>3. \E i \in 1 .. Len(Inbox') : Live(i)'
    BY <1>1, <1>5, <1>11 DEF Lively
  <2>4. \A i \in 1 .. Len(Inbox') : Inbox'[i].is \in Requests => Live(i)'
    BY <1>10, <2>2, <2>3
  <2> QED
    BY <1>1, <1>5, <2>1, <2>2, <2>4 DEF Lockstep
<1>14. Turn' /\ Unseen' /\ Answering' /\ Running'
  BY <1>1, <1>5, <1>6, Constants DEF BInv, PacketTypeOK, Turn, Unseen, Answering, Running, InRun
<1> QED
  BY <1>8, <1>9, <1>11, <1>12, <1>13, <1>14 DEF BInv

LEMMA BusyAsks ==
    ASSUME BInv, AskSomething \/ Resume
    PROVE  BInv'
BY BusySent DEF AskSomething, Resume

LEMMA BusyAcked ==
    ASSUME BInv, SendAcked
    PROVE  BInv'
<1>1. /\ gdb = "send" /\ gdb' = (IF out.is \in {"ask", "m"} THEN "answer" ELSE "wait")
      /\ tries' = 0
      /\ UNCHANGED <<asked, took, out, ctrlc, up, cache, servervars, faults, setting>>
  BY DEF SendAcked, Sent
<1>2. down' \in Seq(Items) /\ Shrinks(down, down') /\ down[1].is = "+"
  BY DownTaken DEF SendAcked, BInv, PacketTypeOK
<1>3. /\ Len(down) \in Nat \ {0} /\ Len(down') = Len(down) - 1 /\ 1 \in 1 .. Len(down)
      /\ \A i \in 1 .. Len(down') : down'[i] = down[i + 1] /\ i + 1 \in 1 .. Len(down)
      /\ \A i \in 1 .. Len(down) : i = 1 \/ (i - 1 \in 1 .. Len(down') /\ down'[i - 1] = down[i])
      /\ \A i \in 1 .. Len(down') : down'[i].is \in {"+"} \cup Replies /\ down'[i].is # "+"
  BY <1>2, BusyHears
<1> USE <1>1 DEF servervars, setting
<1>4. /\ Delivered /\ Delivered' /\ out.is \in Requests /\ gdb' \in {"answer", "wait"}
      /\ UNCHANGED Inbox
  BY <1>2, <1>3 DEF Delivered, BInv, PacketTypeOK, Inbox
<1>5. \A i \in 1 .. Len(Inbox) : ~Live(i)
  BY <1>4, BusyFacts
<1>6. ASSUME NEW i \in 1 .. Len(down')
      PROVE  /\ Current(i + 1)
             /\ Fresh(i)' => Fresh(i + 1)
  <2>1. 1 \in 1 .. (i + 1) - 1
    OBVIOUS
  <2>2. down[i + 1].is \in Replies /\ ~IsSign(down[i + 1])
    BY <1>3 DEF IsSign, Signs, Replies
  <2> QED
    BY <1>2, <2>1, <2>2 DEF Current, Fresh
<1>7. PacketTypeOK'
  BY <1>2 DEF BInv, PacketTypeOK
<1>8. BusyLines'
  BY <1>3, <1>4 DEF BInv, BusyLines
<1>9. Lively'
  BY <1>4, <1>5 DEF Lively, Live
<1>10. Due'
  <2>1. (\E i \in 1 .. Len(down') : Current(i)') => \E i \in 1 .. Len(down) : Current(i)
    BY <1>3, <1>6
  <2>2. ASSUME NEW i \in 1 .. Len(down), Current(i) PROVE \E j \in 1 .. Len(down') : Current(j)'
    <3>1. PICK j \in 1 .. Len(down') : down'[j] = down[i]
      BY <1>2, <1>3, <2>2 DEF Current, Replies
    <3> QED
      BY <1>4, <2>2, <3>1 DEF Current
  <2> QED
    BY <1>4, <2>1, <2>2 DEF BInv, Due
<1>11. Lockstep'
  <2> SUFFICES ASSUME faults = 0 PROVE Lockstep'
    BY DEF Lockstep
  <2>1. Len(Inbox) = 0 /\ Len(down) \in 1 .. 2
    BY <1>4 DEF BInv, Lockstep
  <2>2. Len(Inbox') = 0
    BY <1>4, <2>1
  <2>3. Len(down') <= 1
    BY <1>3, <2>1
  <2> QED
    BY <1>4, <2>2, <2>3 DEF Lockstep
<1>12. Turn' /\ Unseen'
  BY <1>4 DEF BInv, Turn, Unseen, Requests
<1>13. Answering'
  <2> SUFFICES ASSUME out.is = "ask" PROVE Answering'
    BY DEF Answering
  <2>1. /\ then = "prompt" /\ at \in {"work", "put", "get"}
        /\ at = "work" => /\ handled + 1 = asked /\ reply = Item("reply", asked)
                          /\ \A i \in 1 .. Len(down) : ~Fresh(i)
        /\ at # "work" => /\ handled = asked
                          /\ at = "put" => reply = Item("reply", asked)
                          /\ \A i \in 1 .. Len(down) :
                                Fresh(i) => down[i].is = "bad" \/ down[i] = Item("reply", asked)
    BY <1>4 DEF BInv, Answering
  <2>2. at = "work" => \A i \in 1 .. Len(down') : ~Fresh(i)'
    BY <1>3, <1>6, <2>1
  <2>3. at # "work" => \A i \in 1 .. Len(down') :
            Fresh(i)' => down'[i].is = "bad" \/ down'[i] = Item("reply", asked)
    BY <1>3, <1>6, <2>1
  <2> QED
    BY <2>1, <2>2, <2>3 DEF Answering
<1>14. Running'
  BY <1>3, <1>4, <1>6 DEF BInv, Running, InRun
<1> QED
  BY <1>7, <1>8, <1>9, <1>10, <1>11, <1>12, <1>13, <1>14 DEF BInv

(* gdb hears a packet and stays where it is, or takes the packet; it says  *)
(* + to it.                                                                *)
LEMMA BusyHeard ==
    ASSUME BInv, Shrinks(down, down'), down[1].is # "+", down' \in Seq(Items),
           up' = Append(up, Plus), gdb = "send" => gdb' = gdb /\ tries' = tries,
           gdb # "send" => gdb' \in {gdb, "idle"} /\ tries' = 0,
           UNCHANGED <<asked, out, cache, servervars, faults, setting>>
    PROVE  /\ BusyLines' /\ Lively' /\ Due' /\ Lockstep'
           /\ Unseen' /\ Answering' /\ Running' /\ up' \in Seq(Items)
<1> USE DEF servervars, setting
<1>1. /\ Len(down) \in Nat \ {0} /\ Len(down') = Len(down) - 1 /\ 1 \in 1 .. Len(down)
      /\ \A i \in 1 .. Len(down') : down'[i] = down[i + 1] /\ i + 1 \in 1 .. Len(down)
      /\ \A i \in 1 .. Len(down) : i = 1 \/ (i - 1 \in 1 .. Len(down') /\ down'[i - 1] = down[i])
      /\ \A i \in 1 .. Len(down') : down'[i].is \in {"+"} \cup Replies
      /\ \A i \in 1 .. Len(down') : down'[i].is = "+" =>
            gdb = "send" /\ \A j \in 1 .. i - 1 : down'[j].is # "+"
  BY BusyHears
<1>2. up' \in Seq(Items) /\ Grows(Inbox, Inbox', Plus)
  BY InboxAdded, SignItems DEF BInv, PacketTypeOK
<1>3. /\ Len(Inbox) \in Nat /\ Len(Inbox') = Len(Inbox) + 1
      /\ \A i \in 1 .. Len(Inbox) : Inbox'[i] = Inbox[i] /\ i \in 1 .. Len(Inbox')
      /\ \A i \in 1 .. Len(Inbox') :
            i \in 1 .. Len(Inbox) \/ (i = Len(Inbox) + 1 /\ Inbox'[i].is = "+")
      /\ \A i \in 1 .. Len(Inbox') : Inbox'[i].is \in {"+"} \cup Requests
      /\ \E i \in 1 .. Len(Inbox') : Inbox'[i].is = "+"
  BY <1>2, BusyGains
<1>4. Delivered' = Delivered /\ (gdb' = "send" <=> gdb = "send")
  BY <1>1 DEF Delivered
<1>5. ASSUME NEW i \in 1 .. Len(down')
      PROVE  /\ Current(i)' => Current(i + 1)
             /\ Fresh(i)' => Fresh(i + 1)
  <2>1. \A j \in 1 .. i - 1 : j \in 1 .. Len(down') /\ j + 1 \in 1 .. (i + 1) - 1
    BY <1>1
  <2>2. (\E j \in 1 .. i - 1 : down'[j].is = "+") => \E j \in 1 .. (i + 1) - 1 : down[j].is = "+"
    BY <1>1, <2>1
  <2> QED
    BY <1>1, <1>4, <2>2 DEF Current, Fresh, IsSign
<1>6. BusyLines'
  BY <1>1, <1>3, <1>4 DEF BusyLines
<1>7. ASSUME NEW i \in 1 .. Len(Inbox'), Live(i)'
      PROVE  i \in 1 .. Len(Inbox) /\ Live(i)
  BY <1>3, <1>7 DEF Live, Requests
<1>8. Lively'
  <2>1. ASSUME gdb = "send", ~Delivered PROVE \E i \in 1 .. Len(Inbox') : Live(i)'
    <3>1. PICK i \in 1 .. Len(Inbox) : Live(i)
      BY <2>1 DEF BInv, Lively
    <3> QED
      BY <1>3, <3>1 DEF Live
  <2>2. ASSUME NEW i \in 1 .. Len(Inbox'), Live(i)'
        PROVE  /\ gdb = "send" /\ ~Delivered /\ Inbox'[i] = out /\ at \in {"get", "put"}
               /\ at = "put" => \E j \in 1 .. i - 1 : Inbox'[j].is = "+"
               /\ \A j \in i + 1 .. Len(Inbox') : Inbox'[j].is \notin Requests
    <3>1. i \in 1 .. Len(Inbox) /\ Live(i)
      BY <1>7, <2>2
    <3>2. /\ gdb = "send" /\ ~Delivered /\ Inbox[i] = out /\ at \in {"get", "put"}
          /\ at = "put" => \E j \in 1 .. i - 1 : Inbox[j].is = "+"
          /\ \A j \in i + 1 .. Len(Inbox) : Inbox[j].is \notin Requests
      BY <1>1, <3>1 DEF BInv, Lively
    <3>3. \A j \in 1 .. i - 1 : j \in 1 .. Len(Inbox)
      BY <1>3, <3>1
    <3>4. \A j \in i + 1 .. Len(Inbox') :
              \/ j \in i + 1 .. Len(Inbox) /\ Inbox'[j] = Inbox[j]
              \/ Inbox'[j].is = "+"
      BY <1>3, <3>1
    <3> QED
      BY <1>3, <3>1, <3>2, <3>3, <3>4 DEF Requests
  <2> QED
    BY <1>4, <2>1, <2>2 DEF Lively
<1>9. Due'
  BY <1>1, <1>3, <1>5 DEF BInv, Due
<1>10. Lockstep'
  <2> SUFFICES ASSUME faults = 0 PROVE Lockstep'
    BY DEF Lockstep
  <2>1. /\ gdb \in {"answer", "wait"} /\ Len(down) <= 1 /\ Delivered
        /\ \A i \in 1 .. Len(Inbox) : Inbox[i].is \in Requests => Live(i)
    BY <1>1 DEF BInv, PacketTypeOK, Lockstep, Delivered
  <2>2. \A i \in 1 .. Len(Inbox) : Inbox[i].is \notin Requests
    BY <2>1, BusyFacts
  <2>3. \A i \in 1 .. Len(Inbox') : Inbox'[i].is \notin Requests
    BY <1>3, <2>2 DEF Requests
  <2>4. Len(down') = 0 /\ tries' = 0 /\ gdb' # "send"
    BY <1>1, <1>4, <2>1
  <2> QED
    BY <2>3, <2>4 DEF Lockstep
<1>11. Unseen'
  BY <1>4 DEF BInv, Unseen
<1>12. Answering'
  <2> SUFFICES ASSUME out.is = "ask", Delivered PROVE Answering'
    BY <1>4 DEF Answering
  <2>1. /\ then = "prompt" /\ at \in {"work", "put", "get"}
        /\ at = "work" => /\ handled + 1 = asked /\ reply = Item("reply", asked)
                          /\ \A i \in 1 .. Len(down) : ~Fresh(i)
        /\ at # "work" => /\ handled = asked
                          /\ at = "put" => reply = Item("reply", asked)
                          /\ \A i \in 1 .. Len(down) :
                                Fresh(i) => down[i].is = "bad" \/ down[i] = Item("reply", asked)
    BY DEF BInv, Answering
  <2>2. at = "work" => \A i \in 1 .. Len(down') : ~Fresh(i)'
    BY <1>1, <1>5, <2>1
  <2>3. at # "work" => \A i \in 1 .. Len(down') :
            Fresh(i)' => down'[i].is = "bad" \/ down'[i] = Item("reply", asked)
    BY <1>1, <1>5, <2>1
  <2> QED
    BY <2>1, <2>2, <2>3 DEF Answering
<1>13. Running'
  BY <1>1, <1>4, <1>5 DEF BInv, Running, InRun
<1> QED
  BY <1>2, <1>6, <1>8, <1>9, <1>10, <1>11, <1>12, <1>13

LEMMA BusySkipFrame ==
    ASSUME BInv, SkipFrame
    PROVE  BInv'
<1>1. down' \in Seq(Items) /\ Shrinks(down, down') /\ down[1].is # "+"
  <2>1. down' \in Seq(Items) /\ Shrinks(down, down') /\ down[1].is \in Frames \cup {"bad"}
    BY DownTaken, BusyFacts DEF SkipFrame
  <2> QED
    BY <2>1 DEF Frames, Requests, Replies
<1>2. /\ gdb = "send" /\ up' = Append(up, Plus)
      /\ UNCHANGED <<gdbvars, cache, servervars, faults, setting>>
  BY DEF SkipFrame
<1>3. /\ BusyLines' /\ Lively' /\ Due' /\ Lockstep'
      /\ Unseen' /\ Answering' /\ Running' /\ up' \in Seq(Items)
  BY <1>1, <1>2, BusyHeard DEF gdbvars
<1> USE <1>2 DEF gdbvars, servervars, setting
<1>4. PacketTypeOK' /\ Turn'
  BY <1>1, <1>3 DEF BInv, PacketTypeOK, Turn
<1> QED
  BY <1>3, <1>4 DEF BInv

(* gdb waits for a packet, and there is one. *)
LEMMA BusyTaken ==
    ASSUME BInv, gdb # "send", NEW n \in DOMAIN down, NEW kinds, GetPkt(n, kinds)
    PROVE  /\ n = 1 /\ down' \in Seq(Items) /\ Shrinks(down, down')
           /\ down[1].is \in kinds /\ down[1].is \in Replies /\ down[1].is # "+"
           /\ Fresh(1) /\ at \in {"get", "put"} /\ Delivered
<1>1. /\ down \in Seq(Items) /\ Delivered
      /\ \A i \in 1 .. Len(down) : down[i].is \in Replies /\ Current(i)
  BY BusyFacts
<1>2. \A i \in 1 .. Len(down) : ~IsSign(down[i])
  BY <1>1 DEF IsSign, Signs, Replies
<1>3. n = 1 /\ down' \in Seq(Items) /\ Shrinks(down, down') /\ down[1].is \in kinds
  BY <1>1, <1>2, PacketTaken
<1>4. 1 \in 1 .. Len(down)
  BY <1>3 DEF Shrinks
<1>5. down[1].is \in Replies /\ down[1].is # "+" /\ at \in {"get", "put"}
  BY <1>1, <1>4 DEF BInv, Due, Replies
<1> QED
  BY <1>1, <1>2, <1>3, <1>4, <1>5 DEF Fresh

(* The answer, the stop, and what is neither. *)
LEMMA BusyTold ==
    ASSUME BInv, Stopped \/ Invalid \/ (TakeAnswer /\ out.is = "ask")
    PROVE  BInv'
<1>1. CASE Stopped
  <2>1. PICK n \in DOMAIN down : GetPkt(n, {"stop"}) /\ took' = down[n].of
    BY <1>1 DEF Stopped
  <2>2. /\ gdb = "wait" /\ gdb' = "idle" /\ tries' = 0 /\ ctrlc' = FALSE
        /\ up' = Append(up, Plus)
        /\ UNCHANGED <<asked, out, cache, servervars, faults, setting>>
    BY <1>1 DEF Stopped
  <2>3. /\ down' \in Seq(Items) /\ Shrinks(down, down') /\ down[1].is = "stop"
        /\ down[1].is # "+" /\ took' = down[1].of
        /\ Fresh(1) /\ Delivered
    BY <2>1, <2>2, BusyTaken
  <2>4. /\ BusyLines' /\ Lively' /\ Due' /\ Lockstep'
        /\ Unseen' /\ Answering' /\ Running' /\ up' \in Seq(Items)
    BY <2>2, <2>3, BusyHeard
  <2>5. /\ handled = asked /\ took' = asked /\ then = "prompt" /\ at \in {"get", "put"}
    <3>1. InRun /\ 1 \in 1 .. Len(down)
      BY <2>2, <2>3 DEF BInv, Turn, InRun, Shrinks
    <3> QED
      BY <2>3, <3>1 DEF BInv, Running
  <2> USE <2>2 DEF servervars, setting
  <2>6. ctrlc' \in BOOLEAN
    OBVIOUS
  <2>7. tries' \in 0 .. 3 /\ took' \in 0 .. Turns
    BY <2>5 DEF BInv, PacketTypeOK
  <2>8. PacketTypeOK'
    BY <2>3, <2>4, <2>6, <2>7 DEF BInv, PacketTypeOK
  <2>9. Turn'
    BY <2>5 DEF BInv, Turn
  <2> QED
    BY <2>4, <2>8, <2>9 DEF BInv
<1>2. CASE Invalid
  <2>1. PICK n \in DOMAIN down : GetPkt(n, {"empty", "reply"})
    BY <1>2 DEF Invalid
  <2>2. /\ gdb = "wait" /\ tries' = 0 /\ ctrlc' = FALSE /\ up' = Append(up, Plus)
        /\ UNCHANGED <<asked, took, gdb, out, cache, servervars, faults, setting>>
    BY <1>2 DEF Invalid
  <2>3. down' \in Seq(Items) /\ Shrinks(down, down') /\ down[1].is # "+"
    BY <2>1, <2>2, BusyTaken
  <2>4. /\ BusyLines' /\ Lively' /\ Due' /\ Lockstep'
        /\ Unseen' /\ Answering' /\ Running' /\ up' \in Seq(Items)
    BY <2>2, <2>3, BusyHeard
  <2> USE <2>2 DEF servervars, setting
  <2>5. ctrlc' \in BOOLEAN /\ gdb' = gdb
    OBVIOUS
  <2>6. PacketTypeOK'
    BY <2>3, <2>4, <2>5 DEF BInv, PacketTypeOK
  <2>7. Turn'
    BY <2>5 DEF BInv, Turn
  <2> QED
    BY <2>4, <2>6, <2>7 DEF BInv
<1>3. CASE TakeAnswer /\ out.is = "ask"
  <2>1. PICK n \in DOMAIN down : /\ GetPkt(n, Frames)
                                 /\ gdb' = "idle" /\ tries' = 0 /\ took' = down[n].of
                                 /\ up' = Append(up, Plus) /\ UNCHANGED out
    BY <1>3 DEF TakeAnswer
  <2>2. /\ gdb = "answer" /\ UNCHANGED <<asked, ctrlc, cache, servervars, faults, setting>>
    BY <1>3 DEF TakeAnswer
  <2>3. /\ down' \in Seq(Items) /\ Shrinks(down, down') /\ down[1].is \in Replies
        /\ down[1].is # "+" /\ took' = down[1].of
        /\ Fresh(1) /\ Delivered
    BY <2>1, <2>2, BusyTaken
  <2>4. /\ BusyLines' /\ Lively' /\ Due' /\ Lockstep'
        /\ Unseen' /\ Answering' /\ Running' /\ up' \in Seq(Items)
    BY <2>1, <2>2, <2>3, BusyHeard
  <2>5. /\ handled = asked /\ took' = asked /\ then = "prompt" /\ at \in {"get", "put"}
    <3>1. 1 \in 1 .. Len(down) /\ down[1].is # "bad"
      BY <2>3 DEF Shrinks, Replies
    <3>2. /\ handled = asked /\ down[1] = Item("reply", asked)
          /\ then = "prompt" /\ at \in {"get", "put"}
      BY <1>3, <2>3, <3>1 DEF BInv, Answering
    <3> QED
      BY <2>3, <3>2 DEF Item
  <2> USE <2>1, <2>2 DEF servervars, setting
  <2>6. PacketTypeOK' /\ Turn'
    BY <2>3, <2>4, <2>5 DEF BInv, PacketTypeOK, Turn
  <2> QED
    BY <2>4, <2>6 DEF BInv
<1> QED
  BY <1>1, <1>2, <1>3

(* gdb goes on with a message. *)
LEMMA BusyMessage ==
    ASSUME BInv, gdb \in {"answer", "wait"}, InRun, Delivered, at \in {"get", "put"},
           down' \in Seq(Items), Shrinks(down, down'),
           NEW k \in {"m", "F"}, Send(Item(k, 0)), up' = up \o <<Plus, out'>>, ctrlc' \in BOOLEAN,
           UNCHANGED <<asked, took, cache, servervars, faults, setting>>
    PROVE  BInv'
<1>1. /\ out' \in Items /\ out'.is = k /\ out'.of = 0 /\ out'.is \in Requests
      /\ gdb' = "send" /\ tries' = 0
  BY Constants, ItemType DEF Send, Kinds, Frames, Requests
<1>2. /\ up \in Seq(Items) /\ cache \in Seq(Items)
      /\ \A i \in 1 .. Len(Inbox) : ~Live(i)
      /\ \A i \in 1 .. Len(down) : Current(i)
  BY BusyFacts
<1>3. /\ up' \in Seq(Items) /\ Len(Inbox) \in Nat /\ Len(Inbox') = Len(Inbox) + 2
      /\ \A i \in 1 .. Len(Inbox) : Inbox'[i] = Inbox[i]
      /\ Inbox'[Len(Inbox) + 1] = Plus /\ Inbox'[Len(Inbox) + 2] = out'
  <2>1. Plus \in Items
    BY SignItems
  <2>2. Inbox \in Seq(Items) /\ up' \in Seq(Items) /\ <<Plus, out'>> \in Seq(Items)
    BY <1>1, <1>2, <2>1, AddedTwo DEF Inbox
  <2>3. Inbox' = Inbox \o <<Plus, out'>>
    BY <1>1, <1>2, <2>1, Regrouped DEF Inbox
  <2> HIDE DEF Inbox
  <2> QED
    BY <1>1, <2>1, <2>2, <2>3
<1>4. /\ \A i \in 1 .. Len(Inbox') : \/ i \in 1 .. Len(Inbox) /\ Inbox'[i] = Inbox[i]
                                     \/ i = Len(Inbox) + 1 /\ Inbox'[i].is = "+"
                                     \/ i = Len(Inbox) + 2 /\ Inbox'[i] = out'
      /\ Len(Inbox) + 1 \in 1 .. Len(Inbox') /\ Len(Inbox) + 2 \in 1 .. Len(Inbox')
  <2>1. Inbox'[Len(Inbox) + 1].is = "+"
    BY <1>3, SignItems
  <2>2. \A i \in 1 .. Len(Inbox') :
            i \in 1 .. Len(Inbox) \/ i = Len(Inbox) + 1 \/ i = Len(Inbox) + 2
    BY <1>3
  <2>3. Len(Inbox) + 1 \in 1 .. Len(Inbox') /\ Len(Inbox) + 2 \in 1 .. Len(Inbox')
    BY <1>3
  <2> QED
    BY <1>3, <2>1, <2>2, <2>3
<1>5. /\ Len(down) \in Nat \ {0} /\ Len(down') = Len(down) - 1
      /\ \A i \in 1 .. Len(down') : down'[i] = down[i + 1] /\ i + 1 \in 1 .. Len(down)
      /\ \A i \in 1 .. Len(down') : down'[i].is \in Replies /\ down'[i].is # "+"
  BY BusyHears
<1>6. ~Delivered' /\ \A i \in 1 .. Len(down') : ~Current(i)'
  <2>1. \A i \in 1 .. Len(down') : \A j \in 1 .. i - 1 : j \in 1 .. Len(down')
    BY <1>5
  <2> QED
    BY <1>1, <1>5, <2>1 DEF Delivered, Current
<1> USE DEF servervars, setting
<1>7. PacketTypeOK'
  BY <1>1, <1>3 DEF BInv, PacketTypeOK
<1>8. BusyLines'
  BY <1>1, <1>4, <1>5 DEF BInv, BusyLines
<1>9. ASSUME NEW i \in 1 .. Len(Inbox'), Live(i)'
      PROVE  i = Len(Inbox) + 2
  <2>1. Inbox'[i].is \in Requests /\ (i = 1 => at = "get")
    BY <1>9 DEF Live
  <2>2. i \notin 1 .. Len(Inbox)
    BY <1>2, <1>3, <2>1 DEF Live
  <2> QED
    BY <1>4, <2>1, <2>2 DEF Requests
<1>10. Lively'
  <2>1. PICK n \in 1 .. Len(Inbox') : n = Len(Inbox) + 2
    BY <1>4
  <2>2. n # 1 /\ Inbox'[n] = out' /\ Len(Inbox') = n
    BY <1>3, <2>1
  <2>3. Live(n)'
    BY <1>1, <2>2 DEF Live
  <2>4. \E j \in 1 .. n - 1 : Inbox'[j].is = "+"
    BY <1>3, <2>1, SignItems
  <2>5. ASSUME NEW i \in 1 .. Len(Inbox'), Live(i)'
        PROVE  /\ Inbox'[i] = out' /\ \E j \in 1 .. i - 1 : Inbox'[j].is = "+"
               /\ \A j \in i + 1 .. Len(Inbox') : FALSE
    <3>1. i = n
      BY <1>9, <2>1, <2>5
    <3> QED
      BY <2>2, <2>4, <3>1
  <2> QED
    BY <1>1, <1>6, <2>3, <2>5 DEF Lively
<1>11. Due'
  <2>1. \E i \in 1 .. Len(Inbox') : Inbox'[i].is = "+"
    BY <1>3, <1>4, SignItems
  <2> QED
    BY <1>6, <2>1 DEF BInv, Due
<1>12. Lockstep'
  <2> SUFFICES ASSUME faults = 0 PROVE Lockstep'
    BY DEF Lockstep
  <2>1. Len(down) <= 1 /\ \A i \in 1 .. Len(Inbox) : Inbox[i].is \notin Requests
    BY <1>2 DEF BInv, Lockstep
  <2>2. \A i \in 1 .. Len(Inbox') : Inbox'[i].is \in Requests => i = Len(Inbox) + 2
    BY <1>4, <2>1 DEF Requests
  <2>3. \A i \in 1 .. Len(Inbox') : Inbox'[i].is \in Requests => Live(i)' /\ i = Len(Inbox')
    <3> SUFFICES ASSUME NEW i \in 1 .. Len(Inbox'), Inbox'[i].is \in Requests
                 PROVE  Live(i)' /\ i = Len(Inbox')
      OBVIOUS
    <3>1. i = Len(Inbox) + 2
      BY <2>2
    <3>2. i = Len(Inbox') /\ i # 1
      BY <1>3, <3>1
    <3> QED
      BY <3>2 DEF Live
  <2>4. Len(down') = 0
    BY <1>5, <2>1
  <2> QED
    BY <1>1, <1>6, <2>3, <2>4 DEF Lockstep
<1>13. Turn' /\ Unseen' /\ Answering'
  BY <1>1 DEF BInv, Turn, Unseen, Answering
<1>14. Running'
  <2>1. /\ handled = asked /\ at # "work"
        /\ at = "put" /\ reply.is = "stop" => reply.of = asked /\ then = "prompt"
        /\ \A i \in 1 .. Len(down) : Fresh(i) /\ down[i].is = "stop" =>
              down[i].of = asked /\ then = "prompt" /\ at \in {"get", "put"}
    BY DEF BInv, Running
  <2>2. \A i \in 1 .. Len(down') : Fresh(i + 1)
    BY <1>5 DEF Fresh, IsSign, Signs, Replies
  <2>3. ASSUME NEW i \in 1 .. Len(down'), down'[i].is = "stop"
        PROVE  down'[i].of = asked /\ then = "prompt" /\ at \in {"get", "put"}
    BY <1>5, <2>1, <2>2, <2>3
  <2> QED
    BY <2>1, <2>3 DEF Running
<1> QED
  BY <1>7, <1>8, <1>10, <1>11, <1>12, <1>13, <1>14 DEF BInv

LEMMA BusyMessages ==
    ASSUME BInv, WriteMessage \/ (TakeAnswer /\ out.is = "m")
    PROVE  BInv'
<1>1. CASE WriteMessage
  <2>1. PICK n \in DOMAIN down : GetPkt(n, {"Fwrite"})
    BY <1>1 DEF WriteMessage
  <2>2. /\ gdb = "wait" /\ ctrlc' = FALSE /\ up' = up \o <<Plus, out'>>
        /\ Send(Item(IF ctrlc THEN "F" ELSE "m", 0))
        /\ UNCHANGED <<asked, took, cache, servervars, faults, setting>>
    BY <1>1 DEF WriteMessage
  <2>3. down' \in Seq(Items) /\ Shrinks(down, down') /\ Delivered /\ at \in {"get", "put"}
    BY <2>1, <2>2, BusyTaken
  <2>4. InRun
    BY <2>2, <2>3 DEF BInv, Turn, InRun
  <2>5. ctrlc' \in BOOLEAN
    BY <2>2
  <2>6. CASE ctrlc
    BY <2>2, <2>3, <2>4, <2>5, <2>6, BusyMessage
  <2>7. CASE ~ctrlc
    BY <2>2, <2>3, <2>4, <2>5, <2>7, BusyMessage
  <2> QED
    BY <2>6, <2>7
<1>2. CASE TakeAnswer /\ out.is = "m"
  <2>1. PICK n \in DOMAIN down :
            GetPkt(n, Frames) /\ Send(Item("F", 0)) /\ up' = up \o <<Plus, out'>> /\ UNCHANGED took
    BY <1>2 DEF TakeAnswer
  <2>2. gdb = "answer" /\ UNCHANGED <<asked, ctrlc, cache, servervars, faults, setting>>
    BY <1>2 DEF TakeAnswer
  <2>3. down' \in Seq(Items) /\ Shrinks(down, down') /\ Delivered /\ at \in {"get", "put"}
    BY <2>1, <2>2, BusyTaken
  <2>4. InRun /\ ctrlc' \in BOOLEAN
    BY <1>2, <2>2 DEF InRun, BInv, PacketTypeOK
  <2> QED
    BY <2>1, <2>2, <2>3, <2>4, BusyMessage
<1> QED
  BY <1>1, <1>2

(* gdb sends its packet once more: to a server that waits for it, or that  *)
(* has just taken it.                                                      *)
LEMMA BusyLate ==
    ASSUME BInv, LateAck, faults = 0
    PROVE  BInv'
<1>1. /\ gdb = "send" /\ faults < MaxFaults[line] /\ faults' = faults + 1
      /\ UNCHANGED <<asked, took, out, ctrlc, down, cache, servervars, setting>>
  BY DEF LateAck
<1> USE <1>1 DEF servervars, setting
<1>2. up' = Append(up, out) /\ tries' = 1 /\ gdb' = gdb
  BY DEF LateAck, Retry, BInv, Lockstep
<1>3. /\ up \in Seq(Items) /\ cache \in Seq(Items) /\ out \in Items /\ out.is \in Requests
      /\ Len(down) \in Nat
  BY BusyFacts DEF BInv, PacketTypeOK
<1>4. up' \in Seq(Items) /\ Grows(Inbox, Inbox', out)
  BY <1>2, <1>3, InboxAdded
<1>5. /\ Len(Inbox) \in Nat /\ Len(Inbox') = Len(Inbox) + 1
      /\ \A i \in 1 .. Len(Inbox) : Inbox'[i] = Inbox[i] /\ i \in 1 .. Len(Inbox')
      /\ \A i \in 1 .. Len(Inbox') : \/ i \in 1 .. Len(Inbox) /\ Inbox'[i] = Inbox[i]
                                     \/ i = Len(Inbox) + 1 /\ Inbox'[i] = out
  BY <1>4 DEF Grows
<1>6. /\ Delivered' = Delivered
      /\ \A i \in 1 .. Len(down) : Current(i)' = Current(i)
      /\ \A i \in 1 .. Len(down) : Fresh(i)' = Fresh(i)
  BY <1>2 DEF Delivered, Current, Fresh
<1>7. PacketTypeOK'
  <2>1. faults' \in 0 .. MaxFaults[line] /\ tries' \in 0 .. 3
    BY <1>2, Constants DEF BInv, PacketTypeOK
  <2>2. ctrlc' \in BOOLEAN
    BY DEF BInv, PacketTypeOK
  <2> QED
    BY <1>2, <1>4, <2>1, <2>2 DEF BInv, PacketTypeOK
<1>8. BusyLines'
  BY <1>2, <1>3, <1>5 DEF BInv, BusyLines
<1>9. Due'
  BY <1>2, <1>5, <1>6 DEF BInv, Due
<1>10. Lockstep'
  BY <1>1 DEF Lockstep, BInv, PacketTypeOK
<1>11. Lively'
  <2>1. CASE Delivered
    <3>1. Len(Inbox) = 0 /\ at # "get"
      BY <2>1 DEF BInv, Lockstep
    <3>2. \A i \in 1 .. Len(Inbox') : ~Live(i)'
      BY <1>5, <3>1 DEF Live
    <3> QED
      BY <1>6, <2>1, <3>2 DEF Lively
  <2>2. CASE ~Delivered
    <3>1. PICK n \in 1 .. Len(Inbox) : Live(n)
      BY <2>2 DEF BInv, Lively
    <3>2. /\ n = Len(Inbox) /\ Len(down) = 0
          /\ \A i \in 1 .. Len(Inbox) : i # n => Inbox[i].is = "+"
      BY <2>2, <3>1 DEF BInv, Lockstep, BusyLines, Live
    <3>3. /\ Inbox[n] = out /\ at \in {"get", "put"}
          /\ at = "put" => \E j \in 1 .. n - 1 : Inbox[j].is = "+"
      BY <3>1 DEF BInv, Lively
    <3>4. /\ Len(Inbox') = n + 1 /\ Inbox'[n] = out /\ Inbox'[n + 1] = out
          /\ n \in 1 .. Len(Inbox') /\ n + 1 \in 1 .. Len(Inbox')
          /\ \A i \in 1 .. n - 1 : Inbox'[i].is = "+"
          /\ \A i \in 1 .. Len(Inbox') : i \in 1 .. n - 1 \/ i = n \/ i = n + 1
      BY <1>5, <3>2, <3>3
    <3>5. Live(n)'
      BY <1>3, <3>1, <3>4 DEF Live
    <3>6. at = "put" => \E j \in 1 .. n - 1 : Inbox'[j].is = "+"
      BY <1>5, <3>2, <3>3
    <3>7. ASSUME NEW i \in 1 .. Len(Inbox'), Live(i)'
          PROVE  /\ Inbox'[i] = out
                 /\ at = "put" => \E j \in 1 .. i - 1 : Inbox'[j].is = "+"
                 /\ \A j \in i + 1 .. Len(Inbox') : Inbox'[j].is \in Requests =>
                       /\ j = i + 1 /\ j = Len(Inbox') /\ Inbox'[j] = out /\ Len(down) = 0
                       /\ \A k \in 1 .. i - 1 : Inbox'[k].is = "+"
      <4>1. i = n \/ i = n + 1
        BY <3>4, <3>7 DEF Live, Requests
      <4>2. \A j \in 1 .. n - 1 : j \in 1 .. i - 1
        BY <4>1
      <4>3. \A j \in i + 1 .. Len(Inbox') : i = n /\ j = n + 1
        BY <3>4, <4>1
      <4>4. at = "put" => \E j \in 1 .. i - 1 : Inbox'[j].is = "+"
        BY <3>6, <4>2
      <4> QED
        BY <3>2, <3>4, <4>1, <4>3, <4>4
    <3>8. gdb' = "send" /\ ~Delivered' /\ out' = out /\ at' = at /\ down' = down
      BY <1>2, <1>6, <2>2
    <3>9. \E i \in 1 .. Len(Inbox') : Live(i)'
      BY <3>4, <3>5
    <3> QED
      BY <3>3, <3>7, <3>8, <3>9 DEF Lively
  <2> QED
    BY <2>1, <2>2
<1>12. Turn' /\ Unseen' /\ Answering' /\ Running'
  BY <1>2, <1>6 DEF BInv, Turn, Unseen, Answering, Running, InRun
<1> QED
  BY <1>7, <1>8, <1>9, <1>10, <1>11, <1>12 DEF BInv

(* Nothing is damaged, and once it has spoken for the first time a server  *)
(* without input has not left gdb without its +.                           *)
LEMMA BusyNever ==
    ASSUME BInv, line = "busy"
    PROVE  ~(Refuse \/ InterruptPrompt \/ FakeInterrupt \/ SendRefused \/ SendTimeout
             \/ Damaged \/ Interrupt \/ Late \/ Damage)
<1>1. ASSUME Refuse \/ InterruptPrompt \/ FakeInterrupt PROVE FALSE
  <2>1. PICK k \in {"bad", "^C"} : GetDebugChar({k})
    BY <1>1 DEF Refuse, InterruptPrompt, FakeInterrupt
  <2>2. Inbox[1].is = k /\ Shrinks(Inbox, Inbox')
    BY <2>1, InboxTaken DEF BInv, PacketTypeOK
  <2>3. 1 \in 1 .. Len(Inbox)
    BY <2>2 DEF Shrinks
  <2> QED
    BY <2>2, <2>3 DEF BInv, BusyLines, Requests
<1>2. ASSUME SendRefused PROVE FALSE
  <2>1. Shrinks(down, down') /\ down[1].is = "-"
    BY <1>2, DownTaken DEF SendRefused, BInv, PacketTypeOK
  <2>2. 1 \in 1 .. Len(down)
    BY <2>1 DEF Shrinks
  <2> QED
    BY <2>1, <2>2 DEF BInv, BusyLines, Replies
<1>3. ASSUME SendTimeout PROVE FALSE
  <2>1. gdb = "send" /\ down = <<>> /\ ~HasInput
    BY <1>3 DEF SendTimeout, Quiet
  <2>2. Len(Inbox) = 0 /\ Len(down) = 0
    BY <2>1 DEF Inbox, HasInput
  <2> QED
    BY <2>1, <2>2 DEF BInv, Lively, Delivered
<1>4. ASSUME Damaged PROVE FALSE
  <2>1. PICK n \in DOMAIN down : down[n].is = "bad"
    BY <1>4 DEF Damaged, GetPkt
  <2>2. n \in 1 .. Len(down)
    BY <2>1 DEF BInv, PacketTypeOK
  <2> QED
    BY <2>1, <2>2 DEF BInv, BusyLines, Replies
<1>5. ~(Interrupt \/ Late \/ Damage)
  BY DEF Interrupt, Late, Damage
<1> QED
  BY <1>1, <1>2, <1>3, <1>4, <1>5

LEMMA BusyStep ==
    ASSUME BInv, line = "busy", faults' <= 1, Next
    PROVE  BInv'
<1>1. ~(Refuse \/ InterruptPrompt \/ FakeInterrupt \/ SendRefused \/ SendTimeout
        \/ Damaged \/ Interrupt \/ Late \/ Damage)
  BY BusyNever
<1>2. CASE Skip \/ Acked \/ AckedInside \/ Resend
  BY <1>2, BusyWaits
<1>3. CASE Request \/ Work \/ Continue
  BY <1>3, BusyRequest, BusyWork, BusyContinue
<1>4. CASE Unsupported \/ FakeRead \/ FakeOther \/ FakeWritten
  BY <1>4, BusyFake, BusyWritten
<1>5. CASE ProgramStops \/ InterruptRun \/ FakeEnd \/ FakeWrite
  BY <1>5, BusyRun
<1>6. CASE JobSpeaks \/ JobEnds
  BY <1>6, BusyJob
<1>7. CASE AskSomething \/ Resume
  BY <1>7, BusyAsks
<1>8. CASE SendAcked \/ SkipFrame
  BY <1>8, BusyAcked, BusySkipFrame
<1>9. CASE Stopped \/ Invalid \/ WriteMessage
  BY <1>9, BusyTold, BusyMessages
<1>10. CASE TakeAnswer
  <2>1. out.is = "ask" \/ out.is = "m"
    BY <1>10 DEF TakeAnswer, BInv, Turn
  <2> QED
    BY <1>10, <2>1, BusyTold, BusyMessages
<1>11. CASE LateAck
  <2>1. faults = 0
    BY <1>11, Constants DEF LateAck, BInv, PacketTypeOK
  <2> QED
    BY <1>11, <2>1, BusyLate
<1> QED
  BY <1>1, <1>2, <1>3, <1>4, <1>5, <1>6, <1>7, <1>8, <1>9, <1>10, <1>11
     DEF Next, Server, Gdb, User

-----------------------------------------------------------------------------
(* All steps together.                                                     *)

LEMMA FaultsCounted ==
    ASSUME Next
    PROVE  /\ line' = line
           /\ \/ faults' = faults
              \/ /\ faults < MaxFaults[line] /\ faults' = faults + 1
                 /\ Damage \/ Late \/ (LateAck /\ line = "busy")
<1> USE DEF setting
<1>1. ASSUME Server PROVE faults' = faults /\ line' = line
  BY <1>1 DEF Server, Skip, Refuse, Acked, AckedInside, Resend, Request, Work, Continue,
     InterruptPrompt, Unsupported, InterruptRun, FakeWrite, FakeRead, FakeOther, FakeInterrupt,
     FakeWritten, FakeEnd
<1>2. ASSUME ProgramStops \/ JobSpeaks \/ JobEnds PROVE faults' = faults /\ line' = line
  BY <1>2 DEF ProgramStops, JobSpeaks, JobEnds
<1>3. ASSUME Gdb PROVE faults' = faults /\ line' = line
  BY <1>3 DEF Gdb, SendAcked, SendRefused, SkipFrame, SendTimeout, Damaged, TakeAnswer, Stopped,
     WriteMessage, Invalid
<1>4. ASSUME User PROVE faults' = faults /\ line' = line
  BY <1>4 DEF User, AskSomething, Resume, Interrupt
<1>5. ASSUME Damage \/ Late \/ LateAck
      PROVE  /\ line' = line /\ faults < MaxFaults[line] /\ faults' = faults + 1
             /\ Damage \/ Late \/ (LateAck /\ line = "busy")
  BY <1>5 DEF Damage, Late, LateAck
<1> QED
  BY <1>1, <1>2, <1>3, <1>4, <1>5 DEF Next

LEMMA ServerInv ==
    ASSUME PInv, Server \/ ProgramStops \/ JobSpeaks \/ JobEnds
    PROVE  PInv'
<1>1. CASE Skip \/ Refuse \/ Acked \/ AckedInside \/ Resend
  BY <1>1, SkipInv, RefuseInv, AckedInv, ResendInv
<1>2. CASE Request \/ Work \/ Continue \/ InterruptPrompt \/ Unsupported
  BY <1>2, RequestInv, WorkInv, ContinueInv, InterruptPromptInv, UnsupportedInv
<1>3. CASE ProgramStops \/ InterruptRun \/ FakeEnd
  BY <1>3, RunStopsInv
<1>4. CASE FakeWrite \/ FakeRead \/ FakeOther \/ FakeInterrupt \/ FakeWritten
  BY <1>4, FakeWriteInv, FakeReadInv, FakeOtherInv, FakeInterruptInv, FakeWrittenInv
<1>5. CASE JobSpeaks \/ JobEnds
  BY <1>5, JobInv
<1> QED
  BY <1>1, <1>2, <1>3, <1>4, <1>5 DEF Server

LEMMA GdbInv ==
    ASSUME PInv, faults <= 2, Gdb \/ User
    PROVE  PInv'
BY SendAckedInv, SendRefusedInv, SkipFrameInv, SendTimeoutInv, DamagedInv, TakeAnswerInv,
   StoppedInv, WriteMessageInv, InvalidInv, AsksInv, InterruptInv DEF Gdb, User

LEMMA StutterInv ==
    ASSUME PInv, UNCHANGED vars
    PROVE  PInv'
<1> USE DEF vars, gdbvars, linevars, servervars, setting
<1>1. UNCHANGED Inbox /\ Delivered' = Delivered
  BY DEF Inbox, Delivered
<1>2. PacketTypeOK'
  BY DEF PInv, PacketTypeOK
<1>3. InboxKinds' /\ DownKinds' /\ OneRequest'
  BY <1>1 DEF PInv, OnTheLines, InboxKinds, DownKinds, OneRequest
<1>4. OneSign' /\ NotBoth' /\ NoneLeft'
  BY <1>1 DEF PInv, OnTheLines, OneSign, NotBoth, NoneLeft
<1>5. Turn' /\ Unseen' /\ Asked' /\ Running' /\ Owed'
  BY <1>1 DEF PInv, Turn, Unseen, Asked, Answering, InRun, Running, Fresh, Owed
<1>6. Answerable' /\ Patience' /\ Faultless' /\ OneReply' /\ Sole' /\ Alert'
  BY <1>1 DEF PInv, Answerable, Given, Patience, Worn, Alone, Faultless, OneReply, Sole, Alert
<1> QED
  BY <1>2, <1>3, <1>4, <1>5, <1>6 DEF PInv, OnTheLines

(* Until there are more faults than the protocol bears; before the late +  *)
(* a busy line is like the others.                                         *)
Early == faults <= 2 /\ (line = "busy" => faults = 0)
Busy  == faults <= 1 /\ line = "busy"

IInv ==
    /\ line \in Lines /\ faults \in 0 .. MaxFaults[line]
    /\ Early => PInv
    /\ Busy => BInv

LEMMA PacketsStep ==
    ASSUME IInv, [Next]_vars
    PROVE  IInv'
<1>1. CASE Next
  <2>1. /\ line' = line
        /\ \/ faults' = faults
           \/ /\ faults < MaxFaults[line] /\ faults' = faults + 1
              /\ Damage \/ Late \/ (LateAck /\ line = "busy")
    BY <1>1, FaultsCounted
  <2>2. faults \in Nat /\ MaxFaults[line] \in Nat
    BY Constants DEF IInv
  <2>3. line' \in Lines /\ faults' \in 0 .. MaxFaults[line']
    BY <2>1, <2>2 DEF IInv
  <2>4. ASSUME Early' PROVE PInv'
    <3>1. PInv /\ faults <= 2 /\ ~LateAck
      BY <2>1, <2>2, <2>4 DEF IInv, Early, LateAck
    <3>2. CASE Server \/ ProgramStops \/ JobSpeaks \/ JobEnds
      BY <3>1, <3>2, ServerInv
    <3>3. CASE Gdb \/ User
      BY <3>1, <3>3, GdbInv
    <3>4. CASE Damage
      BY <3>1, <3>4, DamageInv
    <3>5. CASE Late
      BY <2>4, <3>1, <3>5, LateInv DEF Early
    <3> QED
      BY <1>1, <3>1, <3>2, <3>3, <3>4, <3>5 DEF Next
  <2>5. ASSUME Busy' PROVE BInv'
    <3>1. line = "busy" /\ faults' <= 1 /\ BInv
      BY <2>1, <2>2, <2>5 DEF IInv, Busy
    <3> QED
      BY <1>1, <3>1, BusyStep
  <2> QED
    BY <2>3, <2>4, <2>5 DEF IInv
<1>2. CASE UNCHANGED vars
  <2>1. UNCHANGED <<line, faults>>
    BY <1>2 DEF vars, setting
  <2> QED
    BY <1>2, <2>1, StutterInv, BusyJob DEF IInv, Early, Busy
<1> QED
  BY <1>1, <1>2

(* The lines, the server and gdb stay in step as long as the protocol      *)
(* bears it: what is on the lines says where server and gdb are.           *)
THEOREM PacketsInvariant == Spec => []IInv
<1>1. Init => IInv
  <2>1. Init => line \in Lines /\ faults \in 0 .. MaxFaults[line]
    BY Constants DEF Init
  <2> QED
    BY <2>1, InitInv, BusyInit DEF IInv
<1> QED
  BY <1>1, PacketsStep, PTL DEF Spec

(* The two invariants agree on where server and gdb are. *)
Phases == PacketTypeOK /\ Turn /\ Unseen /\ Answering /\ Running

LEMMA InPhase ==
    ASSUME IInv, faults <= Bearable(line)
    PROVE  (PInv \/ BInv) /\ Phases
<1>1. PInv \/ BInv
  BY DEF IInv, Early, Busy, Bearable
<1> QED
  BY <1>1 DEF PInv, BInv, Phases, Asked

(* The variables keep their types as long. *)
THEOREM PacketTypes == Spec => [](faults <= Bearable(line) => PacketTypeOK)
<1>1. IInv => (faults <= Bearable(line) => PacketTypeOK)
  BY InPhase DEF Phases
<1> QED
  BY <1>1, PacketsInvariant, PTL

(* gdb_main_loop and the fake continue never run the program while gdb     *)
(* asks, or lets its user look at the program.  One fault more matters:    *)
(* after three bad answers getpkt goes on, and the server may return to    *)
(* the fake continue behind it; and a c that was sent twice more, since    *)
(* its + was late twice, is a second c when the program has stopped.       *)
THEOREM Halted == Spec => [](faults <= Bearable(line) => HaltedForGdb)
<1>1. IInv => (faults <= Bearable(line) => HaltedForGdb)
  BY InPhase, RunPhase DEF HaltedForGdb
<1> QED
  BY <1>1, PacketsInvariant, PTL

(* So it is in every state if there are no more faults than that. *)
COROLLARY HaltedWithinFaults ==
    ASSUME \A kind \in Lines : MaxFaults[kind] <= Bearable(kind)
    PROVE  Spec => []HaltedForGdb
<1>1. IInv => HaltedForGdb
  <2> SUFFICES ASSUME IInv PROVE HaltedForGdb
    OBVIOUS
  <2>1. faults <= Bearable(line)
    BY Constants DEF IInv, Bearable
  <2> QED
    BY <2>1, InPhase, RunPhase DEF HaltedForGdb
<1> QED
  BY <1>1, PacketsInvariant, PTL

(* The poll of gdb_main_loop, which stops the program for any character,   *)
(* stops a careful user's program for a ^C only, as long as no packet was  *)
(* damaged or late: no + and no packet is left on the line when a c is     *)
(* received.  It needs no bound on the faults that may come later.         *)
THEOREM Interrupts == Spec => OnlyInterrupts
<1> DEFINE ByETX == InterruptRun /\ user = "careful" /\ faults = 0 =>
                        \E i \in DOMAIN up : up[i] = ETX
<1>1. ASSUME IInv PROVE ByETX
  <2> SUFFICES ASSUME InterruptRun, user = "careful", faults = 0
               PROVE  \E i \in DOMAIN up : up[i] = ETX
    OBVIOUS
  <2>1. PInv /\ at = "run" /\ up # <<>>
    BY <1>1 DEF IInv, Early, InterruptRun
  <2>2. up \in Seq(Items) /\ cache \in Seq(Items) /\ \A i \in 1 .. Len(Inbox) : Inbox[i] = ETX
    BY <2>1 DEF PInv, PacketTypeOK, Alert
  <2>3. Len(Inbox) = Len(cache) + Len(up) /\ Len(cache) \in Nat /\ Len(up) \in Nat \ {0}
    BY <2>1, <2>2, SignItems, Regrouped DEF Inbox
  <2>4. Inbox[Len(cache) + 1] = up[1]
    BY <2>2, <2>3 DEF Inbox
  <2>5. Len(cache) + 1 \in 1 .. Len(Inbox) /\ 1 \in DOMAIN up
    BY <2>2, <2>3
  <2> QED
    BY <2>2, <2>4, <2>5
<1>2. IInv => ByETX
  BY <1>1
<1>3. IInv /\ [Next]_vars => [ByETX]_vars
  BY <1>2
<1> HIDE DEF ByETX
<1>4. Spec => [][ByETX]_vars
  BY <1>3, PacketsInvariant, PTL DEF Spec
<1> QED
  BY <1>4 DEF OnlyInterrupts, ByETX

-----------------------------------------------------------------------------
(* gdb's requests are Ask, gdb_handle_exception is Handle, the answers and *)
(* stops gdb takes are Answer; nothing else shows.                         *)
LEMMA InStepNext ==
    ASSUME Phases, Phases', [Next]_vars
    PROVE  [D!Ask \/ D!Handle \/ D!Answer]_D!dialogue
<1> USE DEF gdbvars, linevars, servervars, setting, D!dialogue
<1>1. CASE AskSomething \/ Resume
  <2>1. /\ gdb = "idle" /\ asked' = asked + 1
        /\ UNCHANGED <<took, handled>>
    BY <1>1 DEF AskSomething, Resume
  <2>2. took = asked
    BY <2>1 DEF Phases, Turn
  <2> QED
    BY <2>1, <2>2 DEF D!Ask
<1>2. CASE Work \/ Continue
  <2>1. handled' = handled + 1 /\ UNCHANGED <<asked, took>>
    BY <1>2 DEF Work, Continue
  <2>2. handled \in Nat /\ asked \in Nat
    BY Constants DEF Phases, PacketTypeOK
  <2>3. handled' <= asked'
    <3>1. handled' = asked' \/ handled' + 1 = asked'
      BY DEF Phases, Unseen, Answering, Running, InRun, PacketTypeOK, Requests
    <3> QED
      BY <2>1, <2>2, <3>1
  <2> QED
    BY <2>1, <2>2, <2>3 DEF D!Handle
<1>3. CASE TakeAnswer \/ Stopped
  <2>1. gdb # "idle" /\ UNCHANGED <<asked, handled>>
    BY <1>3 DEF TakeAnswer, Stopped
  <2>2. gdb' = "idle" \/ UNCHANGED took
    BY <1>3 DEF TakeAnswer, Stopped
  <2>3. CASE gdb' = "idle"
    <3>1. took + 1 = asked
      BY <2>1 DEF Phases, Turn
    <3>2. took' = asked' /\ handled' = asked'
      BY <2>3 DEF Phases, Turn
    <3>3. took \in Nat
      BY Constants DEF Phases, PacketTypeOK
    <3> QED
      BY <2>1, <3>1, <3>2, <3>3 DEF D!Answer
  <2> QED
    BY <2>1, <2>2, <2>3
<1>4. CASE Skip \/ Refuse \/ Acked \/ AckedInside \/ Resend \/ Request
  BY <1>4 DEF Skip, Refuse, Acked, AckedInside, Resend, Request
<1>5. CASE InterruptPrompt \/ Unsupported \/ InterruptRun \/ ProgramStops \/ JobSpeaks \/ JobEnds
  BY <1>5 DEF InterruptPrompt, Unsupported, InterruptRun, ProgramStops, JobSpeaks, JobEnds
<1>6. CASE FakeWrite \/ FakeRead \/ FakeOther \/ FakeInterrupt \/ FakeWritten \/ FakeEnd
  BY <1>6 DEF FakeWrite, FakeRead, FakeOther, FakeInterrupt, FakeWritten, FakeEnd
<1>7. CASE SendAcked \/ SendRefused \/ SkipFrame \/ SendTimeout \/ Damaged
  BY <1>7 DEF SendAcked, SendRefused, SkipFrame, SendTimeout, Damaged
<1>8. CASE WriteMessage \/ Invalid \/ Interrupt \/ Damage \/ Late \/ LateAck
  BY <1>8 DEF WriteMessage, Invalid, Interrupt, Damage, Late, LateAck
<1>9. CASE UNCHANGED vars
  BY <1>9 DEF vars
<1> QED
  BY <1>1, <1>2, <1>3, <1>4, <1>5, <1>6, <1>7, <1>8, <1>9 DEF Next, Server, Gdb, User

(* On a line of any kind, each step that leaves no more faults than the    *)
(* protocol bears is a step of the dialogue or none: no request is dealt   *)
(* with twice, no answer taken for another's.                              *)
THEOREM DialogueWhileBearable ==
    Spec => [][faults' <= Bearable(line) =>
                   [D!Ask \/ D!Handle \/ D!Answer]_D!dialogue]_vars
<1>1. IInv /\ faults <= Bearable(line) => Phases
  BY InPhase
<1>2. (IInv /\ faults <= Bearable(line))' => Phases'
  BY <1>1, PTL
<1>3. ASSUME IInv, IInv', [Next]_vars, faults' <= Bearable(line)
      PROVE  [D!Ask \/ D!Handle \/ D!Answer]_D!dialogue
  <2>1. line' = line /\ (faults' = faults \/ faults' = faults + 1)
    BY <1>3, FaultsCounted DEF vars, setting
  <2>2. faults <= Bearable(line) /\ faults' <= Bearable(line')
    BY <1>3, <2>1, Constants DEF IInv, Bearable
  <2>3. Phases /\ Phases'
    BY <1>1, <1>2, <1>3, <2>2
  <2> QED
    BY <1>3, <2>3, InStepNext
<1>4. IInv /\ IInv' /\ [Next]_vars =>
         [faults' <= Bearable(line) => [D!Ask \/ D!Handle \/ D!Answer]_D!dialogue]_vars
  BY <1>3
<1> QED
  BY <1>4, PacketsInvariant, PTL DEF Spec

(* Packets implements Dialogue: each request is dealt with once, in the    *)
(* order asked, and gdb takes its answer before it asks again, whatever is *)
(* sent twice, refused or taken for something else.                        *)
THEOREM PacketsImplementDialogue ==
    ASSUME \A kind \in Lines : MaxFaults[kind] <= Bearable(kind)
    PROVE  Spec => InStep
<1>1. Init => D!DialogueInit
  BY DEF Init, D!DialogueInit
<1>2. IInv => Phases
  <2> SUFFICES ASSUME IInv PROVE Phases
    OBVIOUS
  <2>1. faults <= Bearable(line)
    BY Constants DEF IInv, Bearable
  <2> QED
    BY <2>1, InPhase
<1>3. IInv /\ IInv' /\ [Next]_vars => [D!Ask \/ D!Handle \/ D!Answer]_D!dialogue
  <2>1. IInv' => Phases'
    BY <1>2, PTL
  <2> QED
    BY <1>2, <2>1, InStepNext
<1> QED
  BY <1>1, <1>3, PacketsInvariant, PTL DEF Spec, InStep, D!DialogueSpec
=============================================================================
