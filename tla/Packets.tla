------------------------------ MODULE Packets -------------------------------
(***************************************************************************)
(* The packets between gdb and the server: getpacket, putpacket and        *)
(* getDebugChar of arm_gdbstub.c with the loops that call them (the one    *)
(* for gdb's requests, the one that runs the program and the one of the    *)
(* fake continue), and the other end, putpkt_binary, getpkt and            *)
(* remote_wait_as of gdb's remote.c.                                       *)
(*                                                                         *)
(* A packet is one item on the line, and so is each character outside of   *)
(* packets.  A request carries its number, and so does its answer.         *)
(***************************************************************************)
EXTENDS Naturals, Sequences

CONSTANTS
    Turns,      \* how many requests gdb makes
    Messages,   \* the largest number of messages queued for the console
    FakeModes,  \* the values of fake_continue_mode gdb sets
    Lines,      \* "slow": gdb's patience may end before the server has
                \* answered, and its user types ^C; "busy": it may end
                \* before a packet is acknowledged; "noisy": packets are
                \* damaged
    MaxFaults,  \* how many packets are damaged, answered or acknowledged
                \* late, for each of the lines
    Lengths,    \* how many characters a packet may have
    Users       \* a "careful" one types no ^C while the fake continue lasts,
                \* and looks at the stopped program before continuing it

ASSUME PacketsAssumption ==
    /\ Turns \in Nat /\ Messages \in Nat
    /\ FakeModes \subseteq BOOLEAN /\ Users \subseteq {"careful", "any"}
    /\ Lines \subseteq {"slow", "busy", "noisy"} /\ MaxFaults \in [Lines -> Nat]
    /\ Lengths \subseteq Nat \ {0}

VARIABLES
    asked,      \* the number of gdb's last request
    took,       \* the number in the answer gdb took last
    gdb,        \* "idle"; "send": putpkt waits for +; "answer": getpkt waits
                \* for the answer; "wait": remote_wait waits for a stop
    out,        \* the packet gdb sent last
    tries,      \* tcount of putpkt and tries of getpkt
    ctrlc,      \* ctrlc_pending_p
    user, line, \* which of the users and lines it is
    up, down,   \* the line to the server and the line to gdb
    cache,      \* debugCharReadCache: read from the line, not used yet
    at,         \* the server: "get" a packet, "work" on a request, "put" a
                \* packet, "run" the program, or at the head of the loop of
                \* the "fake" continue
    reply,      \* the packet in putpacket
    then,       \* where it goes on: "prompt", "write" and "written" (a
                \* message of the fake continue), "stop" (ends it)
    handled,    \* how many requests the server dealt with
    job,        \* is a callback queued?
    messages,   \* the messages queued for the console
    faults      \* so many packets were damaged, answered or acknowledged late

gdbvars    == <<asked, took, gdb, out, tries, ctrlc>>
linevars   == <<up, down, cache>>
servervars == <<at, reply, then, handled, job, messages>>
setting    == <<user, line>>
vars       == <<gdbvars, linevars, servervars, faults, setting>>

Item(kind, n) == [is |-> kind, of |-> n]

Plus  == Item("+", 0)
Minus == Item("-", 0)
ETX   == Item("^C", 0)

Requests == {"ask", "c", "m", "F"}
Replies  == {"reply", "stop", "empty", "Fwrite"}
Frames   == Requests \cup Replies               \* with a good checksum
Kinds    == Frames \cup {"+", "-", "^C", "bad"}
Items    == [is : Kinds, of : 0 .. Turns]

PacketTypeOK ==
    /\ asked \in 0 .. Turns /\ took \in 0 .. Turns
    /\ gdb \in {"idle", "send", "answer", "wait"}
    /\ out \in Items /\ out.is \in Requests
    /\ tries \in 0 .. 3 /\ ctrlc \in BOOLEAN
    /\ user \in Users /\ line \in Lines
    /\ up \in Seq(Items) /\ down \in Seq(Items) /\ cache \in Seq(Items)
    /\ at \in {"get", "work", "put", "run", "fake"}
    /\ reply \in Items /\ reply.is \in Replies
    /\ then \in {"prompt", "write", "written", "stop"}
    /\ handled \in Nat /\ job \in BOOLEAN /\ messages \in 0 .. Messages
    /\ faults \in 0 .. MaxFaults[line]

Init ==
    /\ asked = 0 /\ took = 0 /\ gdb = "idle" /\ out = Item("ask", 0)
    /\ tries = 0 /\ ctrlc = FALSE
    /\ user \in Users /\ line \in Lines
    /\ up = <<>> /\ down = <<>> /\ cache = <<>>
    /\ at = "get" /\ reply = Item("empty", 0) /\ then = "prompt"
    /\ handled = 0 /\ job = FALSE /\ messages = 0 /\ faults = 0

-----------------------------------------------------------------------------
(* The server reads a character: from its cache, or else all that has      *)
(* arrived.                                                                *)
HasInput == cache # <<>> \/ up # <<>>
Char     == IF cache # <<>> THEN Head(cache) ELSE Head(up)

GetDebugChar(kinds) ==
    /\ HasInput /\ Char.is \in kinds
    /\ IF cache # <<>> THEN cache' = Tail(cache) /\ UNCHANGED up
       ELSE \E n \in DOMAIN up :
                /\ cache' = SubSeq(up, 2, n)
                /\ up' = SubSeq(up, n + 1, Len(up))

(* It sends items, the last one with putpacket, and waits for the +.       *)
Put(items, next) ==
    /\ down' = down \o items
    /\ at' = "put" /\ reply' = items[Len(items)] /\ then' = next

Empty == Item("empty", 0)
Stop  == Item("stop", handled)

(* getpacket looks for a packet or a ^C and says - to a damaged packet.    *)
Skip ==
    /\ at = "get"
    /\ GetDebugChar({"+", "-"})
    /\ UNCHANGED <<gdbvars, down, servervars, faults, setting>>

Refuse ==
    /\ at = "get"
    /\ GetDebugChar({"bad"})
    /\ down' = Append(down, Minus)
    /\ UNCHANGED <<gdbvars, servervars, faults, setting>>

(* putpacket: every character but a + is a request to send the packet      *)
(* again, so that another packet is as many requests as it has characters. *)
Copies(n) == [i \in 1 .. n |-> reply]

Resend ==
    /\ at = "put" /\ GetDebugChar(Kinds \ {"+"})
    /\ \E n \in IF Char.is \in Frames \cup {"bad"} THEN Lengths ELSE {1} :
            down' = down \o Copies(n)
    /\ UNCHANGED <<gdbvars, servervars, faults, setting>>

Finish(items) ==
    IF then = "stop" THEN Put(Append(items, Stop), "prompt")
    ELSE at' = "get" /\ down' = down \o items /\ UNCHANGED <<reply, then>>

Acked ==
    /\ at = "put" /\ GetDebugChar({"+"})
    /\ Finish(<<>>)
    /\ UNCHANGED <<gdbvars, handled, job, messages, faults, setting>>

(* There may be a + in the packet, as in the data of an X or in a damaged  *)
(* one.  It ends the wait, and the next getpacket skips what is behind it. *)
AckedInside ==
    /\ at = "put" /\ GetDebugChar({"ask", "bad"})
    /\ \E n \in Lengths : \E before \in 1 .. n - 1 : Finish(Copies(before))
    /\ UNCHANGED <<gdbvars, handled, job, messages, faults, setting>>

-----------------------------------------------------------------------------
(* gdb_handle_exception.  A request is dealt with and answered; it may     *)
(* queue a callback.                                                       *)
AtPrompt == at = "get" /\ then = "prompt"

Request ==
    /\ AtPrompt /\ GetDebugChar({"ask"})
    /\ down' = Append(down, Plus)
    /\ at' = "work" /\ reply' = Item("reply", Char.of)
    /\ UNCHANGED <<gdbvars, then, handled, job, messages, faults, setting>>

Work ==
    /\ at = "work"
    /\ handled' = handled + 1
    /\ job' \in {job, TRUE}
    /\ Put(<<reply>>, "prompt")
    /\ UNCHANGED <<gdbvars, up, cache, messages, faults, setting>>

(* c and s: the program runs, or the fake continue begins. *)
Continue ==
    /\ AtPrompt /\ GetDebugChar({"c"})
    /\ handled' = handled + 1
    /\ down' = Append(down, Plus)
    /\ \E fake \in FakeModes : at' = IF fake THEN "fake" ELSE "run"
    /\ UNCHANGED <<gdbvars, reply, then, job, messages, faults, setting>>

(* A ^C removes the callbacks and, like a packet that is not supported, is *)
(* answered with an empty packet.                                          *)
InterruptPrompt ==
    /\ AtPrompt /\ GetDebugChar({"^C"})
    /\ job' = FALSE
    /\ Put(<<Empty>>, "prompt")
    /\ UNCHANGED <<gdbvars, handled, messages, faults, setting>>

Unsupported ==
    /\ AtPrompt /\ GetDebugChar({"m", "F"})
    /\ Put(<<Plus, Empty>>, "prompt")
    /\ UNCHANGED <<gdbvars, handled, job, messages, faults, setting>>

(* gdb_main_loop while the program runs: it stops by itself, or something  *)
(* of gdb has arrived, which stays on the line.                            *)
ProgramStops ==
    /\ at = "run"
    /\ Put(<<Stop>>, "prompt")
    /\ UNCHANGED <<gdbvars, up, cache, handled, job, messages, faults, setting>>

MutInterruptRun ==          \* only by a ^C, whatever stands before it
    /\ at = "run" /\ up # <<>> /\ Head(up) = ETX
    /\ Put(<<Stop>>, "prompt")
    /\ UNCHANGED <<gdbvars, up, cache, handled, job, messages, faults, setting>>

InterruptRun ==
    /\ at = "run" /\ up # <<>>
    /\ Put(<<Stop>>, "prompt")
    /\ UNCHANGED <<gdbvars, up, cache, handled, job, messages, faults, setting>>

-----------------------------------------------------------------------------
(* gdb_handle_fake_continue: a message is offered to gdb, gdb reads it and *)
(* says how much it has written.                                           *)
FakeWrite ==
    /\ at = "fake" /\ messages > 0
    /\ messages' = messages - 1
    /\ Put(<<Item("Fwrite", 0)>>, "write")
    /\ UNCHANGED <<gdbvars, up, cache, handled, job, faults, setting>>

FakeRead ==
    /\ at = "get" /\ then = "write" /\ GetDebugChar({"m"})
    /\ Put(<<Plus, Item("reply", 0)>>, "written")
    /\ UNCHANGED <<gdbvars, handled, job, messages, faults, setting>>

(* Other packets are answered with an empty one, even gdb's word that it   *)
(* could not write.                                                        *)
FakeOther ==
    /\ at = "get" /\ then = "write"
    /\ GetDebugChar(Frames \ {"m"})
    /\ Put(<<Plus, Empty>>, "write")
    /\ UNCHANGED <<gdbvars, handled, job, messages, faults, setting>>

(* So is a ^C, before the fake continue ends. *)
FakeInterrupt ==
    /\ at = "get" /\ then = "write" /\ GetDebugChar({"^C"})
    /\ job' = FALSE
    /\ Put(<<Empty>>, "stop")
    /\ UNCHANGED <<gdbvars, handled, messages, faults, setting>>

(* Whatever comes in place of the F ends the message. *)
FakeWritten ==
    /\ at = "get" /\ then = "written"
    /\ GetDebugChar(Frames \cup {"^C"})
    /\ at' = "fake"
    /\ down' = IF Char.is \in Frames THEN Append(down, Plus) ELSE down
    /\ UNCHANGED <<gdbvars, reply, then, handled, job, messages, faults, setting>>

FakeEnd ==
    /\ at = "fake" /\ messages = 0 /\ ~job
    /\ Put(<<Stop>>, "prompt")
    /\ UNCHANGED <<gdbvars, up, cache, handled, job, messages, faults, setting>>

(* doCallback, wherever the server waits: a job says something or ends.    *)
Waits == at \in {"run", "fake"} \/ ~HasInput

JobSpeaks ==
    /\ job /\ Waits
    /\ messages < Messages /\ messages' = messages + 1
    /\ UNCHANGED <<gdbvars, linevars, at, reply, then, handled, job, faults, setting>>

JobEnds ==
    /\ job /\ Waits
    /\ job' = FALSE
    /\ UNCHANGED <<gdbvars, linevars, at, reply, then, handled, messages, faults, setting>>

-----------------------------------------------------------------------------
(* gdb.  putpkt_binary sends a packet and waits for the +.                 *)
Send(item) ==
    /\ out' = item /\ gdb' = "send" /\ tries' = 0

AskSomething ==
    /\ gdb = "idle" /\ asked < Turns
    /\ asked' = asked + 1
    /\ Send(Item("ask", asked + 1)) /\ up' = Append(up, out')
    /\ UNCHANGED <<took, ctrlc, down, cache, servervars, faults, setting>>

Resume ==
    /\ gdb = "idle" /\ asked < Turns
    /\ user = "careful" => out.is = "ask"
    /\ asked' = asked + 1
    /\ Send(Item("c", asked + 1)) /\ up' = Append(up, out')
    /\ UNCHANGED <<took, ctrlc, down, cache, servervars, faults, setting>>

Hears(kinds) == down # <<>> /\ Head(down).is \in kinds /\ down' = Tail(down)

(* After the last try it goes on as if the packet had been received.       *)
Sent == gdb' = (IF out.is \in {"ask", "m"} THEN "answer" ELSE "wait") /\ tries' = 0

Retry ==
    IF tries = 3 THEN Sent /\ UNCHANGED up
    ELSE up' = Append(up, out) /\ tries' = tries + 1 /\ UNCHANGED gdb

SendAcked ==
    /\ gdb = "send" /\ Hears({"+"})
    /\ Sent
    /\ UNCHANGED <<asked, took, out, ctrlc, up, cache, servervars, faults, setting>>

SendRefused ==
    /\ gdb = "send" /\ Hears({"-"})
    /\ Retry
    /\ UNCHANGED <<asked, took, out, ctrlc, cache, servervars, faults, setting>>

(* A packet in place of the + is an old one: gobbled up. *)
MutSkipFrame ==             \* and taken for the answer
    /\ gdb = "send" /\ Hears(Frames \cup {"bad"})
    /\ gdb' = "idle" /\ took' = Head(down).of
    /\ up' = Append(up, Plus)
    /\ UNCHANGED <<asked, out, tries, ctrlc, cache, servervars, faults, setting>>

SkipFrame ==
    /\ gdb = "send" /\ Hears(Frames \cup {"bad"})
    /\ up' = Append(up, Plus)
    /\ UNCHANGED <<gdbvars, cache, servervars, faults, setting>>

(* Nothing has come for a while and nothing is going to. *)
Quiet == down = <<>> /\ ~HasInput /\ at \in {"get", "put"}

SendTimeout ==
    /\ gdb = "send" /\ Quiet
    /\ Retry
    /\ UNCHANGED <<asked, took, out, ctrlc, down, cache, servervars, faults, setting>>

(* gdb's patience ends before the +: the server has not read the packet,   *)
(* since a callback of a job takes its time, or the + is on its way.       *)
LateAck ==
    /\ gdb = "send"
    /\ line = "busy" /\ faults < MaxFaults[line] /\ faults' = faults + 1
    /\ Retry
    /\ UNCHANGED <<asked, took, out, ctrlc, down, cache, servervars, setting>>

(* getpkt: the next packet is the one at n.                                *)
GetPkt(n, kinds) ==
    /\ n \in DOMAIN down /\ down[n].is \in kinds
    /\ \A i \in 1 .. n - 1 : down[i].is \in {"+", "-"}
    /\ down' = SubSeq(down, n + 1, Len(down))

Complain ==
    IF tries = 2
    THEN /\ up' = up \o <<Minus, Plus>> /\ tries' = 0
         /\ gdb' = IF gdb = "wait" THEN "wait" ELSE "idle"
    ELSE up' = Append(up, Minus) /\ tries' = tries + 1 /\ UNCHANGED gdb

Damaged ==
    /\ gdb \in {"answer", "wait"} /\ \E n \in DOMAIN down : GetPkt(n, {"bad"})
    /\ Complain
    /\ UNCHANGED <<asked, took, out, ctrlc, cache, servervars, faults, setting>>

(* gdb's patience ends before the answer has arrived. *)
Late ==
    /\ gdb = "answer"
    /\ line = "slow" /\ faults < MaxFaults[line] /\ faults' = faults + 1
    /\ Complain
    /\ UNCHANGED <<asked, took, out, ctrlc, down, cache, servervars, setting>>

(* The answer; that to a read while it writes a message is followed by     *)
(* what became of the message.                                             *)
TakeAnswer ==
    /\ gdb = "answer"
    /\ \E n \in DOMAIN down :
        /\ GetPkt(n, Frames)
        /\ IF out.is = "m"
           THEN Send(Item("F", 0)) /\ up' = up \o <<Plus, out'>> /\ UNCHANGED took
           ELSE /\ gdb' = "idle" /\ tries' = 0 /\ took' = down[n].of
                /\ up' = Append(up, Plus) /\ UNCHANGED out
    /\ UNCHANGED <<asked, ctrlc, cache, servervars, faults, setting>>

(* remote_wait_as: the stop ends the wait. *)
Stopped ==
    /\ gdb = "wait"
    /\ \E n \in DOMAIN down : GetPkt(n, {"stop"}) /\ took' = down[n].of
    /\ gdb' = "idle" /\ tries' = 0 /\ ctrlc' = FALSE
    /\ up' = Append(up, Plus)
    /\ UNCHANGED <<asked, out, cache, servervars, faults, setting>>

(* A message is read; if a ^C is on its way, it is refused instead. *)
WriteMessage ==
    /\ gdb = "wait" /\ \E n \in DOMAIN down : GetPkt(n, {"Fwrite"})
    /\ Send(Item(IF ctrlc THEN "F" ELSE "m", 0)) /\ up' = up \o <<Plus, out'>>
    /\ ctrlc' = FALSE
    /\ UNCHANGED <<asked, took, cache, servervars, faults, setting>>

(* Any other packet is an "Invalid remote reply". *)
Invalid ==
    /\ gdb = "wait" /\ \E n \in DOMAIN down : GetPkt(n, {"empty", "reply"})
    /\ ctrlc' = FALSE /\ tries' = 0
    /\ up' = Append(up, Plus)
    /\ UNCHANGED <<asked, took, gdb, out, cache, servervars, faults, setting>>

(* remote_interrupt_as: ^C while gdb waits for the stop. *)
Interrupt ==
    /\ gdb = "wait" /\ ~ctrlc /\ line = "slow"
    /\ user = "careful" => at # "fake" /\ then = "prompt"
    /\ ctrlc' = TRUE
    /\ up' = Append(up, ETX)
    /\ UNCHANGED <<asked, took, gdb, out, tries, down, cache, servervars, faults, setting>>

-----------------------------------------------------------------------------
(* A packet on a line is damaged. *)
Bad(items, i) == [items EXCEPT ![i] = Item("bad", 0)]

Damage ==
    /\ line = "noisy" /\ faults < MaxFaults[line] /\ faults' = faults + 1
    /\ \/ \E i \in DOMAIN up :
              up[i].is \in Frames /\ up' = Bad(up, i) /\ UNCHANGED down
       \/ \E i \in DOMAIN down :
              down[i].is \in Frames /\ down' = Bad(down, i) /\ UNCHANGED up
    /\ UNCHANGED <<gdbvars, cache, servervars, setting>>

Server ==
    \/ Skip \/ Refuse \/ Acked \/ AckedInside \/ Resend
    \/ Request \/ Work \/ Continue \/ InterruptPrompt \/ Unsupported \/ InterruptRun
    \/ FakeWrite \/ FakeRead \/ FakeOther \/ FakeInterrupt \/ FakeWritten \/ FakeEnd

Gdb ==
    \/ SendAcked \/ SendRefused \/ SkipFrame \/ SendTimeout
    \/ Damaged \/ TakeAnswer
    \/ Stopped \/ WriteMessage \/ Invalid

User == AskSomething \/ Resume \/ Interrupt

Next ==
    \/ Server \/ ProgramStops \/ JobSpeaks \/ JobEnds \/ Gdb \/ User
    \/ Damage \/ Late \/ LateAck

Spec == Init /\ [][Next]_vars

(* The server's loops go on, gdb reads what arrives, and a job ends.       *)
FairSpec ==
    /\ Spec
    /\ WF_vars(Server) /\ WF_vars(Gdb) /\ WF_vars(JobEnds)

-----------------------------------------------------------------------------
(* What the protocol bears: two packets damaged or answered late, or one   *)
(* acknowledged late.  (See the README for what more of them do.)          *)
Bearable(kind) == IF kind = "busy" THEN 1 ELSE 2

(* Every request of gdb is dealt with once, and gdb takes the answer to it *)
(* and no other, although packets are sent again for every character that  *)
(* is not a +, and the + for an old packet may be taken for a new one's.   *)
D == INSTANCE Dialogue WITH answered <- took

InStep == D!DialogueSpec

(* While gdb asks or lets its user look at the program, it does not run.   *)
HaltedForGdb ==
    gdb = "idle" \/ (gdb \in {"send", "answer"} /\ out.is = "ask") =>
        at \notin {"run", "fake"}

(* "also poll gdb for <cntr><C> - Interrupt request" (arm_gdbstub.c:1506): *)
(* only a ^C interrupts the running program, if gdb never lost patience    *)
(* and its user looked at the program since it stopped; without that the + *)
(* gdb sends for a stop it had already seen interrupts the next run.       *)
OnlyInterrupts ==
    [][InterruptRun /\ user = "careful" /\ faults = 0 =>
            \E i \in DOMAIN up : up[i] = ETX]_vars

(* gdb is never left waiting for the answer to a request, and a ^C stops   *)
(* the program, unless it is typed during the fake continue, which the     *)
(* server and gdb may then never leave.                                    *)
Served ==
    /\ gdb \in {"send", "answer"} ~> gdb \in {"idle", "wait"}
    /\ (user = "careful" /\ ctrlc) ~> gdb = "idle"
=============================================================================
