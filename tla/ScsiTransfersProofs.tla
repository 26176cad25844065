-------------------------- MODULE ScsiTransfersProofs --------------------------
(***************************************************************************)
(* Theorems about ScsiTransfers, for every set of tasks and of plans and   *)
(* every size of memory.                                                   *)
(*                                                                         *)
(* The argument follows the bytes of a write.  They are asked for by an    *)
(* R2T on its way to the initiator, then left for the initiator to send,   *)
(* then in a Data-Out on its way to the target: in that order the target   *)
(* will find them, and each of these places is a queue.                    *)
(***************************************************************************)
EXTENDS ScsiTransfers, IscsiSessionProofs

-------------------------------------------------------------------------------
(***************************************************************************)
(* Sequences and their elements.                                           *)
(***************************************************************************)
Elements(s) == {s[i] : i \in DOMAIN s}

IsSeq(s) == s \in Seq(Elements(s))

LEMMA SeqFrom ==
  ASSUME NEW S, NEW s \in Seq(S)
  PROVE  IsSeq(s) /\ Elements(s) \subseteq S
  BY DEF IsSeq, Elements

\* A sequence whose first element is taken.
LEMMA SeqTail ==
  ASSUME NEW s, IsSeq(s), s # <<>>
  PROVE  /\ IsSeq(Tail(s)) /\ Len(Tail(s)) = Len(s) - 1
         /\ DOMAIN Tail(s) = 1 .. Len(s) - 1
         /\ \A i \in DOMAIN Tail(s) : i + 1 \in DOMAIN s /\ Tail(s)[i] = s[i + 1]
         /\ Head(s) = s[1] /\ Head(s) \in Elements(s)
         /\ Elements(s) = Elements(Tail(s)) \cup {Head(s)}
  <1> DEFINE S == Elements(s)
             t == Tail(s)
  <1>1. s \in Seq(S) /\ Len(s) \in Nat \ {0} /\ DOMAIN s = 1 .. Len(s)
    BY DEF IsSeq
  <1>2. /\ t \in Seq(S) /\ Len(t) = Len(s) - 1 /\ DOMAIN t = 1 .. Len(s) - 1
        /\ \A i \in 1 .. Len(s) - 1 : t[i] = s[i + 1]
        /\ Head(s) = s[1]
    <2> HIDE DEF S
    <2> QED BY <1>1
  <1> HIDE DEF t
  <1>3. Elements(s) = Elements(t) \cup {s[1]}
    <2>1. ASSUME NEW j \in DOMAIN s, j # 1
          PROVE  j - 1 \in DOMAIN t /\ s[j] = t[j - 1]
      BY <1>1, <1>2, <2>1
    <2> QED BY <1>1, <1>2, <2>1 DEF Elements
  <1>4. IsSeq(t)
    BY <1>2, SeqFrom
  <1>5. s[1] \in Elements(s)
    BY <1>1 DEF Elements
  <1> QED BY <1>1, <1>2, <1>3, <1>4, <1>5 DEF t

\* One sequence behind another.
LEMMA SeqConcat ==
  ASSUME NEW s, IsSeq(s), NEW t, IsSeq(t)
  PROVE  LET u == s \o t
         IN /\ IsSeq(u) /\ Len(u) = Len(s) + Len(t)
            /\ DOMAIN u = 1 .. Len(s) + Len(t)
            /\ \A i \in DOMAIN u :
                 \/ i \in DOMAIN s /\ u[i] = s[i]
                 \/ i - Len(s) \in DOMAIN t /\ u[i] = t[i - Len(s)]
            /\ Elements(u) = Elements(s) \cup Elements(t)
  <1> DEFINE S == Elements(s) \cup Elements(t)
             u == s \o t
  <1>1. /\ s \in Seq(S) /\ Len(s) \in Nat /\ DOMAIN s = 1 .. Len(s)
        /\ t \in Seq(S) /\ Len(t) \in Nat /\ DOMAIN t = 1 .. Len(t)
    BY DEF IsSeq
  <1>2. /\ u \in Seq(S) /\ Len(u) = Len(s) + Len(t)
        /\ DOMAIN u = 1 .. Len(s) + Len(t)
        /\ \A i \in 1 .. Len(s) + Len(t) :
             u[i] = IF i <= Len(s) THEN s[i] ELSE t[i - Len(s)]
    <2> HIDE DEF S
    <2> QED BY <1>1
  <1> HIDE DEF u
  <1>3. \A i \in DOMAIN u :
          \/ i \in DOMAIN s /\ u[i] = s[i]
          \/ i - Len(s) \in DOMAIN t /\ u[i] = t[i - Len(s)]
    BY <1>1, <1>2
  <1>4. Elements(u) = Elements(s) \cup Elements(t)
    <2>1. ASSUME NEW j \in DOMAIN t
          PROVE  Len(s) + j \in DOMAIN u /\ t[j] = u[Len(s) + j]
      BY <1>1, <1>2
    <2>2. Elements(u) \subseteq Elements(s) \cup Elements(t)
      BY <1>3 DEF Elements
    <2>3. Elements(t) \subseteq Elements(u)
      BY <2>1 DEF Elements
    <2>4. ASSUME NEW j \in DOMAIN s PROVE j \in DOMAIN u /\ s[j] = u[j]
      BY <1>1, <1>2
    <2>5. Elements(s) \subseteq Elements(u)
      BY <2>4 DEF Elements
    <2> QED BY <2>2, <2>3, <2>5
  <1>5. IsSeq(u)
    BY <1>2, SeqFrom
  <1> QED BY <1>2, <1>3, <1>4, <1>5 DEF u

LEMMA SeqOne ==
  ASSUME NEW x
  PROVE  IsSeq(<<x>>) /\ Elements(<<x>>) = {x} /\ Len(<<x>>) = 1
         /\ DOMAIN <<x>> = 1 .. 1 /\ <<x>>[1] = x
  <1>1. DOMAIN <<x>> = 1 .. 1 /\ <<x>>[1] = x /\ Len(<<x>>) = 1
    OBVIOUS
  <1>2. Elements(<<x>>) = {x}
    BY <1>1 DEF Elements
  <1>3. <<x>> \in Seq({x})
    <2> DEFINE S == {x}
    <2>1. x \in S
      OBVIOUS
    <2> HIDE DEF S
    <2>2. <<x>> \in Seq(S)
      BY <2>1
    <2> QED BY <2>2 DEF S
  <1> QED BY <1>1, <1>2, <1>3, SeqFrom

\* A sequence with one more element.
LEMMA SeqAppend ==
  ASSUME NEW s, IsSeq(s), NEW x
  PROVE  /\ IsSeq(Append(s, x)) /\ Len(Append(s, x)) = Len(s) + 1
         /\ DOMAIN Append(s, x) = 1 .. Len(s) + 1 /\ DOMAIN s = 1 .. Len(s)
         /\ Len(s) \in Nat
         /\ \A i \in DOMAIN s : Append(s, x)[i] = s[i]
         /\ Append(s, x)[Len(s) + 1] = x
         /\ Elements(Append(s, x)) = Elements(s) \cup {x}
  <1> DEFINE S == Elements(s) \cup {x}
             t == Append(s, x)
  <1>1. s \in Seq(S) /\ x \in S /\ Len(s) \in Nat /\ DOMAIN s = 1 .. Len(s)
    BY DEF IsSeq
  <1>2. /\ t \in Seq(S) /\ Len(t) = Len(s) + 1 /\ DOMAIN t = 1 .. Len(s) + 1
        /\ \A i \in 1 .. Len(s) : t[i] = s[i]
        /\ t[Len(s) + 1] = x
    <2> HIDE DEF S
    <2> QED BY <1>1
  <1> HIDE DEF t
  <1>3. Elements(t) = Elements(s) \cup {x}
    BY <1>1, <1>2 DEF Elements
  <1>4. IsSeq(t)
    BY <1>2, SeqFrom
  <1> QED BY <1>1, <1>2, <1>3, <1>4 DEF t

\* Sequences with the same elements in the same places are the same.
LEMMA SeqEqual ==
  ASSUME NEW S, NEW s \in Seq(S), NEW t \in Seq(S), Len(s) = Len(t),
         \A i \in 1 .. Len(s) : s[i] = t[i]
  PROVE  s = t
  <1>1. s = [i \in 1 .. Len(s) |-> s[i]] /\ t = [i \in 1 .. Len(t) |-> t[i]]
    OBVIOUS
  <1> QED BY <1>1

LEMMA ConcatAt ==
  ASSUME NEW S, NEW s \in Seq(S), NEW t \in Seq(S)
  PROVE  /\ s \o t \in Seq(S) /\ Len(s \o t) = Len(s) + Len(t)
         /\ \A i \in 1 .. Len(s) : (s \o t)[i] = s[i]
         /\ \A i \in 1 .. Len(t) : (s \o t)[Len(s) + i] = t[i]
  OBVIOUS

\* When n elements of t have moved behind r, and the first of these is taken, then
\* the first of all was taken.
LEMMA SeqShift ==
  ASSUME NEW r, IsSeq(r), NEW t, IsSeq(t), NEW n \in 0 .. Len(t),
         r \o SubSeq(t, 1, n) # <<>>
  PROVE  LET moved == r \o SubSeq(t, 1, n)
             rest == SubSeq(t, n + 1, Len(t))
         IN /\ IsSeq(Tail(moved)) /\ IsSeq(rest)
            /\ r \o t # <<>>
            /\ Head(moved) = Head(r \o t)
            /\ Tail(moved) \o rest = Tail(r \o t)
  <1> DEFINE S == Elements(r) \cup Elements(t)
             first == SubSeq(t, 1, n)
             rest == SubSeq(t, n + 1, Len(t))
             moved == r \o first
             all == r \o t
  <1>1. /\ r \in Seq(S) /\ Len(r) \in Nat /\ t \in Seq(S) /\ Len(t) \in Nat
    BY DEF IsSeq
  <1> HIDE DEF S
  <1>2. /\ first \in Seq(S) /\ Len(first) = n /\ \A i \in 1 .. n : first[i] = t[i]
    BY <1>1
  <1>3. /\ rest \in Seq(S) /\ Len(rest) = Len(t) - n
        /\ \A i \in 1 .. Len(t) - n : rest[i] = t[n + i]
    BY <1>1
  <1> HIDE DEF first, rest
  <1>4. /\ moved \in Seq(S) /\ Len(moved) = Len(r) + n
        /\ \A i \in 1 .. Len(r) : moved[i] = r[i]
        /\ \A i \in 1 .. n : moved[Len(r) + i] = t[i]
    BY <1>1, <1>2
  <1>5. /\ all \in Seq(S) /\ Len(all) = Len(r) + Len(t)
        /\ \A i \in 1 .. Len(r) : all[i] = r[i]
        /\ \A i \in 1 .. Len(t) : all[Len(r) + i] = t[i]
    BY <1>1
  <1>6. moved # <<>>
    BY DEF first
  <1> HIDE DEF moved, all
  <1>7. Len(r) + n \in Nat \ {0} /\ n \in Nat
    BY <1>1, <1>4, <1>6
  <1>8. \A i \in 1 .. Len(r) + n : moved[i] = all[i]
    <2> TAKE i \in 1 .. Len(r) + n
    <2>1. CASE i \in 1 .. Len(r)
      BY <1>4, <1>5, <2>1
    <2>2. CASE i \notin 1 .. Len(r)
      <3>1. i - Len(r) \in 1 .. n /\ i - Len(r) \in 1 .. Len(t)
        BY <1>1, <1>7, <2>2
      <3>2. moved[Len(r) + (i - Len(r))] = all[Len(r) + (i - Len(r))]
        BY <1>4, <1>5, <3>1
      <3> QED BY <1>1, <3>2
    <2> QED BY <2>1, <2>2
  <1>9. all # <<>> /\ Head(moved) = moved[1] /\ Head(all) = all[1]
    BY <1>1, <1>4, <1>5, <1>6, <1>7
  <1>10. /\ Tail(moved) \in Seq(S) /\ Len(Tail(moved)) = Len(r) + n - 1
         /\ \A i \in 1 .. Len(r) + n - 1 : Tail(moved)[i] = moved[i + 1]
    BY <1>1, <1>4, <1>6, <1>7
  <1>11. /\ Tail(all) \in Seq(S) /\ Len(Tail(all)) = Len(r) + Len(t) - 1
         /\ \A i \in 1 .. Len(r) + Len(t) - 1 : Tail(all)[i] = all[i + 1]
    BY <1>1, <1>5, <1>7, <1>9
  <1> DEFINE tail == Tail(moved)
             joined == tail \o rest
  <1>12. /\ joined \in Seq(S) /\ Len(joined) = Len(r) + Len(t) - 1
         /\ \A i \in 1 .. Len(r) + n - 1 : joined[i] = tail[i]
         /\ \A i \in 1 .. Len(t) - n : joined[Len(r) + n - 1 + i] = rest[i]
    <2>1. tail \in Seq(S) /\ Len(tail) = Len(r) + n - 1
      BY <1>10
    <2>2. Len(tail) \in Nat /\ Len(rest) \in Nat
      BY <1>1, <1>3, <1>7, <2>1
    <2> HIDE DEF tail
    <2>3. /\ joined \in Seq(S) /\ Len(joined) = Len(tail) + Len(rest)
          /\ \A i \in 1 .. Len(tail) : joined[i] = tail[i]
          /\ \A i \in 1 .. Len(rest) : joined[Len(tail) + i] = rest[i]
      <3>1. tail \in Seq(S) /\ rest \in Seq(S)
        BY ONLY <1>3, <2>1
      <3> QED BY ONLY <3>1, ConcatAt
    <2>4. Len(tail) + Len(rest) = Len(r) + Len(t) - 1
      BY <1>1, <1>3, <1>7, <2>1
    <2> HIDE DEF joined
    <2> QED BY ONLY <1>3, <2>1, <2>3, <2>4
  <1> HIDE DEF joined
  <1>13. \A i \in 1 .. Len(r) + Len(t) - 1 : joined[i] = Tail(all)[i]
    <2> TAKE i \in 1 .. Len(r) + Len(t) - 1
    <2>1. CASE i \in 1 .. Len(r) + n - 1
      <3>1. i + 1 \in 1 .. Len(r) + n
        BY <1>1, <1>7, <2>1
      <3> QED BY <1>8, <1>10, <1>11, <1>12, <2>1, <3>1
    <2>2. CASE i \notin 1 .. Len(r) + n - 1
      <3> DEFINE k == i - (Len(r) + n - 1)
      <3>1. k \in 1 .. Len(t) - n /\ n + k \in 1 .. Len(t)
        BY <1>1, <1>7, <2>2
      <3>2. Len(r) + n - 1 + k = i /\ Len(r) + (n + k) = i + 1
        BY <1>1, <1>7
      <3>3. joined[Len(r) + n - 1 + k] = t[n + k] /\ all[Len(r) + (n + k)] = t[n + k]
        BY <1>3, <1>5, <1>12, <3>1
      <3> QED BY <1>11, <3>2, <3>3
    <2> QED BY <2>1, <2>2
  <1>14. joined = Tail(all)
    BY ONLY <1>11, <1>12, <1>13, SeqEqual
  <1>15. IsSeq(Tail(moved)) /\ IsSeq(rest)
    BY <1>3, <1>10, SeqFrom
  <1>16. Head(moved) = Head(all)
    BY <1>7, <1>8, <1>9
  <1> QED BY <1>9, <1>14, <1>15, <1>16 DEF moved, all, first, rest, joined

-------------------------------------------------------------------------------
(***************************************************************************)
(* The invariant.                                                          *)
(***************************************************************************)
\* R2Ts and Data-Outs move bytes of a write.
Moves(x) == x.opcode \in {"R2T", "SCSI_DATA_OUT"}
Length(x) == IF x.opcode = "R2T" THEN x.length ELSE x.dsl
End(x) == x.offset + Length(x)

\* What the initiator still has to send for an R2T when it has sent n bytes.
Rest(r2t, n) ==
  [opcode |-> "R2T", task |-> r2t.task, tag |-> r2t.tag,
   offset |-> r2t.offset + n, length |-> r2t.length - n]

LeftOf(r2ts, n) ==
  [j \in DOMAIN r2ts |-> Rest(r2ts[j], IF j = 1 THEN n ELSE 0)]

\* The three queues: what the target has yet to process, what the initiator has yet
\* to send, what it has yet to read.
Pending == received \o toTarget
Left == LeftOf(initiator.r2ts, initiator.served)

Movers ==
  {x \in Elements(Pending) \cup Elements(Left) \cup Elements(toInitiator) : Moves(x)}

\* The bytes y moves are behind those x moves, if they are of the same write.
Follows(x, y) == Moves(x) /\ Moves(y) /\ x.task = y.task => End(x) <= y.offset

\* No command comes twice, and none is completed twice.
Differs(x, y) ==
  /\ x.opcode = "SCSI_CMD" /\ y.opcode = "SCSI_CMD" => x.task # y.task
  /\ Completes(x) /\ Completes(y) => x.task # y.task

Ordered(x, y) == Follows(x, y) /\ Differs(x, y)

Sorted(s) == \A i, j \in DOMAIN s : i < j => Ordered(s[i], s[j])
Before(s, t) == \A x \in Elements(s), y \in Elements(t) : Follows(x, y)

\* The bytes of a write will reach the target from its first to its last.
InOrder ==
  /\ Sorted(Pending) /\ Sorted(Left) /\ Sorted(toInitiator)
  /\ Before(Pending, Left) /\ Before(Pending, toInitiator) /\ Before(Left, toInitiator)

\* The tasks given to the device.
Ran == {executed[i].cdb.task : i \in DOMAIN executed}

Immediate(t) == plan.workload[t].dsl
Total(t) == plan.workload[t].edtl

\* What moves belongs to a write that was sent, and lies in its data behind the
\* immediate data.  The tag of the transfer entry is that of its own command, which
\* the device was not given yet.
IsMover(x) ==
  /\ x.task \in initiator.sent /\ Write(x.task)
  /\ x.tag \in 1 .. session.transfer_tag
  /\ x.offset \in Nat /\ Length(x) \in Nat \ {0}
  /\ Immediate(x.task) <= x.offset /\ End(x) <= Total(x.task)
  /\ x.tag = entry.transfer_tag => x.task = entry.cdb.task /\ x.task \notin Ran

MoversRight == \A x \in Movers : IsMover(x)

Covers(x, o) == x.tag = entry.transfer_tag /\ x.offset <= o /\ o < End(x)
Beyond(o) == \A x \in Movers : x.tag = entry.transfer_tag => End(x) <= o

\* Each byte of the write in the transfer entry is in the entry, or on its way, or
\* behind all that was asked for.
EntryRight ==
  entry.transfer_tag # 0 =>
    /\ FullFeature /\ Normal
    /\ entry.cdb.task \in initiator.sent /\ Write(entry.cdb.task)
    /\ entry.cdb = Cdb(ScsiCommand(entry.cdb.task))
    /\ entry.total_length = Total(entry.cdb.task)
    /\ \A o \in Immediate(entry.cdb.task) .. Total(entry.cdb.task) - 1 :
         \/ entry.data[o] = entry.cdb.task
         \/ \E x \in Movers : Covers(x, o)
         \/ Beyond(o)

\* A command on its way was not given to the device, and nothing was asked of it.
CommandsRight ==
  \A x \in Elements(Pending) :
    x.opcode = "SCSI_CMD" =>
      /\ x.task \in initiator.sent \ Ran
      /\ x = ScsiCommand(x.task)
      /\ \A y \in Movers : y.task # x.task
      /\ initiator.asked[x.task] = {}
      /\ entry.transfer_tag # 0 => entry.cdb.task # x.task

\* Only what the device was given is answered, and once.  The target sends no Data-Out.
AnswersRight ==
  /\ initiator.answers \in [Tasks -> {0, 1}]
  /\ \A t \in Tasks : initiator.answers[t] = 1 => t \in Ran
  /\ \A x \in Elements(toInitiator) :
       /\ x.opcode # "SCSI_DATA_OUT"
       /\ Completes(x) => x.task \in Ran /\ initiator.answers[x.task] = 0

\* The device was given each command once, and a write with its data.
WholeWrite(t) == Write(t) /\ Immediate(t) = 0 /\ Total(t) > 0

ExecutedRight ==
  /\ IsSeq(executed)
  /\ \A i \in DOMAIN executed :
       /\ executed[i].cdb.task \in initiator.sent
       /\ WholeWrite(executed[i].cdb.task) => executed[i].data = {executed[i].cdb.task}
  /\ \A i, j \in DOMAIN executed : i # j => executed[i].cdb.task # executed[j].cdb.task

\* The ranges asked for lie behind the immediate data, apart from each other, and
\* before those that the R2Ts on their way ask for.
AskedRight ==
  \A t \in Tasks :
    /\ initiator.asked[t] # {} => t \in initiator.sent
    /\ \A r \in initiator.asked[t] :
         /\ r[1] \in Nat /\ r[2] \in Nat \ {0}
         /\ Immediate(t) <= r[1] /\ r[1] + r[2] <= Total(t)
         /\ \A y \in Elements(toInitiator) :
              y.opcode = "R2T" /\ y.task = t => r[1] + r[2] <= y.offset
    /\ \A r, s \in initiator.asked[t] :
         r # s => r[1] + r[2] <= s[1] \/ s[1] + s[2] <= r[1]

\* The login is under way, or is over.
Unstarted ==
  /\ Pending = <<Login(plan.maxRecv, plan.maxR2T)>>
  /\ ~connection.session_reference /\ session.transfer_tag = 0
  /\ entry.transfer_tag = 0 /\ executed = <<>>
  /\ initiator.cmdSN = 0 /\ initiator.maxCmdSN = -1 /\ initiator.r2ts = <<>>
  /\ toInitiator = <<>>

Started ==
  \A x \in Elements(Pending) :
    \/ x.opcode = "SCSI_CMD"
    \/ x.opcode = "SCSI_DATA_OUT" /\ x.cmdSN = 0

\* Data-Outs have no CmdSN, and are never taken for out of order.
NeverIgnored == session.command_numbering_start => session.ExpCmdSN = 0

HasFields(i) ==
  i = [cmdSN |-> i.cmdSN, maxCmdSN |-> i.maxCmdSN, sent |-> i.sent,
       answers |-> i.answers, r2ts |-> i.r2ts, served |-> i.served,
       asked |-> i.asked]

IsInitiator(i) ==
  /\ HasFields(i)
  /\ i.sent \subseteq Tasks /\ IsSeq(i.r2ts)
  /\ \A r \in Elements(i.r2ts) : r.offset \in Nat /\ r.length \in Nat
  /\ i.served \in Nat /\ (i.r2ts = <<>> => i.served = 0)
  /\ i.asked = [t \in Tasks |-> i.asked[t]]

Channels ==
  /\ plan \in Plans /\ IsInitiator(initiator)
  /\ IsSeq(received) /\ IsSeq(toTarget) /\ IsSeq(toInitiator)

TInv ==
  /\ SentInv /\ Channels /\ NeverIgnored /\ (Unstarted \/ Started)
  /\ InOrder /\ MoversRight /\ EntryRight /\ CommandsRight
  /\ AnswersRight /\ ExecutedRight /\ AskedRight

-------------------------------------------------------------------------------
(***************************************************************************)
(* The queues.                                                             *)
(***************************************************************************)
LEMMA SortedAppend ==
  ASSUME NEW s, IsSeq(s), Sorted(s), NEW x, \A y \in Elements(s) : Ordered(y, x)
  PROVE  Sorted(Append(s, x))
  <1> DEFINE t == Append(s, x)
  <1>1. /\ DOMAIN t = 1 .. Len(s) + 1 /\ DOMAIN s = 1 .. Len(s) /\ Len(s) \in Nat
        /\ \A i \in DOMAIN s : t[i] = s[i]
        /\ t[Len(s) + 1] = x
    BY SeqAppend
  <1> HIDE DEF t
  <1>2. ASSUME NEW i \in DOMAIN t, NEW j \in DOMAIN t, i < j
        PROVE  Ordered(t[i], t[j])
    <2>1. i \in DOMAIN s /\ t[i] = s[i] /\ s[i] \in Elements(s)
      BY <1>1, <1>2 DEF Elements
    <2>2. CASE j \in DOMAIN s
      <3>1. t[j] = s[j] /\ Ordered(s[i], s[j])
        BY <1>1, <1>2, <2>1, <2>2 DEF Sorted
      <3> QED BY <2>1, <3>1
    <2>3. CASE j \notin DOMAIN s
      <3>1. j = Len(s) + 1
        BY <1>1, <2>3
      <3> QED BY <1>1, <2>1, <3>1
    <2> QED BY <2>2, <2>3
  <1> QED BY <1>2 DEF Sorted, t

LEMMA SortedConcat ==
  ASSUME NEW s, IsSeq(s), Sorted(s), NEW t, IsSeq(t), Sorted(t),
         \A x \in Elements(s), y \in Elements(t) : Ordered(x, y)
  PROVE  Sorted(s \o t)
  <1> DEFINE u == s \o t
  <1>1. /\ DOMAIN u = 1 .. Len(s) + Len(t)
        /\ \A i \in DOMAIN u :
             \/ i \in DOMAIN s /\ u[i] = s[i]
             \/ i - Len(s) \in DOMAIN t /\ u[i] = t[i - Len(s)]
    BY SeqConcat
  <1>2. DOMAIN s = 1 .. Len(s) /\ Len(s) \in Nat /\ DOMAIN t = 1 .. Len(t) /\ Len(t) \in Nat
    BY DEF IsSeq
  <1> HIDE DEF u
  <1>3. ASSUME NEW i \in DOMAIN u, NEW j \in DOMAIN u, i < j
        PROVE  Ordered(u[i], u[j])
    <2>1. CASE i \in DOMAIN s /\ u[i] = s[i] /\ j \in DOMAIN s /\ u[j] = s[j]
      BY <1>3, <2>1 DEF Sorted
    <2>2. CASE /\ i \in DOMAIN s /\ u[i] = s[i]
               /\ j - Len(s) \in DOMAIN t /\ u[j] = t[j - Len(s)]
      <3>1. s[i] \in Elements(s) /\ t[j - Len(s)] \in Elements(t)
        BY <2>2 DEF Elements
      <3> QED BY <2>2, <3>1
    <2>3. CASE /\ i - Len(s) \in DOMAIN t /\ u[i] = t[i - Len(s)]
               /\ j - Len(s) \in DOMAIN t /\ u[j] = t[j - Len(s)]
      <3>1. i - Len(s) < j - Len(s)
        BY <1>1, <1>2, <1>3
      <3> QED BY <2>3, <3>1 DEF Sorted
    <2>4. ~(i - Len(s) \in DOMAIN t /\ j \in DOMAIN s)
      BY <1>1, <1>2, <1>3
    <2> QED BY <1>1, <2>1, <2>2, <2>3, <2>4
  <1> QED BY <1>3 DEF Sorted, u

LEMMA SortedTail ==
  ASSUME NEW s, IsSeq(s), Sorted(s), s # <<>>
  PROVE  Sorted(Tail(s)) /\ \A y \in Elements(Tail(s)) : Ordered(Head(s), y)
  <1> DEFINE t == Tail(s)
  <1>1. /\ DOMAIN t = 1 .. Len(s) - 1 /\ Head(s) = s[1]
        /\ \A i \in DOMAIN t : i + 1 \in DOMAIN s /\ t[i] = s[i + 1]
    BY SeqTail
  <1>2. Len(s) \in Nat /\ DOMAIN s = 1 .. Len(s)
    BY DEF IsSeq
  <1> HIDE DEF t
  <1>3. ASSUME NEW i \in DOMAIN t, NEW j \in DOMAIN t, i < j
        PROVE  Ordered(t[i], t[j])
    <2>1. i + 1 < j + 1
      BY <1>1, <1>2, <1>3
    <2>2. Ordered(s[i + 1], s[j + 1])
      BY <1>1, <2>1 DEF Sorted
    <2> QED BY <1>1, <2>2
  <1>4. ASSUME NEW i \in DOMAIN t PROVE Ordered(Head(s), t[i])
    <2>1. 1 \in DOMAIN s /\ 1 < i + 1
      BY <1>1, <1>2
    <2>2. Ordered(s[1], s[i + 1])
      BY <1>1, <2>1 DEF Sorted
    <2> QED BY <1>1, <2>2
  <1> QED BY <1>3, <1>4 DEF Sorted, Elements, t

\* What is left of each R2T.
LEMMA LeftSeq ==
  ASSUME NEW r2ts, IsSeq(r2ts), NEW n
  PROVE  LET left == LeftOf(r2ts, n)
         IN /\ IsSeq(left) /\ Len(left) = Len(r2ts)
            /\ DOMAIN left = 1 .. Len(r2ts) /\ Len(r2ts) \in Nat
            /\ \A j \in 1 .. Len(r2ts) :
                 left[j] = Rest(r2ts[j], IF j = 1 THEN n ELSE 0)
  <1> DEFINE left == LeftOf(r2ts, n)
             S == Elements(left)
  <1>1. Len(r2ts) \in Nat /\ DOMAIN r2ts = 1 .. Len(r2ts)
    BY DEF IsSeq
  <1>2. /\ left = [j \in 1 .. Len(r2ts) |-> left[j]]
        /\ DOMAIN left = 1 .. Len(r2ts)
        /\ \A j \in 1 .. Len(r2ts) :
             left[j] = Rest(r2ts[j], IF j = 1 THEN n ELSE 0)
    BY <1>1 DEF LeftOf
  <1> HIDE DEF left
  <1>3. \A j \in 1 .. Len(r2ts) : left[j] \in S
    BY <1>2 DEF Elements
  <1> HIDE DEF S
  <1>4. left \in Seq(S) /\ Len(left) = Len(r2ts)
    BY <1>1, <1>2, <1>3
  <1> QED BY <1>1, <1>2, <1>4, SeqFrom DEF left

\* An R2T arrives.
LEMMA LeftAppend ==
  ASSUME NEW r2ts, IsSeq(r2ts), NEW n, r2ts = <<>> => n = 0, NEW r
  PROVE  LeftOf(Append(r2ts, r), n) = Append(LeftOf(r2ts, n), Rest(r, 0))
  <1> DEFINE left == LeftOf(r2ts, n)
             more == LeftOf(Append(r2ts, r), n)
             appended == Append(left, Rest(r, 0))
             S == Elements(more) \cup Elements(appended)
  <1>1. /\ IsSeq(left) /\ Len(left) = Len(r2ts) /\ Len(r2ts) \in Nat
        /\ \A j \in 1 .. Len(r2ts) : left[j] = Rest(r2ts[j], IF j = 1 THEN n ELSE 0)
    BY LeftSeq
  <1>2. /\ IsSeq(Append(r2ts, r)) /\ Len(Append(r2ts, r)) = Len(r2ts) + 1
        /\ \A j \in 1 .. Len(r2ts) : Append(r2ts, r)[j] = r2ts[j]
        /\ Append(r2ts, r)[Len(r2ts) + 1] = r
    BY SeqAppend
  <1>3. /\ IsSeq(more) /\ Len(more) = Len(r2ts) + 1
        /\ \A j \in 1 .. Len(r2ts) + 1 :
             more[j] = Rest(Append(r2ts, r)[j], IF j = 1 THEN n ELSE 0)
    <2> DEFINE longer == Append(r2ts, r)
    <2>1. IsSeq(longer) /\ Len(longer) = Len(r2ts) + 1
      BY <1>2
    <2> HIDE DEF longer
    <2>2. LET l == LeftOf(longer, n)
          IN /\ IsSeq(l) /\ Len(l) = Len(longer)
             /\ \A j \in 1 .. Len(longer) : l[j] = Rest(longer[j], IF j = 1 THEN n ELSE 0)
      BY ONLY <2>1, LeftSeq
    <2> QED BY ONLY <2>1, <2>2 DEF longer
  <1>4. Len(r2ts) = 0 => n = 0
    BY DEF IsSeq
  <1> HIDE DEF left, more
  <1>5. /\ IsSeq(appended) /\ Len(appended) = Len(r2ts) + 1
        /\ \A j \in 1 .. Len(r2ts) : appended[j] = left[j]
        /\ appended[Len(r2ts) + 1] = Rest(r, 0)
    <2> HIDE DEF appended
    <2> QED BY <1>1, SeqAppend DEF appended
  <1> HIDE DEF appended
  <1>6. ASSUME NEW j \in 1 .. Len(r2ts) + 1 PROVE more[j] = appended[j]
    <2>1. CASE j \in 1 .. Len(r2ts)
      BY <1>1, <1>2, <1>3, <1>5, <2>1
    <2>2. CASE j \notin 1 .. Len(r2ts)
      <3>1. j = Len(r2ts) + 1
        BY <1>1, <2>2
      <3>2. (IF j = 1 THEN n ELSE 0) = 0
        BY <1>1, <1>4, <3>1
      <3> QED BY <1>2, <1>3, <1>5, <3>1, <3>2
    <2> QED BY <2>1, <2>2
  <1>7. more \in Seq(S) /\ appended \in Seq(S)
    BY <1>3, <1>5 DEF IsSeq
  <1> HIDE DEF S
  <1> QED BY <1>3, <1>5, <1>6, <1>7, SeqEqual DEF more, appended, left

\* The first R2T is the one being served.
LEMMA LeftTail ==
  ASSUME NEW r2ts, IsSeq(r2ts), r2ts # <<>>, NEW n
  PROVE  LET left == LeftOf(r2ts, n)
             others == LeftOf(Tail(r2ts), 0)
         IN /\ IsSeq(left) /\ left # <<>> /\ Head(left) = Rest(Head(r2ts), n)
            /\ IsSeq(others) /\ Tail(left) = others
            /\ Elements(left) = {Rest(Head(r2ts), n)} \cup Elements(others)
  <1> DEFINE left == LeftOf(r2ts, n)
             others == LeftOf(Tail(r2ts), 0)
             S == Elements(Tail(left)) \cup Elements(others)
  <1>1. /\ IsSeq(left) /\ Len(left) = Len(r2ts) /\ Len(r2ts) \in Nat
        /\ \A j \in 1 .. Len(r2ts) : left[j] = Rest(r2ts[j], IF j = 1 THEN n ELSE 0)
    BY LeftSeq
  <1>2. Len(r2ts) # 0
    BY DEF IsSeq
  <1>3. /\ IsSeq(Tail(r2ts)) /\ Len(Tail(r2ts)) = Len(r2ts) - 1
        /\ DOMAIN Tail(r2ts) = 1 .. Len(r2ts) - 1
        /\ \A i \in DOMAIN Tail(r2ts) : Tail(r2ts)[i] = r2ts[i + 1]
        /\ Head(r2ts) = r2ts[1]
    BY SeqTail
  <1>4. /\ IsSeq(others) /\ Len(others) = Len(r2ts) - 1
        /\ \A j \in 1 .. Len(r2ts) - 1 : others[j] = Rest(Tail(r2ts)[j], 0)
    <2>1. \A j \in 1 .. Len(r2ts) - 1 :
            others[j] = Rest(Tail(r2ts)[j], IF j = 1 THEN 0 ELSE 0)
      BY <1>3, LeftSeq
    <2>2. IsSeq(others) /\ Len(others) = Len(r2ts) - 1
      BY <1>3, LeftSeq
    <2> QED BY <2>1, <2>2
  <1> HIDE DEF left, others
  <1>5. left # <<>>
    BY <1>1, <1>2
  <1>6. /\ IsSeq(Tail(left)) /\ Len(Tail(left)) = Len(r2ts) - 1
        /\ \A i \in 1 .. Len(r2ts) - 1 : Tail(left)[i] = left[i + 1]
        /\ Head(left) = left[1] /\ Elements(left) = Elements(Tail(left)) \cup {Head(left)}
    BY <1>1, <1>5, SeqTail
  <1>7. ASSUME NEW i \in 1 .. Len(r2ts) - 1 PROVE Tail(left)[i] = others[i]
    <2>1. i + 1 \in 1 .. Len(r2ts) /\ i + 1 # 1 /\ i \in DOMAIN Tail(r2ts)
      BY <1>1, <1>3
    <2>2. left[i + 1] = Rest(r2ts[i + 1], 0) /\ others[i] = Rest(r2ts[i + 1], 0)
      BY <1>1, <1>3, <1>4, <2>1
    <2> QED BY <1>6, <2>2
  <1>8. Tail(left) \in Seq(S) /\ others \in Seq(S)
    BY <1>4, <1>6 DEF IsSeq
  <1> HIDE DEF S
  <1>9. Tail(left) = others
    BY <1>4, <1>6, <1>7, <1>8, SeqEqual
  <1>10. left[1] = Rest(Head(r2ts), n)
    BY <1>1, <1>2, <1>3
  <1> QED BY <1>1, <1>4, <1>5, <1>6, <1>9, <1>10 DEF left, others

-------------------------------------------------------------------------------
(***************************************************************************)
(* What the target does with a command or a Data-Out.                      *)
(***************************************************************************)
NamesEntry(p) == p.opcode = "SCSI_DATA_OUT" /\ p.tag = entry.transfer_tag

\* Responses that neither ask for data nor complete a command, and responses that
\* complete one command.
IsResponse(r) == ~Moves(r) /\ r.opcode # "SCSI_CMD"

Quiet(rs) == IsSeq(rs) /\ \A r \in Elements(rs) : IsResponse(r) /\ ~Completes(r)

Answering(rs, task) ==
  /\ IsSeq(rs) /\ Sorted(rs)
  /\ \A r \in Elements(rs) : IsResponse(r) /\ (Completes(r) => r.task = task)

EntryKept ==
  /\ entry'.cdb = entry.cdb /\ entry'.total_length = entry.total_length
  /\ entry'.transfer_tag = entry.transfer_tag

\* The PDU is lost, without a trace.
Drops(p) ==
  /\ ~NamesEntry(p)
  /\ UNCHANGED <<entry, executed>>
  /\ session'.transfer_tag = session.transfer_tag
  /\ Quiet(responses')

\* The command takes the transfer entry, and asks for its data.
Asks(p) ==
  /\ p.opcode = "SCSI_CMD" /\ NeedsR2T(p) /\ MaxRecv # 0
  /\ FullFeature /\ Normal
  /\ entry' = iscsi_transfer_entry_create(p)
  /\ UNCHANGED executed
  /\ session'.transfer_tag = Tag
  /\ responses' = R2Ts(p)

\* The command is given to the device at once.
Runs(p) ==
  /\ p.opcode = "SCSI_CMD" /\ ~NeedsR2T(p)
  /\ UNCHANGED entry
  /\ \E data : executed' = Append(executed, [cdb |-> Cdb(p), data |-> data])
  /\ session'.transfer_tag \in {session.transfer_tag, Tag}
  /\ Answering(responses', p.task)

\* The data is stored, and was not the last.
Stores(p) ==
  /\ NamesEntry(p) /\ ~LastDataOut(p)
  /\ EntryKept /\ entry'.data = Stored(p)
  /\ UNCHANGED executed
  /\ session'.transfer_tag = session.transfer_tag
  /\ Quiet(responses')

\* The last data is stored, and the command given to the device.
Finishes(p) ==
  /\ NamesEntry(p) /\ LastDataOut(p)
  /\ EntryKept /\ entry'.data = Stored(p)
  /\ executed' = Append(executed,
       [cdb |-> entry.cdb, data |-> DataOf(entry.cdb, BufferFromEntry(Stored(p)))])
  /\ session'.transfer_tag = session.transfer_tag
  /\ Answering(responses', p.task)

TargetStep(p) == Drops(p) \/ Asks(p) \/ Runs(p) \/ Stores(p) \/ Finishes(p)

\* The PDUs that an initiator sends after its login.
IsRequest(p) ==
  /\ IsPDU(p)
  /\ p.opcode = "SCSI_CMD" \/ (p.opcode = "SCSI_DATA_OUT" /\ p.cmdSN = 0)
  /\ p.opcode = "SCSI_DATA_OUT" => p.tag \in Nat \ {0}
  /\ NamesEntry(p) => FullFeature /\ Normal

LEMMA QuietNone == Quiet(<<>>)
  <1>1. DOMAIN <<>> = {}
    OBVIOUS
  <1>2. <<>> \in Seq({})
    OBVIOUS
  <1>3. Elements(<<>>) = {}
    BY <1>1 DEF Elements
  <1> QED BY <1>2, <1>3 DEF Quiet, IsSeq

LEMMA QuietOne ==
  ASSUME NEW r, r.opcode \notin {"R2T", "SCSI_DATA_OUT", "SCSI_CMD",
                              "SCSI_CMD_RES", "SCSI_DATA_IN"}
  PROVE  Quiet(<<r>>)
  <1>1. IsSeq(<<r>>) /\ Elements(<<r>>) = {r}
    BY SeqOne
  <1> QED BY <1>1 DEF Quiet, IsResponse, Moves, Completes

LEMMA AnsweringNone ==
  ASSUME NEW task
  PROVE  Answering(<<>>, task)
  <1>1. Quiet(<<>>) /\ DOMAIN <<>> = {}
    BY QuietNone
  <1> QED BY <1>1 DEF Quiet, Answering, Sorted

\* A SCSI response completes its command.
LEMMA AnsweringOne ==
  ASSUME NEW c, NEW task, NEW outcome
  PROVE  Answering(CommandResponse(c, task, outcome), task)
  <1> DEFINE r == [opcode |-> "SCSI_CMD_RES", task |-> task, stamp |-> Stamp(c, 0),
                   response |-> IF outcome.ok THEN 0 ELSE 1]
  <1>1. CommandResponse(c, task, outcome) = <<r>>
    BY DEF CommandResponse
  <1>2. r.opcode = "SCSI_CMD_RES" /\ r.task = task
    OBVIOUS
  <1> HIDE DEF r
  <1>3. IsSeq(<<r>>) /\ Elements(<<r>>) = {r} /\ DOMAIN <<r>> = 1 .. 1
    BY SeqOne
  <1>4. Sorted(<<r>>)
    BY <1>3 DEF Sorted
  <1> QED BY <1>1, <1>2, <1>3, <1>4 DEF Answering, IsResponse, Moves

\* So do the Data-Ins of a read: only the last one is final.
LEMMA AnsweringReads ==
  ASSUME NEW p, NEW length, NEW buffer,
         responses' = DataIns(p, length, buffer), DataInsTileTheRead',
         divide_round_up(length, MaxRecv) \in Nat
  PROVE  Answering(responses', p.task)
  <1> DEFINE n == max(1, divide_round_up(length, MaxRecv))
             rs == DataIns(p, length, buffer)
  <1>1. n \in Nat
    BY DEF max
  <1>2. /\ rs = [i \in 1 .. n |-> rs[i]] /\ DOMAIN rs = 1 .. n
        /\ \A i \in 1 .. n : rs[i].opcode = "SCSI_DATA_IN" /\ rs[i].task = p.task
    BY DEF DataIns
  <1>3. \A i \in DOMAIN rs : rs[i].opcode = "SCSI_DATA_IN" => (rs[i].final <=> i = Len(rs))
    BY DEF DataInsTileTheRead
  <1> HIDE DEF n, rs
  <1>4. IsSeq(rs) /\ Len(rs) = n
    <2> DEFINE S == Elements(rs)
    <2>1. \A i \in 1 .. n : rs[i] \in S
      BY <1>2 DEF Elements
    <2> HIDE DEF S
    <2>2. rs \in Seq(S) /\ Len(rs) = n
      BY <1>1, <1>2, <2>1
    <2> QED BY <2>2 DEF IsSeq, S
  <1>5. \A r \in Elements(rs) : IsResponse(r) /\ (Completes(r) => r.task = p.task)
    BY <1>2 DEF Elements, IsResponse, Moves
  <1>6. ASSUME NEW i \in DOMAIN rs, NEW j \in DOMAIN rs, i < j
        PROVE  Ordered(rs[i], rs[j])
    <2>1. rs[i].opcode = "SCSI_DATA_IN" /\ rs[j].opcode = "SCSI_DATA_IN"
      BY <1>2
    <2>2. ~rs[i].final
      BY <1>1, <1>2, <1>3, <1>4, <1>6, <2>1
    <2> QED BY <2>1, <2>2 DEF Ordered, Follows, Differs, Moves, Completes
  <1> QED BY <1>4, <1>5, <1>6 DEF Answering, Sorted, rs

\* A PDU that is numbered leaves Data-Outs valid.
LEMMA NumberedZero ==
  ASSUME IsSession(session), NeverIgnored, NEW p, IsRequest(p)
  PROVE  /\ valid_command_numbering(p)
         /\ Numbered(p).command_numbering_start => Numbered(p).ExpCmdSN = 0
  BY DEF IsSession, NeverIgnored, IsRequest, Numbered, valid_command_numbering,
         Unchecked, iscsi_pdu_has_cmdSN

\* Full feature phase is not left, and the numbering stays where it was.
SessionStays ==
  /\ NeverIgnored'
  /\ (FullFeature /\ Normal) => (FullFeature /\ Normal)'

LEMMA SessionStaysWhen ==
  ASSUME Shape, NeverIgnored, NEW p, IsRequest(p),
         connection'.session_reference = connection.session_reference,
         \/ session' = session \/ session' = Numbered(p)
         \/ session' = [Numbered(p) EXCEPT !.transfer_tag = Tag]
  PROVE  SessionStays
  <1> DEFINE n == Numbered(p)
             tagged == [n EXCEPT !.transfer_tag = Tag]
  <1>1. SameButNumbering(session, n) /\ SameButNumbering(session, tagged)
    BY NumberedKeeps, TagKeeps DEF Shape
  <1>2. n.command_numbering_start => n.ExpCmdSN = 0
    BY NumberedZero DEF Shape
  <1>3. tagged.command_numbering_start => tagged.ExpCmdSN = 0
    <2>1. IsSession(n)
      BY <1>1 DEF SameButNumbering
    <2> HIDE DEF n
    <2> QED BY <1>2, <2>1 DEF IsSession
  <1> HIDE DEF n, tagged
  <1>4. NeverIgnored'
    BY <1>2, <1>3 DEF NeverIgnored, n, tagged
  <1>5. /\ session'.is_full_feature_phase = session.is_full_feature_phase
        /\ session'.is_discovery = session.is_discovery
    BY <1>1 DEF SameButNumbering, n, tagged
  <1> QED BY <1>4, <1>5 DEF SessionStays, FullFeature, Normal

\* A PDU that is answered, if at all, with a response that completes nothing.
LEMMA OtherSteps ==
  ASSUME Shape, NeverIgnored, NEW p, IsRequest(p),
         \/ NotLoggedIn(p) \/ iscsi_request_login_reject(p)
         \/ iscsi_request_reject(p)
  PROVE  TargetStep(p) /\ SessionStays
  <1>0. Quiet(<<>>)
    BY QuietNone
  <1>1. CASE NotLoggedIn(p)
    <2>1. UNCHANGED stateVars /\ responses' = <<>> /\ ~FullFeature
      BY <1>1 DEF NotLoggedIn, Terminate, Finish, FullFeature
    <2>2. Drops(p)
      BY <1>0, <2>1 DEF Drops, IsRequest, stateVars
    <2> QED BY <2>1, <2>2, SessionStaysWhen DEF TargetStep, stateVars
  <1>2. CASE iscsi_request_login_reject(p)
    <2> DEFINE r == LoginResponse("SUCCESS", FALSE, 0, NoStamp, <<>>)
    <2>1. /\ session' = Numbered(p) /\ responses' = <<r>> /\ ~FullFeature
          /\ UNCHANGED <<connection, entry, executed>>
      BY <1>2 DEF iscsi_request_login_reject, Answer, Finish, FullFeature
    <2>2. Quiet(<<r>>)
      BY QuietOne DEF LoginResponse
    <2>3. Drops(p)
      BY <2>1, <2>2, NumberedKeeps DEF Drops, IsRequest, Shape
    <2> QED BY <2>1, <2>3, SessionStaysWhen DEF TargetStep
  <1>3. CASE iscsi_request_reject(p)
    <2> DEFINE r == Response("REJECT", Stamp(connection, 0))
    <2>1. /\ session' = Numbered(p) /\ responses' = <<r>> /\ ~Normal
          /\ connection' = Advance(connection, 1) /\ UNCHANGED <<entry, executed>>
      BY <1>3 DEF iscsi_request_reject, RespondOnce, Answer, Finish, Normal, IsRequest
    <2>2. Quiet(<<r>>)
      BY QuietOne DEF Response
    <2>3. Drops(p)
      BY <2>1, <2>2, NumberedKeeps DEF Drops, IsRequest, Shape
    <2> QED BY <2>1, <2>3, AdvanceKeeps, SessionStaysWhen DEF TargetStep, Shape
  <1> QED BY <1>1, <1>2, <1>3

\* A command.
LEMMA CommandTargetSteps ==
  ASSUME Shape, Types, NeverIgnored, NEW p, IsRequest(p), DataInsTileTheRead',
         iscsi_request_cmd_process(p)
  PROVE  TargetStep(p) /\ SessionStays
  <1>0. /\ p.opcode = "SCSI_CMD" /\ ~NamesEntry(p) /\ FullFeature /\ Normal
        /\ p.edtl \in 0 .. MemorySize /\ MemorySize \in Nat
    BY MemoryAssumption
    DEF iscsi_request_cmd_process, CommandNeedsData, CommandReads,
        CommandWithoutR2T, CommandExits, CommandArrives, Arrives, NamesEntry,
        IsRequest, IsPDU
  <1>a. /\ Advanced.session_reference = connection.session_reference
        /\ IsConnection(Advanced)
        /\ \A n : Advance(Advanced, n).session_reference = connection.session_reference
    BY AdvancedCounts, AdvanceKeeps DEF Shape
  <1>b. [Numbered(p) EXCEPT !.transfer_tag = Tag].transfer_tag = Tag
    BY NumberedKeeps, TagKeeps DEF Shape
  <1>1. CASE CommandNeedsData(p)
    <2>1. Asks(p)
      BY <1>0, <1>b, <1>1 DEF CommandNeedsData, Answer, Finish, Asks
    <2>2. SessionStays
      BY <1>a, <1>1, SessionStaysWhen DEF CommandNeedsData
    <2> QED BY <2>1, <2>2 DEF TargetStep
  <1>2. CASE CommandReads(p)
    <2>1. PICK outcome \in DeviceOutcomes(Cdb(p)) :
            LET buffer == BufferAfter(Cdb(p), outcome, target.buffer)
                rs == DataIns(p, DataInLength(p, outcome), buffer)
            IN /\ iscsi_target_execute_scsi_command(Cdb(p), outcome, target.buffer)
               /\ connection' = Advance(Advanced, Len(rs))
               /\ responses' = rs
      BY <1>2 DEF CommandReads, Answer, Finish
    <2>2. DataInLength(p, outcome) \in Nat
      BY <1>0 DEF DataInLength, DeviceOutcomes, min, Cdb
    <2>3. MaxRecv \in Nat \ {0}
      BY <1>2 DEF CommandReads, Types, IsParameter, IsValue, MaxRecv, Keys, NumberKeys, MinKeys, MaxKeys
    <2>4. divide_round_up(DataInLength(p, outcome), MaxRecv) \in Nat
      <3> DEFINE a == DataInLength(p, outcome)
      <3>1. a \in Nat
        BY <2>2
      <3> HIDE DEF a
      <3>2. divide_round_up(a, MaxRecv) \in Nat
        <4>1. CASE a = 0
          BY <2>3, <4>1 DEF divide_round_up
        <4>2. CASE a # 0
          BY <2>3, <3>1, <4>2, RoundUp
        <4> QED BY <4>1, <4>2
      <3> QED BY <3>2 DEF a
    <2>5. Answering(responses', p.task)
      BY <2>1, <2>4, AnsweringReads
    <2>6. \E data : executed' = Append(executed, [cdb |-> Cdb(p), data |-> data])
      BY <2>1 DEF iscsi_target_execute_scsi_command
    <2>7. ~NeedsR2T(p) /\ UNCHANGED entry /\ session' = [Numbered(p) EXCEPT !.transfer_tag = Tag]
      BY <1>2 DEF CommandReads, NeedsR2T
    <2>8. Runs(p)
      BY <1>0, <1>b, <2>5, <2>6, <2>7 DEF Runs
    <2>9. SessionStays
      BY <1>a, <2>1, <2>7, SessionStaysWhen
    <2> QED BY <2>8, <2>9 DEF TargetStep
  <1>3. CASE CommandWithoutR2T(p)
    <2>1. PICK outcome \in DeviceOutcomes(Cdb(p)) :
            /\ iscsi_target_execute_scsi_command(Cdb(p), outcome, target.buffer)
            /\ responses' = CommandResponse(Advanced, p.task, outcome)
      BY <1>3 DEF CommandWithoutR2T, Answer, Finish
    <2>2. /\ ~NeedsR2T(p) /\ UNCHANGED entry
          /\ connection' = Advance(Advanced, 1)
          /\ session' = [Numbered(p) EXCEPT !.transfer_tag = Tag]
      BY <1>3 DEF CommandWithoutR2T
    <2>3. \E data : executed' = Append(executed, [cdb |-> Cdb(p), data |-> data])
      BY <2>1 DEF iscsi_target_execute_scsi_command
    <2>4. Answering(responses', p.task)
      BY <2>1, AnsweringOne
    <2>5. Runs(p)
      BY <1>0, <1>b, <2>2, <2>3, <2>4 DEF Runs
    <2>6. SessionStays
      BY <1>a, <2>2, SessionStaysWhen
    <2> QED BY <2>5, <2>6 DEF TargetStep
  <1>4. CASE CommandExits(p)
    <2>1. /\ UNCHANGED <<connection, session, entry>> /\ responses' = <<>>
          /\ \/ UNCHANGED executed
             \/ /\ p.kind = "read"
                /\ \E outcome \in DeviceOutcomes(Cdb(p)) :
                     iscsi_target_execute_scsi_command(Cdb(p), outcome, target.buffer)
      BY <1>4 DEF CommandExits, Finish
    <2>2. SessionStays
      BY <2>1, SessionStaysWhen
    <2>3. CASE UNCHANGED executed
      BY <1>0, <2>1, <2>2, <2>3, QuietNone DEF TargetStep, Drops
    <2>4. CASE /\ p.kind = "read"
               /\ \E outcome \in DeviceOutcomes(Cdb(p)) :
                    iscsi_target_execute_scsi_command(Cdb(p), outcome, target.buffer)
      <3>1. ~NeedsR2T(p) /\ \E data : executed' = Append(executed, [cdb |-> Cdb(p), data |-> data])
        BY <2>4 DEF iscsi_target_execute_scsi_command, NeedsR2T
      <3>2. Runs(p)
        BY <1>0, <2>1, <3>1, AnsweringNone DEF Runs
      <3> QED BY <2>2, <3>2 DEF TargetStep
    <2> QED BY <2>1, <2>3, <2>4
  <1> QED BY <1>1, <1>2, <1>3, <1>4 DEF iscsi_request_cmd_process

\* A Data-Out.
LEMMA DataOutTargetSteps ==
  ASSUME Shape, Types, NeverIgnored, NEW p, IsRequest(p),
         iscsi_request_data_out_process(p)
  PROVE  TargetStep(p) /\ SessionStays
  <1>0. p.opcode = "SCSI_DATA_OUT" /\ p.tag # DEFAULT_TARGET_TRANSFER_TAG
    BY DEF iscsi_request_data_out_process, DataOutDropped, DataOutExecutes,
           DataOutStored, HasTransferEntry, Arrives, IsRequest,
           DEFAULT_TARGET_TRANSFER_TAG
  <1>1. CASE DataOutDropped(p)
    <2>1. /\ session' = Numbered(p) /\ responses' = <<>>
          /\ UNCHANGED <<connection, entry, executed>> /\ ~NamesEntry(p)
      BY <1>0, <1>1 DEF DataOutDropped, HasTransferEntry, Answer, Finish, NamesEntry
    <2>2. Drops(p)
      BY <2>1, QuietNone, NumberedKeeps DEF Drops, Shape
    <2> QED BY <2>1, <2>2, SessionStaysWhen DEF TargetStep
  <1>2. CASE DataOutExecutes(p)
    <2> DEFINE data == Stored(p)
               found == DataOf(entry.cdb, BufferFromEntry(Stored(p)))
    <2>1. /\ NamesEntry(p) /\ LastDataOut(p)
          /\ entry' = [entry EXCEPT !.data = data]
          /\ connection' = Advance(connection, 1) /\ session' = Numbered(p)
      BY <1>0, <1>2 DEF DataOutExecutes, HasTransferEntry, NamesEntry
    <2>2. PICK outcome \in DeviceOutcomes(entry.cdb) :
            /\ executed' = Append(executed, [cdb |-> entry.cdb, data |-> found])
            /\ responses' = CommandResponse(connection, p.task, outcome)
      BY <1>2 DEF DataOutExecutes, Answer, Finish, iscsi_target_execute_scsi_command
    <2> HIDE DEF data
    <2>3. EntryKept /\ entry'.data = data
      BY <2>1 DEF EntryKept, Shape, IsEntry
    <2>4. Answering(responses', p.task)
      BY <2>2, AnsweringOne
    <2>5. session'.transfer_tag = session.transfer_tag
      BY <2>1, NumberedKeeps DEF Shape
    <2>6. Finishes(p)
      BY <2>1, <2>2, <2>3, <2>4, <2>5 DEF Finishes, data
    <2>7. SessionStays
      BY <2>1, AdvanceKeeps, SessionStaysWhen DEF Shape
    <2> QED BY <2>6, <2>7 DEF TargetStep
  <1>3. CASE DataOutStored(p)
    <2> DEFINE data == Stored(p)
    <2>1. ~(p.final /\ MoreR2T)
      BY DEF MoreR2T, Types
    <2>2. /\ NamesEntry(p) /\ ~LastDataOut(p)
          /\ entry' = [entry EXCEPT !.data = data, !.r2t_sn = entry.r2t_sn]
          /\ connection' = Advance(connection, 0) /\ session' = Numbered(p)
          /\ responses' = <<>> /\ UNCHANGED executed
      BY <1>0, <1>3, <2>1 DEF DataOutStored, HasTransferEntry, NamesEntry, Answer, Finish
    <2> HIDE DEF data
    <2>3. EntryKept /\ entry'.data = data
      BY <2>2 DEF EntryKept, Shape, IsEntry
    <2>4. session'.transfer_tag = session.transfer_tag
      BY <2>2, NumberedKeeps DEF Shape
    <2>5. Stores(p)
      BY <2>2, <2>3, <2>4, QuietNone DEF Stores, data
    <2>6. SessionStays
      BY <2>2, AdvanceKeeps, SessionStaysWhen DEF Shape
    <2> QED BY <2>5, <2>6 DEF TargetStep
  <1> QED BY <1>1, <1>2, <1>3 DEF iscsi_request_data_out_process

\* The target's step, for whatever an initiator sends after its login.
LEMMA RequestSteps ==
  ASSUME SentInv, NeverIgnored, NEW p, IsRequest(p), iscsi_server_process(p)
  PROVE  TargetStep(p) /\ SessionStays
  <1>1. Shape /\ Types
    BY DEF SentInv, IInv
  <1>2. DataInsTileTheRead'
    BY ProcessKeepsSent DEF SentInv, IsRequest
  <1>3. ~Ignore(p)
    BY <1>1, NumberedZero DEF Ignore, Shape
  <1>4. CASE LoginPhase(p)
    <2>1. NotLoggedIn(p) \/ iscsi_request_login_reject(p)
      BY <1>4 DEF LoginPhase, response_partial_login, LoginExits, LoginSetupFails,
                  response_final_login, LoginArrives, IsRequest
    <2> QED BY <1>1, <2>1, OtherSteps
  <1>5. CASE FullFeaturePhase(p)
    <2>1. \/ iscsi_request_reject(p) \/ iscsi_request_cmd_process(p)
          \/ iscsi_request_data_out_process(p)
      BY <1>5 DEF FullFeaturePhase, iscsi_request_logout_process,
                  iscsi_request_text_process, iscsi_request_nop_out_process, Arrives,
                  IsRequest
    <2> QED BY <1>1, <1>2, <2>1, OtherSteps, CommandTargetSteps, DataOutTargetSteps
  <1> QED BY <1>3, <1>4, <1>5 DEF iscsi_server_process

\* The login of an initiator is a PDU.
LEMMA LoginIsPDU ==
  ASSUME NEW a \in Nat, NEW b \in Nat
  PROVE  IsPDU(Login(a, b))
  <1> DEFINE p == Login(a, b)
             text == p.text
             x == int_to_string(a)
             y == int_to_string(b)
  <1>1. x \in Seq(0 .. 9) /\ y \in Seq(0 .. 9)
    BY ConversionsAgree
  <1> HIDE DEF x, y
  <1>2. /\ text = <<<<"InitiatorName", "initiator">>, <<"SessionType", "Normal">>,
                    <<"TargetName", "disk">>, <<"MaxRecvDataSegmentLength", x>>,
                    <<"MaxOutstandingR2T", y>>>>
        /\ p.opcode = "LOGIN" /\ p.transit \in BOOLEAN /\ p.transit = TRUE
    BY DEF Login, x, y
  <1> HIDE DEF text
  <1>3. /\ Len(text) = 5 /\ DOMAIN text = 1 .. 5
        /\ text[1] = <<"InitiatorName", "initiator">>
        /\ text[2] = <<"SessionType", "Normal">> /\ text[3] = <<"TargetName", "disk">>
        /\ text[4] = <<"MaxRecvDataSegmentLength", x>>
        /\ text[5] = <<"MaxOutstandingR2T", y>>
    BY <1>2
  <1>4. ASSUME NEW i \in DOMAIN text, text[i][1] \in MinKeys \cup MaxKeys
        PROVE  text[i][2] \in Seq(0 .. 9)
    <2>1. i \in {1, 2, 3, 4, 5}
      BY <1>3
    <2>2. i \notin {1, 2, 3}
      BY <1>3, <1>4 DEF MinKeys, MaxKeys
    <2> QED BY <1>1, <1>3, <2>1, <2>2
  <1>5. IsText(text)
    BY <1>3, <1>4 DEF IsText
  <1> QED BY <1>2, <1>5 DEF IsPDU, text

\* The login leaves nothing behind but a session, and is answered by a Login
\* response, if at all.
LEMMA LoginTargetSteps ==
  ASSUME Shape, ~connection.session_reference, session.transfer_tag = 0, NeverIgnored,
         NEW a, NEW b, iscsi_server_process(Login(a, b))
  PROVE  /\ UNCHANGED <<entry, executed>>
         /\ session'.transfer_tag = 0 /\ NeverIgnored'
         /\ Quiet(responses')
  <1> DEFINE p == Login(a, b)
             s == SetUpSession(p)
  <1>1. p.opcode = "LOGIN" /\ ~p.continue /\ p.ExpCmdSN = 0
    BY DEF Login
  <1> HIDE DEF p
  <1>2. LoginExits(p) \/ LoginSetupFails(p) \/ response_final_login(p)
    BY <1>1 DEF iscsi_server_process, Ignore, valid_command_numbering, Unchecked,
       LoginPhase, NotLoggedIn, iscsi_request_login_reject, response_partial_login,
       FullFeaturePhase, iscsi_request_logout_process, iscsi_request_text_process,
       iscsi_request_nop_out_process, iscsi_request_reject, iscsi_request_cmd_process,
       CommandNeedsData, CommandReads, CommandWithoutR2T, CommandExits, CommandArrives,
       iscsi_request_data_out_process, DataOutDropped, DataOutExecutes, DataOutStored,
       HasTransferEntry, Arrives, FullFeature, p
  <1>3. /\ IsSession(s) /\ s.transfer_tag = 0
        /\ s.command_numbering_start => s.ExpCmdSN = 0
    BY <1>1 DEF Shape, IsSession, NeverIgnored, SetUpSession
  <1> HIDE DEF s
  <1>4. \/ session' = session \/ session' = s
        \/ session' = [s EXCEPT !.is_full_feature_phase = @ \/ EntersFullFeature(p)]
    BY <1>2 DEF LoginExits, Exit, stateVars, LoginSetupFails, response_final_login, s
  <1>5. session'.transfer_tag = 0 /\ NeverIgnored'
    BY <1>3, <1>4 DEF IsSession, NeverIgnored
  <1>6. UNCHANGED <<entry, executed>>
    BY <1>2 DEF LoginExits, Exit, stateVars, LoginSetupFails, response_final_login
  <1>7. ASSUME NEW status, NEW transit, NEW nsg, NEW stamp, NEW text
        PROVE  Quiet(<<LoginResponse(status, transit, nsg, stamp, text)>>)
    BY QuietOne DEF LoginResponse
  <1>8. Quiet(responses')
    <2>1. CASE LoginExits(p)
      BY <2>1, QuietNone DEF LoginExits, Exit, Finish
    <2>2. CASE LoginSetupFails(p)
      BY <1>7, <2>2 DEF LoginSetupFails, Answer, Finish
    <2>3. CASE response_final_login(p)
      <3> DEFINE text == OperationalText(iscsi_connection_parameter_create(p.text))
      <3>1. \/ responses' = <<>>
            \/ responses' = <<LoginResponse(FinalStatus(p), TRUE, p.nsg,
                                            Stamp(connection, 0), SecurityText)>>
            \/ responses' = <<LoginResponse(FinalStatus(p), TRUE, p.nsg,
                                            Stamp(connection, 0), text)>>
            \/ responses' = <<LoginResponse("INITIATOR_ERROR", p.transit, p.nsg,
                                            NoStamp, <<>>)>>
        BY <2>3 DEF response_final_login, Answer, Terminate, Finish
      <3> HIDE DEF text
      <3> QED BY <1>7, <3>1, QuietNone
    <2> QED BY <1>2, <2>1, <2>2, <2>3
  <1> QED BY <1>5, <1>6, <1>8

-------------------------------------------------------------------------------
(***************************************************************************)
(* The R2Ts of a command.                                                  *)
(***************************************************************************)
\* n pieces of b bytes, of a transfer of a bytes that takes k of them: piece i lies
\* in the transfer, and every byte is in a piece or behind all of them.
Piece(i, a, b) == min(b, a - (i - 1) * b)

LEMMA PieceRight ==
  ASSUME NEW a \in Nat \ {0}, NEW b \in Nat \ {0}, NEW n \in Nat,
         n <= divide_round_up(a, b), NEW i \in 1 .. n
  PROVE  /\ (i - 1) * b \in Nat /\ Piece(i, a, b) \in Nat \ {0}
         /\ Piece(i, a, b) <= b /\ i * b = (i - 1) * b + b
         /\ (i - 1) * b + Piece(i, a, b) <= a
  <1> DEFINE k == divide_round_up(a, b)
             x == (i - 1) * b
  <1>1. k \in Nat \ {0} /\ (k - 1) * b < a
    BY RoundUp
  <1> HIDE DEF k
  <1>2. i \in 1 .. k
    BY <1>1 DEF k
  <1>3. x \in Nat /\ x <= (k - 1) * b /\ i * b = x + b
    BY <1>1, <1>2, FullPieces
  <1>4. (k - 1) * b \in Int
    BY <1>1
  <1> HIDE DEF x
  <1>5. x < a
    BY <1>1, <1>3, <1>4
  <1>6. Piece(i, a, b) = min(b, a - x)
    BY DEF Piece, x
  <1> QED BY <1>3, <1>5, <1>6 DEF min, x

LEMMA PiecesInOrder ==
  ASSUME NEW a \in Nat \ {0}, NEW b \in Nat \ {0}, NEW n \in Nat,
         n <= divide_round_up(a, b), NEW i \in 1 .. n, NEW j \in 1 .. n, i < j
  PROVE  (i - 1) * b + Piece(i, a, b) <= (j - 1) * b
  <1>1. Piece(i, a, b) <= b /\ i * b = (i - 1) * b + b /\ Piece(i, a, b) \in Nat
    BY PieceRight
  <1>2. i * b <= (j - 1) * b
    <2> DEFINE m == j - 1
    <2>1. m \in Nat /\ i \in 1 .. m
      OBVIOUS
    <2> HIDE DEF m
    <2>2. (i - 1) * b <= (m - 1) * b /\ i * b = (i - 1) * b + b
      BY <2>1, FullPieces
    <2>3. m \in 1 .. m
      BY <2>1
    <2>4. m * b = (m - 1) * b + b
      BY <2>1, <2>3, FullPieces
    <2>5. i * b <= m * b
      BY <2>1, <2>2, <2>4
    <2> QED BY <2>5 DEF m
  <1>3. (i - 1) * b \in Int /\ (j - 1) * b \in Int
    OBVIOUS
  <1> QED BY <1>1, <1>2, <1>3

LEMMA PiecesCover ==
  ASSUME NEW a \in Nat \ {0}, NEW b \in Nat \ {0}, NEW n \in Nat,
         n <= divide_round_up(a, b), NEW o \in 0 .. a - 1
  PROVE  \/ \E i \in 1 .. n : (i - 1) * b <= o /\ o < (i - 1) * b + Piece(i, a, b)
         \/ \A i \in 1 .. n : (i - 1) * b + Piece(i, a, b) <= o
  <1> DEFINE q == o \div b
  <1>1. q \in Nat /\ q * b <= o /\ o < q * b + b
    OBVIOUS
  <1>2. q * b \in Nat
    BY <1>1
  <1> HIDE DEF q
  <1>3. CASE q + 1 <= n
    <2> DEFINE i == q + 1
               x == q * b
    <2>1. i \in 1 .. n /\ (i - 1) * b = x
      BY <1>1, <1>3
    <2>2. x \in Nat /\ x <= o /\ o < x + b
      BY <1>1, <1>2
    <2>3. Piece(i, a, b) = min(b, a - x)
      BY <2>1 DEF Piece
    <2> HIDE DEF x, i
    <2>4. x <= o /\ o < x + Piece(i, a, b)
      BY <2>2, <2>3 DEF min
    <2> QED BY <2>1, <2>4
  <1>4. CASE ~(q + 1 <= n)
    <2>1. ASSUME NEW i \in 1 .. n PROVE (i - 1) * b + Piece(i, a, b) <= o
      <3>1. q \in Nat /\ i \in 1 .. q /\ q \in 1 .. q
        BY <1>1, <1>4
      <3>2. (i - 1) * b <= (q - 1) * b /\ q * b = (q - 1) * b + b
        BY <3>1, FullPieces
      <3>3. Piece(i, a, b) <= b /\ Piece(i, a, b) \in Nat /\ (i - 1) * b \in Nat
        BY PieceRight
      <3>4. (q - 1) * b \in Int
        BY <3>1
      <3> QED BY <1>1, <1>2, <3>2, <3>3, <3>4
    <2> QED BY <2>1
  <1> QED BY <1>3, <1>4

\* The R2Ts of a command ask for pieces of the data behind the immediate data, in
\* order; every byte is asked for, or lies behind those that are.
LEMMA R2TsRight ==
  ASSUME Types, NEW p, IsPDU(p), p.opcode = "SCSI_CMD", NeedsR2T(p), MaxRecv # 0
  PROVE  LET rs == R2Ts(p)
         IN /\ IsSeq(rs) /\ Sorted(rs)
            /\ \A r \in Elements(rs) :
                 /\ r.opcode = "R2T" /\ r.task = p.task /\ r.tag = Tag
                 /\ r.offset \in Nat /\ Length(r) \in Nat \ {0}
                 /\ p.dsl <= r.offset /\ End(r) <= p.edtl
            /\ \A o \in p.dsl .. p.edtl - 1 :
                 \/ \E r \in Elements(rs) : r.offset <= o /\ o < End(r)
                 \/ \A r \in Elements(rs) : End(r) <= o
  <1> DEFINE a == p.edtl - p.dsl
             b == MaxRecv
             k == divide_round_up(a, b)
             n == min(parameter["MaxOutstandingR2T"], k)
             rs == R2Ts(p)
  <1>1. b \in Nat \ {0} /\ parameter["MaxOutstandingR2T"] \in Nat /\ parameter["InitialR2T"]
    BY DEF Types, IsParameter, IsValue, MaxRecv, Keys, NumberKeys, MinKeys, MaxKeys, BoolKeys
  <1>2. p.edtl \in Nat /\ p.dsl \in Nat /\ a \in Nat \ {0}
    BY MemoryAssumption DEF IsPDU, NeedsR2T
  <1>3. Unsolicited(p) = p.dsl
    BY <1>1 DEF Unsolicited
  <1> HIDE DEF a, b
  <1>4. k \in Nat
    BY <1>1, <1>2, RoundUp
  <1> HIDE DEF k
  <1>5. n \in Nat /\ n <= k
    BY <1>1, <1>4 DEF min
  <1> HIDE DEF n
  <1>6. /\ rs = [i \in 1 .. n |-> rs[i]] /\ DOMAIN rs = 1 .. n
        /\ \A i \in 1 .. n :
             /\ rs[i].opcode = "R2T" /\ rs[i].task = p.task /\ rs[i].tag = Tag
             /\ rs[i].offset = p.dsl + (i - 1) * b
             /\ rs[i].length = min(b, p.edtl - (p.dsl + (i - 1) * b))
    BY <1>3 DEF R2Ts, iscsi_request_r2t_send, n, k, a, b
  <1> HIDE DEF rs
  <1>7. ASSUME NEW i \in 1 .. n
        PROVE  /\ (i - 1) * b \in Nat /\ Piece(i, a, b) \in Nat \ {0}
               /\ (i - 1) * b + Piece(i, a, b) <= a
               /\ rs[i].offset = p.dsl + (i - 1) * b
               /\ Length(rs[i]) = Piece(i, a, b)
    <2>1. /\ (i - 1) * b \in Nat /\ Piece(i, a, b) \in Nat \ {0}
          /\ (i - 1) * b + Piece(i, a, b) <= a
      BY <1>1, <1>2, <1>5, PieceRight DEF k
    <2>2. p.edtl - (p.dsl + (i - 1) * b) = a - (i - 1) * b
      BY <1>2, <2>1 DEF a
    <2> QED BY <1>6, <2>1, <2>2 DEF Length, Piece
  <1>8. IsSeq(rs)
    <2> DEFINE S == Elements(rs)
    <2>1. \A i \in 1 .. n : rs[i] \in S
      BY <1>6 DEF Elements
    <2> HIDE DEF S
    <2>2. rs \in Seq(S)
      BY <1>5, <1>6, <2>1
    <2> QED BY <2>2 DEF IsSeq, S
  <1>9. Sorted(rs)
    <2>1. ASSUME NEW i \in DOMAIN rs, NEW j \in DOMAIN rs, i < j
          PROVE  Ordered(rs[i], rs[j])
      <3>1. i \in 1 .. n /\ j \in 1 .. n
        BY <1>6
      <3>2. (i - 1) * b + Piece(i, a, b) <= (j - 1) * b
        BY <1>1, <1>2, <1>5, <2>1, <3>1, PiecesInOrder DEF k
      <3>3. /\ (i - 1) * b \in Nat /\ (j - 1) * b \in Nat /\ Piece(i, a, b) \in Nat
            /\ End(rs[i]) = p.dsl + (i - 1) * b + Piece(i, a, b)
            /\ rs[j].offset = p.dsl + (j - 1) * b
        BY <1>7, <3>1 DEF End
      <3>4. End(rs[i]) <= rs[j].offset
        BY <1>2, <3>2, <3>3
      <3>5. rs[i].opcode = "R2T" /\ rs[j].opcode = "R2T"
        BY <1>6, <3>1
      <3> QED BY <3>4, <3>5 DEF Ordered, Follows, Differs, Completes
    <2> QED BY <2>1 DEF Sorted
  <1>10. ASSUME NEW r \in Elements(rs)
         PROVE  /\ r.opcode = "R2T" /\ r.task = p.task /\ r.tag = Tag
                /\ r.offset \in Nat /\ Length(r) \in Nat \ {0}
                /\ p.dsl <= r.offset /\ End(r) <= p.edtl
    <2>1. PICK i \in 1 .. n : r = rs[i]
      BY <1>6 DEF Elements
    <2>2. End(r) = p.dsl + (i - 1) * b + Piece(i, a, b)
      BY <1>7, <2>1 DEF End
    <2>3. p.dsl + a = p.edtl
      BY <1>2 DEF a
    <2>4. /\ r.opcode = "R2T" /\ r.task = p.task /\ r.tag = Tag
          /\ r.offset = p.dsl + (i - 1) * b
      BY ONLY <1>6, <2>1
    <2>5. /\ (i - 1) * b \in Nat /\ Piece(i, a, b) \in Nat \ {0}
          /\ (i - 1) * b + Piece(i, a, b) <= a
          /\ Length(r) = Piece(i, a, b)
      BY ONLY <1>7, <2>1
    <2> DEFINE q == (i - 1) * b
               l == Piece(i, a, b)
    <2>6. /\ r.offset = p.dsl + q /\ End(r) = p.dsl + q + l /\ Length(r) = l
          /\ q \in Nat /\ l \in Nat \ {0} /\ q + l <= a
      BY ONLY <2>2, <2>4, <2>5
    <2> HIDE DEF q, l
    <2>7. /\ r.offset \in Nat /\ Length(r) \in Nat \ {0}
          /\ p.dsl <= r.offset /\ End(r) <= p.edtl
      BY ONLY <1>2, <2>3, <2>6
    <2> QED BY ONLY <2>4, <2>7
  <1>11. ASSUME NEW o \in p.dsl .. p.edtl - 1
         PROVE  \/ \E r \in Elements(rs) : r.offset <= o /\ o < End(r)
                \/ \A r \in Elements(rs) : End(r) <= o
    <2> DEFINE d == o - p.dsl
    <2>1. d \in 0 .. a - 1 /\ o = p.dsl + d
      BY <1>2 DEF a
    <2>2. \A i \in 1 .. n : rs[i] \in Elements(rs)
      BY <1>6 DEF Elements
    <2> HIDE DEF d
    <2>3. CASE \E i \in 1 .. n : (i - 1) * b <= d /\ d < (i - 1) * b + Piece(i, a, b)
      <3>1. PICK i \in 1 .. n : (i - 1) * b <= d /\ d < (i - 1) * b + Piece(i, a, b)
        BY <2>3
      <3>2. /\ (i - 1) * b \in Nat /\ Piece(i, a, b) \in Nat
            /\ End(rs[i]) = p.dsl + (i - 1) * b + Piece(i, a, b)
            /\ rs[i].offset = p.dsl + (i - 1) * b
        BY <1>7 DEF End
      <3>3. rs[i].offset <= o /\ o < End(rs[i])
        BY <1>2, <2>1, <3>1, <3>2
      <3> QED BY <2>2, <3>3
    <2>4. CASE \A i \in 1 .. n : (i - 1) * b + Piece(i, a, b) <= d
      <3>1. ASSUME NEW r \in Elements(rs) PROVE End(r) <= o
        <4>1. PICK i \in 1 .. n : r = rs[i]
          BY <1>6 DEF Elements
        <4>2. /\ (i - 1) * b \in Nat /\ Piece(i, a, b) \in Nat
              /\ End(rs[i]) = p.dsl + (i - 1) * b + Piece(i, a, b)
          BY <1>7 DEF End
        <4>3. (i - 1) * b + Piece(i, a, b) <= d
          BY <2>4
        <4> QED BY <1>2, <2>1, <4>1, <4>2, <4>3
      <3> QED BY <3>1
    <2>5. \/ \E i \in 1 .. n : (i - 1) * b <= d /\ d < (i - 1) * b + Piece(i, a, b)
          \/ \A i \in 1 .. n : (i - 1) * b + Piece(i, a, b) <= d
      BY <1>1, <1>2, <1>5, <2>1, PiecesCover DEF k
    <2> QED BY <2>3, <2>4, <2>5
  <1> QED BY <1>8, <1>9, <1>10, <1>11 DEF rs

-------------------------------------------------------------------------------
(***************************************************************************)
(* The target takes the first PDU.                                         *)
(***************************************************************************)
Takes(p) ==
  /\ Pending # <<>> /\ p = Head(Pending) /\ Pending' = Tail(Pending)
  /\ IsSeq(received') /\ IsSeq(toTarget')
  /\ iscsi_server_process(p)
  /\ toInitiator' = toInitiator \o responses'
  /\ UNCHANGED <<plan, initiator>>

LEMMA QueuesAreSeqs ==
  ASSUME Channels
  PROVE  IsSeq(Pending) /\ IsSeq(Left) /\ IsSeq(toInitiator)
  BY SeqConcat, LeftSeq DEF Channels, Pending, Left, IsInitiator

LEMMA TargetTakes ==
  ASSUME Channels, Target
  PROVE  \E p : Takes(p)
  <1>1. PICK n \in 0 .. Len(toTarget) : TargetReceives(n)
    BY DEF Target
  <1> DEFINE moved == received \o SubSeq(toTarget, 1, n)
             rest == SubSeq(toTarget, n + 1, Len(toTarget))
  <1>2. /\ moved # <<>> /\ iscsi_server_process(Head(moved))
        /\ received' = Tail(moved) /\ toTarget' = rest
        /\ toInitiator' = toInitiator \o responses'
        /\ UNCHANGED <<plan, initiator>>
    BY <1>1 DEF TargetReceives
  <1>3. /\ IsSeq(Tail(moved)) /\ IsSeq(rest) /\ Pending # <<>>
        /\ Head(moved) = Head(Pending) /\ Tail(moved) \o rest = Tail(Pending)
    BY <1>2, SeqShift DEF Channels, Pending
  <1> HIDE DEF moved, rest
  <1>4. Pending' = Tail(Pending)
    BY <1>2, <1>3 DEF Pending
  <1>5. Takes(Head(Pending))
    BY <1>2, <1>3, <1>4 DEF Takes
  <1> QED BY <1>5

LEMMA TakesElements ==
  ASSUME Channels, NEW p, Takes(p), IsSeq(responses')
  PROVE  /\ Channels' /\ Left' = Left
         /\ Elements(Pending) = Elements(Pending') \cup {p}
         /\ Elements(toInitiator') = Elements(toInitiator) \cup Elements(responses')
  <1>1. Elements(Pending) = Elements(Tail(Pending)) \cup {Head(Pending)}
    BY QueuesAreSeqs, SeqTail DEF Takes
  <1> DEFINE rs == toInitiator \o responses'
  <1>2. IsSeq(rs) /\ Elements(rs) = Elements(toInitiator) \cup Elements(responses')
    BY QueuesAreSeqs, SeqConcat
  <1>3. toInitiator' = rs
    BY DEF Takes
  <1> HIDE DEF rs
  <1>4. Channels'
    BY <1>2, <1>3 DEF Channels, Takes
  <1>5. Left' = Left
    BY DEF Left, Takes
  <1> QED BY <1>1, <1>2, <1>3, <1>4, <1>5 DEF Takes

\* What moved still moves, but for the first PDU.
LEMMA TakesMovers ==
  ASSUME Channels, InOrder, NEW p, Takes(p), IsSeq(responses')
  PROVE  /\ Movers \subseteq Movers' \cup {p}
         /\ Moves(p) => p \in Movers
         /\ \A x \in Movers' :
              Moves(x) /\ (x \in Elements(responses') \/ (x \in Movers /\ Follows(p, x)))
  <1>1. /\ Left' = Left
        /\ Elements(Pending) = Elements(Pending') \cup {p}
        /\ Elements(toInitiator') = Elements(toInitiator) \cup Elements(responses')
    BY TakesElements
  <1>2. \A y \in Elements(Pending') : Ordered(p, y)
    BY QueuesAreSeqs, SortedTail DEF Takes, InOrder
  <1>3. \A y \in Elements(Left) \cup Elements(toInitiator) : Follows(p, y)
    BY <1>1 DEF InOrder, Before
  <1> QED BY <1>1, <1>2, <1>3 DEF Movers, Ordered

\* The order is kept, if the responses are in order among themselves and behind all
\* that moves.
LEMMA TakesInOrder ==
  ASSUME Channels, InOrder, NEW p, Takes(p), IsSeq(responses'), Sorted(responses'),
         \A x \in Elements(toInitiator), y \in Elements(responses') : Ordered(x, y),
         \A x \in Movers, y \in Elements(responses') : Follows(x, y)
  PROVE  InOrder'
  <1>1. /\ Left' = Left
        /\ Elements(Pending) = Elements(Pending') \cup {p}
        /\ Elements(toInitiator') = Elements(toInitiator) \cup Elements(responses')
    BY TakesElements
  <1>2. Sorted(Pending')
    BY QueuesAreSeqs, SortedTail DEF Takes, InOrder
  <1>3. Sorted(toInitiator')
    BY QueuesAreSeqs, SortedConcat DEF Takes, InOrder
  <1>4. \A x \in Elements(Pending') \cup Elements(Left), y \in Elements(responses') :
          Follows(x, y)
    BY <1>1 DEF Movers, Follows
  <1>5. Before(Pending', Left') /\ Before(Pending', toInitiator') /\ Before(Left', toInitiator')
    BY <1>1, <1>4 DEF InOrder, Before
  <1> QED BY <1>1, <1>2, <1>3, <1>5 DEF InOrder

\* What the handlers may send.
LEMMA QuietInOrder ==
  ASSUME Channels, InOrder, NEW p, Takes(p), Quiet(responses')
  PROVE  InOrder'
  <1>1. \A x, y : y \in Elements(responses') => Ordered(x, y)
    BY DEF Quiet, IsResponse, Ordered, Follows, Differs
  <1>2. Sorted(responses')
    BY <1>1 DEF Sorted, Elements
  <1> QED BY <1>1, <1>2, TakesInOrder DEF Quiet, Ordered

\* The plan gives every task lengths inside the memory.
LEMMA PlanTypes ==
  ASSUME Channels, NEW t \in Tasks
  PROVE  Total(t) \in 0 .. MemorySize /\ Immediate(t) \in 0 .. MemorySize
         /\ MemorySize \in Nat
  BY PlansAssumption, MemoryAssumption DEF Channels, Total, Immediate

\* The first PDU, after the login.
LEMMA FirstIsRequest ==
  ASSUME TInv, Started, NEW p, Takes(p)
  PROVE  IsRequest(p)
  <1>1. p \in Elements(Pending)
    BY QueuesAreSeqs, SeqTail DEF TInv, Takes
  <1>2. p.opcode = "SCSI_CMD" \/ (p.opcode = "SCSI_DATA_OUT" /\ p.cmdSN = 0)
    BY <1>1 DEF Started
  <1>3. initiator.sent \subseteq Tasks /\ Channels
    BY DEF TInv, Channels, IsInitiator
  <1>4. CASE p.opcode = "SCSI_CMD"
    <2>1. p = ScsiCommand(p.task) /\ p.task \in Tasks
      BY <1>1, <1>3, <1>4 DEF TInv, CommandsRight
    <2>2. p.edtl = Total(p.task) /\ p.dsl = Immediate(p.task)
      BY <2>1 DEF ScsiCommand, Total, Immediate
    <2>3. p.edtl \in 0 .. MemorySize /\ p.dsl \in Nat
      BY <1>3, <2>1, <2>2, PlanTypes
    <2> QED BY <1>4, <2>3 DEF IsRequest, IsPDU, NamesEntry
  <1>5. CASE p.opcode = "SCSI_DATA_OUT"
    <2>1. p \in Movers
      BY <1>1, <1>5 DEF Movers, Moves
    <2>2. IsMover(p) /\ Length(p) = p.dsl
      BY <1>5, <2>1 DEF TInv, MoversRight, Length
    <2>3. Total(p.task) \in 0 .. MemorySize /\ MemorySize \in Nat
      BY <1>3, <2>2, PlanTypes DEF IsMover
    <2>4. p.offset \in Nat /\ p.dsl \in Nat /\ p.offset + p.dsl <= MemorySize
      BY <2>2, <2>3 DEF IsMover, End
    <2>5. p.tag \in Nat \ {0}
      BY <2>2 DEF IsMover
    <2>6. NamesEntry(p) => FullFeature /\ Normal
      BY <2>5 DEF NamesEntry, TInv, EntryRight
    <2> QED BY <1>2, <1>5, <2>4, <2>5, <2>6 DEF IsRequest, IsPDU
  <1> QED BY <1>2, <1>4, <1>5

\* All of the invariant that is about what moves.
FlowInv ==
  /\ InOrder /\ MoversRight /\ EntryRight /\ CommandsRight
  /\ AnswersRight /\ ExecutedRight /\ AskedRight

\* The initiator's part of a step of the target.
LEMMA TakesConstant ==
  ASSUME NEW p, Takes(p)
  PROVE  /\ UNCHANGED initiator /\ UNCHANGED plan
         /\ \A t : /\ Write(t)' <=> Write(t)
                   /\ Total(t)' = Total(t) /\ Immediate(t)' = Immediate(t)
                   /\ ScsiCommand(t)' = ScsiCommand(t)
  BY DEF Takes, Write, Total, Immediate, ScsiCommand

\* A PDU that is lost is missed by nothing that the invariant follows.
LEMMA DropKeeps ==
  ASSUME TInv, NEW p, Takes(p), p.opcode # "R2T", Drops(p),
         SessionStays \/ entry.transfer_tag = 0
  PROVE  FlowInv'
  <1>0. Channels /\ InOrder /\ IsSeq(responses')
    BY DEF TInv, Drops, Quiet
  <1>1. /\ Movers \subseteq Movers' \cup {p}
        /\ \A x \in Movers' : x \in Movers
    BY <1>0, TakesMovers DEF Drops, Quiet, IsResponse
  <1>2. /\ Elements(Pending) = Elements(Pending') \cup {p}
        /\ Elements(toInitiator') = Elements(toInitiator) \cup Elements(responses')
    BY <1>0, TakesElements
  <1>3. /\ UNCHANGED initiator
        /\ \A t : /\ Write(t)' <=> Write(t)
                  /\ Total(t)' = Total(t) /\ Immediate(t)' = Immediate(t)
                  /\ ScsiCommand(t)' = ScsiCommand(t)
    BY TakesConstant
  <1>4. UNCHANGED entry /\ UNCHANGED executed /\ Ran' = Ran
        /\ session'.transfer_tag = session.transfer_tag
    BY DEF Drops, Ran
  <1>5. InOrder'
    BY <1>0, QuietInOrder DEF Drops
  <1>6. MoversRight'
    <2>1. ASSUME NEW x \in Movers' PROVE IsMover(x)'
      <3>1. IsMover(x)
        BY <1>1, <2>1 DEF TInv, MoversRight
      <3> QED BY <1>3, <1>4, <3>1 DEF IsMover
    <2> QED BY <2>1 DEF MoversRight
  <1>7. EntryRight'
    <2> SUFFICES ASSUME entry.transfer_tag # 0 PROVE EntryRight'
      BY <1>4 DEF EntryRight
    <2> DEFINE t == entry.cdb.task
    <2>1. /\ FullFeature /\ Normal /\ t \in initiator.sent /\ Write(t)
          /\ entry.cdb = Cdb(ScsiCommand(t)) /\ entry.total_length = Total(t)
          /\ \A o \in Immediate(t) .. Total(t) - 1 :
               entry.data[o] = t \/ (\E x \in Movers : Covers(x, o)) \/ Beyond(o)
      BY DEF TInv, EntryRight
    <2>2. FullFeature' /\ Normal'
      BY <2>1 DEF SessionStays
    <2>3. ASSUME NEW o, NEW x \in Movers, Covers(x, o) PROVE x \in Movers' /\ Covers(x, o)'
      BY <1>1, <1>4, <2>3 DEF Covers, Drops, NamesEntry, Movers, Moves
    <2>4. ASSUME NEW o, Beyond(o) PROVE Beyond(o)'
      BY <1>1, <1>4, <2>4 DEF Beyond
    <2> QED BY <1>3, <1>4, <2>1, <2>2, <2>3, <2>4 DEF EntryRight, Cdb
  <1>8. CommandsRight'
    BY <1>1, <1>2, <1>3, <1>4 DEF TInv, CommandsRight
  <1>9. AnswersRight'
    BY <1>2, <1>3, <1>4 DEF TInv, AnswersRight, Drops, Quiet, IsResponse, Moves
  <1>10. ExecutedRight'
    BY <1>3, <1>4 DEF TInv, ExecutedRight, WholeWrite
  <1>11. AskedRight'
    <2>1. \A y \in Elements(toInitiator') : y.opcode = "R2T" => y \in Elements(toInitiator)
      BY <1>2 DEF Drops, Quiet, IsResponse, Moves
    <2> QED BY <1>3, <2>1 DEF TInv, AskedRight
  <1> QED BY <1>5, <1>6, <1>7, <1>8, <1>9, <1>10, <1>11 DEF FlowInv

\* The first command: nothing moves for it, the device has not had it.
LEMMA FirstCommand ==
  ASSUME TInv, NEW p, Takes(p), p.opcode = "SCSI_CMD"
  PROVE  /\ p.task \in initiator.sent /\ p.task \in Tasks /\ p.task \notin Ran
         /\ p = ScsiCommand(p.task)
         /\ p.dsl = Immediate(p.task) /\ p.edtl = Total(p.task)
         /\ (p.kind = "write") = Write(p.task)
         /\ p \notin Movers
         /\ \A y \in Movers : y.task # p.task
         /\ initiator.asked[p.task] = {}
         /\ entry.transfer_tag # 0 => entry.cdb.task # p.task
         /\ initiator.answers[p.task] = 0
         /\ \A x \in Elements(Pending') : x.opcode = "SCSI_CMD" => x.task # p.task
  <1>1. p \in Elements(Pending) /\ Channels
    BY QueuesAreSeqs, SeqTail DEF TInv, Takes
  <1>2. /\ p.task \in initiator.sent /\ p.task \in Tasks /\ p.task \notin Ran
        /\ p = ScsiCommand(p.task)
        /\ \A y \in Movers : y.task # p.task
        /\ initiator.asked[p.task] = {}
        /\ entry.transfer_tag # 0 => entry.cdb.task # p.task
    BY <1>1 DEF TInv, CommandsRight, Channels, IsInitiator
  <1>3. /\ p.dsl = Immediate(p.task) /\ p.edtl = Total(p.task)
        /\ (p.kind = "write") = Write(p.task)
    BY <1>2 DEF ScsiCommand, Immediate, Total, Write
  <1>4. initiator.answers[p.task] = 0
    BY <1>2 DEF TInv, AnswersRight
  <1>5. \A x \in Elements(Pending') : Ordered(p, x)
    BY <1>1, QueuesAreSeqs, SortedTail DEF TInv, InOrder, Takes
  <1> QED BY <1>2, <1>3, <1>4, <1>5 DEF Ordered, Differs, Movers, Moves

\* A command that takes the transfer entry: the Data-Outs of the command before it
\* will be lost, and only its own data is waited for.
LEMMA AskKeeps ==
  ASSUME TInv, NEW p, IsPDU(p), Takes(p), Asks(p), SessionStays
  PROVE  FlowInv'
  <1> DEFINE rs == R2Ts(p)
             t == p.task
  <1>0. /\ Channels /\ InOrder /\ Types /\ Shape
        /\ p.opcode = "SCSI_CMD" /\ NeedsR2T(p) /\ MaxRecv # 0
        /\ responses' = rs /\ session.transfer_tag \in Nat
    BY DEF TInv, SentInv, IInv, Asks, Typed
  <1>1. /\ IsSeq(rs) /\ Sorted(rs)
        /\ \A r \in Elements(rs) :
             /\ r.opcode = "R2T" /\ r.task = t /\ r.tag = Tag
             /\ r.offset \in Nat /\ Length(r) \in Nat \ {0}
             /\ p.dsl <= r.offset /\ End(r) <= p.edtl
        /\ \A o \in p.dsl .. p.edtl - 1 :
             \/ \E r \in Elements(rs) : r.offset <= o /\ o < End(r)
             \/ \A r \in Elements(rs) : End(r) <= o
    BY <1>0, R2TsRight
  <1> HIDE DEF rs
  <1>2. /\ t \in initiator.sent /\ t \in Tasks /\ t \notin Ran
        /\ p = ScsiCommand(t) /\ p.dsl = Immediate(t) /\ p.edtl = Total(t)
        /\ (p.kind = "write") = Write(t)
        /\ p \notin Movers /\ \A y \in Movers : y.task # t
        /\ initiator.asked[t] = {}
        /\ \A x \in Elements(Pending') : x.opcode = "SCSI_CMD" => x.task # t
    BY <1>0, FirstCommand
  <1>3. /\ UNCHANGED initiator
        /\ \A u : /\ Write(u)' <=> Write(u)
                  /\ Total(u)' = Total(u) /\ Immediate(u)' = Immediate(u)
                  /\ ScsiCommand(u)' = ScsiCommand(u)
    BY TakesConstant
  <1>4. /\ Elements(Pending) = Elements(Pending') \cup {p}
        /\ Elements(toInitiator') = Elements(toInitiator) \cup Elements(rs)
    BY <1>0, <1>1, TakesElements
  <1>5. /\ Movers \subseteq Movers'
        /\ \A x \in Movers' : x \in Elements(rs) \/ x \in Movers
    BY <1>0, <1>1, <1>2, TakesMovers
  <1>6. /\ UNCHANGED executed /\ Ran' = Ran
        /\ session'.transfer_tag = session.transfer_tag + 1 /\ Tag = session.transfer_tag + 1
        /\ entry'.cdb = Cdb(p) /\ entry'.cdb.task = t
        /\ entry'.total_length = Total(t) /\ entry'.transfer_tag = Tag
        /\ Write(t)
    BY <1>0, <1>2 DEF Asks, iscsi_transfer_entry_create, Shape, IsEntry, Ran, Tag, Cdb, NeedsR2T
  <1>7. InOrder'
    <2>1. \A x \in Elements(toInitiator), y \in Elements(rs) : Ordered(x, y)
      <3> SUFFICES ASSUME NEW x \in Elements(toInitiator), NEW y \in Elements(rs)
                   PROVE  Ordered(x, y)
        OBVIOUS
      <3>1. Moves(x) => x.task # y.task
        BY <1>1, <1>2 DEF Movers
      <3>2. y.opcode = "R2T"
        BY <1>1
      <3> QED BY <3>1, <3>2 DEF Ordered, Follows, Differs, Completes
    <2>2. \A x \in Movers, y \in Elements(rs) : Follows(x, y)
      BY <1>1, <1>2 DEF Follows
    <2> QED BY <1>0, <1>1, <2>1, <2>2, TakesInOrder
  <1>8. MoversRight'
    <2>1. ASSUME NEW x \in Movers', x \in Movers PROVE IsMover(x)'
      <3>1. IsMover(x)
        BY <2>1 DEF TInv, MoversRight
      <3>2. x.tag \in 1 .. session'.transfer_tag /\ x.tag # entry'.transfer_tag
        BY <1>0, <1>6, <3>1 DEF IsMover
      <3> QED BY <1>3, <3>1, <3>2 DEF IsMover
    <2>2. ASSUME NEW x \in Movers', x \in Elements(rs) PROVE IsMover(x)'
      <3>1. /\ x.task = t /\ x.tag = Tag /\ x.offset \in Nat /\ Length(x) \in Nat \ {0}
            /\ Immediate(t) <= x.offset /\ End(x) <= Total(t)
        BY <1>1, <1>2, <2>2
      <3>2. x.tag \in 1 .. session'.transfer_tag
        BY <1>0, <1>6, <3>1
      <3> QED BY <1>2, <1>3, <1>6, <3>1, <3>2 DEF IsMover
    <2> QED BY <1>5, <2>1, <2>2 DEF MoversRight
  <1>9. EntryRight'
    <2>1. FullFeature' /\ Normal'
      BY DEF SessionStays, Asks
    <2>2. entry'.cdb = Cdb(ScsiCommand(t))'
      BY <1>2, <1>3, <1>6 DEF Cdb
    <2>3. ASSUME NEW o \in Immediate(t) .. Total(t) - 1
          PROVE  (\E x \in Movers' : Covers(x, o)') \/ Beyond(o)'
      <3>1. CASE \E r \in Elements(rs) : r.offset <= o /\ o < End(r)
        <4>1. PICK r \in Elements(rs) : r.offset <= o /\ o < End(r)
          BY <3>1
        <4>2. r \in Movers'
          BY <1>1, <1>4 DEF Movers, Moves
        <4>3. Covers(r, o)'
          BY <1>1, <1>6, <4>1 DEF Covers
        <4> QED BY <4>2, <4>3
      <3>2. CASE \A r \in Elements(rs) : End(r) <= o
        <4>1. ASSUME NEW x \in Movers', x.tag = entry'.transfer_tag PROVE x \in Elements(rs)
          <5>1. x \in Movers => x.tag \in 1 .. session.transfer_tag
            BY DEF TInv, MoversRight, IsMover
          <5> QED BY <1>0, <1>5, <1>6, <4>1, <5>1
        <4> QED BY <3>2, <4>1 DEF Beyond
      <3> QED BY <1>1, <1>2, <3>1, <3>2
    <2> QED BY <1>2, <1>3, <1>6, <2>1, <2>2, <2>3 DEF EntryRight
  <1>10. CommandsRight'
    <2>1. ASSUME NEW x \in Elements(Pending'), x.opcode = "SCSI_CMD"
          PROVE  /\ x.task \in initiator'.sent \ Ran'
                 /\ x = ScsiCommand(x.task)'
                 /\ \A y \in Movers' : y.task # x.task
                 /\ initiator'.asked[x.task] = {}
                 /\ entry'.transfer_tag # 0 => entry'.cdb.task # x.task
      <3>1. /\ x.task \in initiator.sent \ Ran /\ x = ScsiCommand(x.task)
            /\ \A y \in Movers : y.task # x.task
            /\ initiator.asked[x.task] = {}
        BY <1>4, <2>1 DEF TInv, CommandsRight
      <3>2. x.task # t
        BY <1>2, <2>1
      <3> QED BY <1>1, <1>3, <1>5, <1>6, <3>1, <3>2
    <2> QED BY <2>1 DEF CommandsRight
  <1>11. AnswersRight'
    BY <1>1, <1>3, <1>4, <1>6 DEF TInv, AnswersRight, Completes
  <1>12. ExecutedRight'
    BY <1>3, <1>6 DEF TInv, ExecutedRight, WholeWrite
  <1>13. AskedRight'
    <2>1. \A y \in Elements(toInitiator') :
            y \in Elements(toInitiator) \/ (y.task = t /\ initiator.asked[t] = {})
      BY <1>1, <1>2, <1>4
    <2> QED BY <1>3, <2>1 DEF TInv, AskedRight
  <1> QED BY <1>7, <1>8, <1>9, <1>10, <1>11, <1>12, <1>13 DEF FlowInv

\* The device is given one more command.
LEMMA RanAppend ==
  ASSUME IsSeq(executed), NEW e, executed' = Append(executed, e)
  PROVE  /\ IsSeq(executed') /\ DOMAIN executed' = 1 .. Len(executed) + 1
         /\ DOMAIN executed = 1 .. Len(executed) /\ Len(executed) \in Nat
         /\ \A i \in DOMAIN executed : executed'[i] = executed[i]
         /\ executed'[Len(executed) + 1] = e
         /\ Ran' = Ran \cup {e.cdb.task}
  <1> DEFINE x == Append(executed, e)
  <1>1. /\ IsSeq(x) /\ DOMAIN x = 1 .. Len(executed) + 1
        /\ DOMAIN executed = 1 .. Len(executed) /\ Len(executed) \in Nat
        /\ \A i \in DOMAIN executed : x[i] = executed[i]
        /\ x[Len(executed) + 1] = e
    BY SeqAppend
  <1>2. executed' = x
    OBVIOUS
  <1> HIDE DEF x
  <1>3. Ran' = {x[i].cdb.task : i \in DOMAIN x}
    BY <1>2 DEF Ran
  <1>4. ASSUME NEW i \in DOMAIN executed PROVE i \in DOMAIN x /\ x[i] = executed[i]
    BY <1>1
  <1>5. Len(executed) + 1 \in DOMAIN x
    BY <1>1
  <1>6. \A i \in DOMAIN x : i \in DOMAIN executed \/ i = Len(executed) + 1
    BY <1>1
  <1>7. Ran \cup {e.cdb.task} \subseteq Ran'
    BY <1>1, <1>3, <1>4, <1>5 DEF Ran
  <1>8. Ran' \subseteq Ran \cup {e.cdb.task}
    BY <1>1, <1>3, <1>4, <1>6 DEF Ran
  <1> QED BY <1>1, <1>2, <1>7, <1>8

\* It was given no command twice.
LEMMA ExecutedKeeps ==
  ASSUME ExecutedRight, NEW p, Takes(p), NEW e, executed' = Append(executed, e),
         e.cdb.task \in initiator.sent, e.cdb.task \notin Ran,
         WholeWrite(e.cdb.task) => e.data = {e.cdb.task}
  PROVE  ExecutedRight'
  <1> DEFINE n == Len(executed) + 1
             x == executed'
  <1>1. /\ IsSeq(x) /\ DOMAIN x = 1 .. n
        /\ DOMAIN executed = 1 .. Len(executed) /\ Len(executed) \in Nat
        /\ \A i \in DOMAIN executed : x[i] = executed[i]
        /\ x[n] = e
    BY RanAppend DEF ExecutedRight
  <1>2. /\ initiator' = initiator
        /\ \A t : WholeWrite(t)' <=> WholeWrite(t)
    BY TakesConstant DEF WholeWrite
  <1>3. \A i \in DOMAIN executed :
          executed[i].cdb.task \in initiator.sent /\ executed[i].cdb.task # e.cdb.task
    BY DEF ExecutedRight, Ran
  <1> HIDE DEF x
  <1>4. ASSUME NEW i \in 1 .. n, i \notin DOMAIN executed PROVE i = n
    BY <1>1, <1>4
  <1>5. ASSUME NEW i \in DOMAIN x
        PROVE  /\ x[i].cdb.task \in initiator.sent
               /\ WholeWrite(x[i].cdb.task) => x[i].data = {x[i].cdb.task}
    <2>1. CASE i \in DOMAIN executed
      BY <1>1, <2>1 DEF ExecutedRight
    <2>2. CASE i \notin DOMAIN executed
      BY <1>1, <1>4, <1>5, <2>2
    <2> QED BY <2>1, <2>2
  <1>6. ASSUME NEW i \in DOMAIN x, NEW j \in DOMAIN x, i # j
        PROVE  x[i].cdb.task # x[j].cdb.task
    <2>1. CASE i \in DOMAIN executed /\ j \in DOMAIN executed
      BY <1>1, <1>6, <2>1 DEF ExecutedRight
    <2>2. CASE i \in DOMAIN executed /\ j \notin DOMAIN executed
      BY <1>1, <1>3, <1>4, <1>6, <2>2
    <2>3. CASE i \notin DOMAIN executed /\ j \in DOMAIN executed
      BY <1>1, <1>3, <1>4, <1>6, <2>3
    <2>4. CASE i \notin DOMAIN executed /\ j \notin DOMAIN executed
      BY <1>1, <1>4, <1>6, <2>4
    <2> QED BY <2>1, <2>2, <2>3, <2>4
  <1> QED BY <1>1, <1>2, <1>5, <1>6 DEF ExecutedRight, x

\* It answers that command, which was not answered before.
LEMMA AnsweringKeeps ==
  ASSUME Channels, InOrder, AnswersRight, AskedRight, NEW p, Takes(p), NEW t \in Tasks,
         Answering(responses', t), t \notin Ran, Ran' = Ran \cup {t}
  PROVE  InOrder' /\ AnswersRight' /\ AskedRight'
  <1>0. /\ IsSeq(responses') /\ Sorted(responses')
        /\ \A r \in Elements(responses') : IsResponse(r) /\ (Completes(r) => r.task = t)
    BY DEF Answering
  <1>1. Elements(toInitiator') = Elements(toInitiator) \cup Elements(responses')
    BY <1>0, TakesElements
  <1>2. initiator.answers[t] = 0
    BY DEF AnswersRight
  <1>3. InOrder'
    <2>1. \A x \in Elements(toInitiator), y \in Elements(responses') : Ordered(x, y)
      BY <1>0 DEF AnswersRight, Ordered, Follows, Differs, IsResponse
    <2>2. \A x \in Movers, y \in Elements(responses') : Follows(x, y)
      BY <1>0 DEF Follows, IsResponse
    <2> QED BY <1>0, <2>1, <2>2, TakesInOrder
  <1>4. UNCHANGED initiator /\ \A u : Total(u)' = Total(u) /\ Immediate(u)' = Immediate(u)
    BY TakesConstant
  <1>5. AnswersRight'
    BY <1>0, <1>1, <1>2, <1>4 DEF AnswersRight, IsResponse, Moves
  <1>6. AskedRight'
    <2>1. \A y \in Elements(toInitiator') : y.opcode = "R2T" => y \in Elements(toInitiator)
      BY <1>0, <1>1 DEF IsResponse, Moves
    <2> QED BY <1>4, <2>1 DEF AskedRight
  <1> QED BY <1>3, <1>5, <1>6

\* A command that is given to the device at once.
LEMMA RunKeeps ==
  ASSUME TInv, NEW p, Takes(p), Runs(p), SessionStays
  PROVE  FlowInv'
  <1> DEFINE t == p.task
  <1>0. /\ Channels /\ InOrder /\ session.transfer_tag \in Nat
        /\ IsSeq(responses') /\ \A r \in Elements(responses') : IsResponse(r)
        /\ p.opcode = "SCSI_CMD" /\ ~NeedsR2T(p)
    BY DEF TInv, SentInv, IInv, Typed, Runs, Answering
  <1>1. /\ t \in initiator.sent /\ t \in Tasks /\ t \notin Ran
        /\ p = ScsiCommand(t) /\ p.dsl = Immediate(t) /\ p.edtl = Total(t)
        /\ (p.kind = "write") = Write(t)
        /\ p \notin Movers /\ \A y \in Movers : y.task # t
        /\ entry.transfer_tag # 0 => entry.cdb.task # t
        /\ \A x \in Elements(Pending') : x.opcode = "SCSI_CMD" => x.task # t
    BY <1>0, FirstCommand
  <1>2. PICK data : executed' = Append(executed, [cdb |-> Cdb(p), data |-> data])
    BY DEF Runs
  <1> DEFINE e == [cdb |-> Cdb(p), data |-> data]
  <1>3. e.cdb.task = t /\ executed' = Append(executed, e)
    BY <1>2 DEF Cdb
  <1> HIDE DEF e
  <1>4. Ran' = Ran \cup {t}
    BY <1>3, RanAppend DEF TInv, ExecutedRight
  <1>5. ExecutedRight'
    <2>1. ~WholeWrite(t)
      BY <1>0, <1>1 DEF NeedsR2T, WholeWrite
    <2> QED BY <1>1, <1>3, <2>1, ExecutedKeeps DEF TInv
  <1>6. InOrder' /\ AnswersRight' /\ AskedRight'
    BY <1>0, <1>1, <1>4, AnsweringKeeps DEF TInv, Runs
  <1>7. /\ UNCHANGED initiator
        /\ \A u : /\ Write(u)' <=> Write(u)
                  /\ Total(u)' = Total(u) /\ Immediate(u)' = Immediate(u)
                  /\ ScsiCommand(u)' = ScsiCommand(u)
    BY TakesConstant
  <1>8. Movers' = Movers /\ Elements(Pending) = Elements(Pending') \cup {p}
    BY <1>0, <1>1, TakesMovers, TakesElements DEF IsResponse
  <1>9. UNCHANGED entry /\ session'.transfer_tag \in {session.transfer_tag, session.transfer_tag + 1}
    BY DEF Runs, Tag
  <1>10. MoversRight'
    <2>1. ASSUME NEW x \in Movers PROVE IsMover(x)'
      <3>1. IsMover(x) /\ x.task # t
        BY <1>1, <2>1 DEF TInv, MoversRight
      <3>2. x.tag \in 1 .. session'.transfer_tag
        BY <1>0, <1>9, <3>1 DEF IsMover
      <3> QED BY <1>4, <1>7, <1>9, <3>1, <3>2 DEF IsMover
    <2> QED BY <1>8, <2>1 DEF MoversRight
  <1>11. EntryRight'
    <2> SUFFICES ASSUME entry.transfer_tag # 0 PROVE EntryRight'
      BY <1>9 DEF EntryRight
    <2> DEFINE u == entry.cdb.task
    <2>1. /\ FullFeature /\ Normal /\ u \in initiator.sent /\ Write(u)
          /\ entry.cdb = Cdb(ScsiCommand(u)) /\ entry.total_length = Total(u)
          /\ \A o \in Immediate(u) .. Total(u) - 1 :
               entry.data[o] = u \/ (\E x \in Movers : Covers(x, o)) \/ Beyond(o)
      BY DEF TInv, EntryRight
    <2>2. FullFeature' /\ Normal'
      BY <2>1 DEF SessionStays
    <2>3. \A o, x : Covers(x, o)' <=> Covers(x, o)
      BY <1>9 DEF Covers
    <2>4. \A o : Beyond(o)' <=> Beyond(o)
      BY <1>8, <1>9 DEF Beyond
    <2> QED BY <1>7, <1>8, <1>9, <2>1, <2>2, <2>3, <2>4 DEF EntryRight, Cdb
  <1>12. CommandsRight'
    BY <1>1, <1>4, <1>7, <1>8, <1>9 DEF TInv, CommandsRight
  <1> QED BY <1>5, <1>6, <1>10, <1>11, <1>12 DEF FlowInv

\* The first Data-Out, when it has the tag of the transfer entry.
LEMMA FirstData ==
  ASSUME TInv, NEW p, Takes(p), NamesEntry(p)
  PROVE  LET t == entry.cdb.task
         IN /\ p \in Movers /\ IsMover(p) /\ p.task = t /\ t \notin Ran
            /\ entry.transfer_tag # 0 /\ FullFeature /\ Normal
            /\ t \in initiator.sent /\ t \in Tasks /\ Write(t)
            /\ entry.cdb = Cdb(ScsiCommand(t)) /\ entry.cdb.length = Total(t)
            /\ entry.total_length = Total(t)
            /\ \A o \in Immediate(t) .. Total(t) - 1 :
                 entry.data[o] = t \/ (\E x \in Movers : Covers(x, o)) \/ Beyond(o)
            /\ Total(t) \in 0 .. MemorySize /\ Immediate(t) \in Nat /\ MemorySize \in Nat
            /\ p.offset \in Nat /\ p.dsl \in Nat \ {0} /\ End(p) = p.offset + p.dsl
            /\ Immediate(t) <= p.offset /\ End(p) <= Total(t)
  <1>1. p \in Elements(Pending) /\ Channels
    BY QueuesAreSeqs, SeqTail DEF TInv, Takes
  <1>2. p \in Movers /\ IsMover(p) /\ Length(p) = p.dsl
    BY <1>1 DEF NamesEntry, Movers, Moves, TInv, MoversRight, Length
  <1>3. p.task = entry.cdb.task /\ entry.cdb.task \notin Ran /\ entry.transfer_tag # 0
    BY <1>2 DEF IsMover, NamesEntry
  <1>4. initiator.sent \subseteq Tasks
    BY <1>1 DEF Channels, IsInitiator
  <1>5. entry.cdb.task \in Tasks
    BY <1>2, <1>3, <1>4 DEF IsMover
  <1>6. /\ Total(entry.cdb.task) \in 0 .. MemorySize
        /\ Immediate(entry.cdb.task) \in Nat /\ MemorySize \in Nat
    BY <1>1, <1>5, PlanTypes
  <1>7. entry.cdb = Cdb(ScsiCommand(entry.cdb.task))
    BY <1>3 DEF TInv, EntryRight
  <1>8. entry.cdb.length = Total(entry.cdb.task)
    <2> DEFINE t == entry.cdb.task
    <2>1. Cdb(ScsiCommand(t)).length = Total(t)
      BY DEF Cdb, ScsiCommand, Total
    <2> QED BY <1>7, <2>1
  <1> QED BY <1>2, <1>3, <1>5, <1>6, <1>7, <1>8 DEF TInv, EntryRight, IsMover, End

\* Its data is stored: what is still waited for is on its way.
LEMMA StoringKeeps ==
  ASSUME TInv, NEW p, Takes(p), NamesEntry(p), SessionStays,
         EntryKept, entry'.data = Stored(p), session'.transfer_tag = session.transfer_tag,
         IsSeq(responses'), \A r \in Elements(responses') : IsResponse(r)
  PROVE  /\ EntryRight'
         /\ \A o \in Immediate(p.task) .. Total(p.task) - 1 :
              \/ Stored(p)[o] = p.task
              \/ \E x \in Movers' : Covers(x, o) /\ Follows(p, x) /\ x.task = p.task
              \/ Beyond(o)
  <1> DEFINE t == p.task
  <1>1. /\ p \in Movers /\ t = entry.cdb.task
        /\ entry.transfer_tag # 0 /\ FullFeature /\ Normal
        /\ t \in initiator.sent /\ Write(t)
        /\ entry.cdb = Cdb(ScsiCommand(t))
        /\ entry.total_length = Total(t)
        /\ \A o \in Immediate(t) .. Total(t) - 1 :
             entry.data[o] = t \/ (\E x \in Movers : Covers(x, o)) \/ Beyond(o)
        /\ Total(t) \in 0 .. MemorySize /\ Immediate(t) \in Nat /\ MemorySize \in Nat
        /\ p.offset \in Nat /\ p.dsl \in Nat /\ End(p) = p.offset + p.dsl
    BY FirstData
  <1>2. /\ Channels /\ InOrder
        /\ \A x \in Movers : IsMover(x)
    BY DEF TInv, MoversRight
  <1>3. /\ Movers \subseteq Movers' \cup {p}
        /\ \A x \in Movers' : x \in Movers /\ Follows(p, x)
    BY <1>2, TakesMovers DEF IsResponse
  <1>4. ASSUME NEW o \in Immediate(t) .. Total(t) - 1
        PROVE  \/ Stored(p)[o] = t
               \/ \E x \in Movers' : Covers(x, o) /\ Follows(p, x) /\ x.task = t
               \/ Beyond(o)
    <2>1. o \in Offsets
      BY <1>1 DEF Offsets
    <2>2. Stored(p)[o] = IF o \in p.offset .. p.offset + p.dsl - 1
                           THEN t ELSE entry.data[o]
      BY <2>1 DEF Stored
    <2>3. CASE entry.data[o] = t
      BY <2>2, <2>3
    <2>4. CASE \E x \in Movers : Covers(x, o)
      <3>1. PICK x \in Movers : Covers(x, o)
        BY <2>4
      <3>2. CASE x = p
        <4>1. o \in p.offset .. p.offset + p.dsl - 1
          BY <1>1, <3>1, <3>2 DEF Covers
        <4> QED BY <2>2, <4>1
      <3>3. CASE x # p
        <4>1. x \in Movers' /\ Follows(p, x)
          BY <1>3, <3>3
        <4>2. x.task = t
          BY <1>1, <1>2, <3>1 DEF Covers, IsMover
        <4> QED BY <3>1, <4>1, <4>2
      <3> QED BY <3>2, <3>3
    <2> QED BY <1>1, <2>3, <2>4
  <1>5. /\ UNCHANGED initiator
        /\ \A u : /\ Write(u)' <=> Write(u)
                  /\ Total(u)' = Total(u) /\ Immediate(u)' = Immediate(u)
                  /\ ScsiCommand(u)' = ScsiCommand(u)
    BY TakesConstant
  <1>6. \A o, x : Covers(x, o)' <=> Covers(x, o)
    BY DEF Covers, EntryKept
  <1>7. \A o : Beyond(o) => Beyond(o)'
    BY <1>3 DEF Beyond, EntryKept
  <1>8. FullFeature' /\ Normal'
    BY <1>1 DEF SessionStays
  <1>9. EntryRight'
    <2> DEFINE d == entry'
    <2>1. /\ d.cdb = entry.cdb /\ d.total_length = entry.total_length
          /\ d.transfer_tag = entry.transfer_tag /\ d.data = Stored(p)
      BY DEF EntryKept
    <2>2. ASSUME NEW o \in Immediate(t) .. Total(t) - 1
          PROVE  d.data[o] = t \/ (\E x \in Movers' : Covers(x, o)') \/ Beyond(o)'
      BY <1>4, <1>6, <1>7, <2>1
    <2> HIDE DEF d
    <2>3. d.cdb.task = t /\ d.cdb = Cdb(ScsiCommand(t)) /\ d.total_length = Total(t)
      BY <1>1, <2>1
    <2> QED BY <1>1, <1>5, <1>8, <2>2, <2>3 DEF EntryRight, Cdb, d
  <1> QED BY <1>4, <1>9

\* What moves is right when only what is stored and the command given change.
LEMMA StoringMovers ==
  ASSUME TInv, NEW p, Takes(p), NamesEntry(p), EntryKept,
         session'.transfer_tag = session.transfer_tag,
         IsSeq(responses'), \A r \in Elements(responses') : IsResponse(r),
         \/ Ran' = Ran
         \/ LastDataOut(p) /\ Ran' = Ran \cup {p.task}
  PROVE  MoversRight' /\ CommandsRight'
  <1> DEFINE t == p.task
  <1>1. /\ p \in Movers /\ t = entry.cdb.task /\ entry.transfer_tag # 0
        /\ entry.total_length = Total(t) /\ Total(t) \in Nat
        /\ End(p) = p.offset + p.dsl
    BY FirstData
  <1>2. Channels /\ InOrder
    BY DEF TInv
  <1>3. \A x \in Movers' : Moves(x) /\ x \in Movers /\ Follows(p, x)
    BY <1>2, TakesMovers DEF IsResponse
  <1>4. Elements(Pending) = Elements(Pending') \cup {p}
    BY <1>2, TakesElements
  <1>5. /\ UNCHANGED initiator
        /\ \A u : /\ Write(u)' <=> Write(u)
                  /\ Total(u)' = Total(u) /\ Immediate(u)' = Immediate(u)
                  /\ ScsiCommand(u)' = ScsiCommand(u)
    BY TakesConstant
  <1>6. MoversRight'
    <2>1. ASSUME NEW x \in Movers' PROVE IsMover(x)'
      <3>1. IsMover(x) /\ Follows(p, x) /\ Moves(x) /\ Moves(p)
        BY <1>1, <1>3, <2>1 DEF TInv, MoversRight, Movers
      <3>2. ASSUME x.tag = entry.transfer_tag, LastDataOut(p) PROVE FALSE
        <4>1. x.task = t
          BY <1>1, <3>1, <3>2 DEF IsMover
        <4>2. End(p) <= x.offset /\ End(p) = Total(t)
          BY <1>1, <3>1, <3>2, <4>1 DEF Follows, LastDataOut
        <4>3. x.offset \in Nat /\ Length(x) \in Nat \ {0} /\ x.offset + Length(x) <= Total(t)
          BY <3>1, <4>1 DEF IsMover, End
        <4> QED BY ONLY <1>1, <4>2, <4>3
      <3> QED BY <1>5, <3>1, <3>2 DEF IsMover, EntryKept
    <2> QED BY <2>1 DEF MoversRight
  <1>7. CommandsRight'
    BY <1>1, <1>3, <1>4, <1>5 DEF TInv, CommandsRight, EntryKept
  <1> QED BY <1>6, <1>7

\* Data that is not the last is stored.
LEMMA StoreKeeps ==
  ASSUME TInv, NEW p, Takes(p), Stores(p), SessionStays
  PROVE  FlowInv'
  <1>0. /\ Channels /\ InOrder /\ IsSeq(responses')
        /\ \A r \in Elements(responses') : IsResponse(r) /\ ~Completes(r)
        /\ NamesEntry(p) /\ EntryKept /\ entry'.data = Stored(p)
        /\ session'.transfer_tag = session.transfer_tag
        /\ UNCHANGED executed /\ Ran' = Ran
    BY DEF TInv, Stores, Quiet, Ran
  <1>1. EntryRight'
    BY <1>0, StoringKeeps
  <1>2. MoversRight' /\ CommandsRight'
    BY <1>0, StoringMovers
  <1>3. InOrder'
    BY <1>0, QuietInOrder DEF Stores
  <1>4. Elements(toInitiator') = Elements(toInitiator) \cup Elements(responses')
    BY <1>0, TakesElements
  <1>5. /\ UNCHANGED initiator
        /\ \A t : WholeWrite(t)' <=> WholeWrite(t)
        /\ \A t : Total(t)' = Total(t) /\ Immediate(t)' = Immediate(t)
    BY TakesConstant DEF WholeWrite
  <1>6. AnswersRight'
    BY <1>0, <1>4, <1>5 DEF TInv, AnswersRight, IsResponse, Moves
  <1>7. ExecutedRight'
    BY <1>0, <1>5 DEF TInv, ExecutedRight
  <1>8. AskedRight'
    <2>1. \A y \in Elements(toInitiator') : y.opcode = "R2T" => y \in Elements(toInitiator)
      BY <1>0, <1>4 DEF IsResponse, Moves
    <2> QED BY <1>5, <2>1 DEF TInv, AskedRight
  <1> QED BY <1>1, <1>2, <1>3, <1>6, <1>7, <1>8 DEF FlowInv

\* The last data is stored: no more of it is on its way, so all of it is there.
LEMMA FinishFinds ==
  ASSUME TInv, NEW p, Takes(p), Finishes(p), SessionStays, WholeWrite(p.task)
  PROVE  DataOf(entry.cdb, BufferFromEntry(Stored(p))) = {p.task}
  <1> DEFINE t == p.task
             found == BufferFromEntry(Stored(p))
  <1>1. /\ p \in Movers /\ t = entry.cdb.task /\ entry.cdb.length = Total(t)
        /\ entry.total_length = Total(t)
        /\ Total(t) \in 0 .. MemorySize /\ MemorySize \in Nat
        /\ End(p) = p.offset + p.dsl
        /\ NamesEntry(p) /\ LastDataOut(p)
    BY FirstData DEF Finishes
  <1>2. Immediate(t) = 0 /\ Total(t) > 0
    BY DEF WholeWrite
  <1>3. \A o \in 0 .. Total(t) - 1 :
          \/ Stored(p)[o] = t
          \/ \E x \in Movers' : Covers(x, o) /\ Follows(p, x) /\ x.task = t
          \/ Beyond(o)
    BY <1>2, StoringKeeps DEF Finishes, Answering
  <1>4. End(p) = Total(t) /\ Moves(p) /\ p.tag = entry.transfer_tag
    BY <1>1 DEF LastDataOut, NamesEntry, Moves
  <1>5. ASSUME NEW o \in 0 .. Total(t) - 1 PROVE Stored(p)[o] = t
    <2>1. ASSUME NEW x \in Movers', Covers(x, o), Follows(p, x), x.task = t PROVE FALSE
      <3>1. x \in Movers /\ Moves(x)
        BY TakesMovers DEF TInv, Finishes, Answering, IsResponse
      <3>2. IsMover(x)
        BY <3>1 DEF TInv, MoversRight
      <3>3. Total(t) <= x.offset /\ x.offset <= o /\ x.offset \in Nat
        BY <1>4, <2>1, <3>1, <3>2 DEF Follows, Covers, IsMover
      <3> QED BY <1>1, <3>3
    <2>2. ASSUME Beyond(o) PROVE FALSE
      <3>1. Total(t) <= o
        BY <1>1, <1>4, <2>2 DEF Beyond
      <3> QED BY <1>1, <3>1
    <2> QED BY <1>3, <2>1, <2>2
  <1>6. ASSUME NEW o \in Offsets, o < Total(t) PROVE found[o] = t
    <2>1. o \in 0 .. Total(t) - 1
      BY <1>1, <1>6 DEF Offsets
    <2>2. found[o] = Stored(p)[o]
      BY <1>1, <1>6 DEF BufferFromEntry
    <2> QED BY <1>5, <2>1, <2>2
  <1>7. 0 \in Offsets /\ 0 < Total(t)
    BY <1>1, <1>2 DEF Offsets
  <1> HIDE DEF found
  <1>8. DataOf(entry.cdb, found) = {t}
    BY <1>1, <1>6, <1>7 DEF DataOf
  <1> QED BY <1>8 DEF found

\* So the device finds it.
LEMMA FinishKeeps ==
  ASSUME TInv, NEW p, Takes(p), Finishes(p), SessionStays
  PROVE  FlowInv'
  <1> DEFINE t == p.task
             e == [cdb |-> entry.cdb,
                   data |-> DataOf(entry.cdb, BufferFromEntry(Stored(p)))]
  <1>0. /\ Channels /\ InOrder /\ IsSeq(responses')
        /\ \A r \in Elements(responses') : IsResponse(r)
        /\ NamesEntry(p) /\ LastDataOut(p) /\ EntryKept /\ entry'.data = Stored(p)
        /\ session'.transfer_tag = session.transfer_tag
        /\ executed' = Append(executed, e)
        /\ Answering(responses', t)
    BY DEF TInv, Finishes, Answering
  <1>1. /\ t = entry.cdb.task /\ t \notin Ran /\ t \in initiator.sent /\ t \in Tasks
    BY <1>0, FirstData
  <1>2. e.cdb.task = t /\ (WholeWrite(t) => e.data = {t})
    BY <1>1, FinishFinds
  <1> HIDE DEF e
  <1>3. Ran' = Ran \cup {t}
    BY <1>0, <1>2, RanAppend DEF TInv, ExecutedRight
  <1>4. ExecutedRight'
    BY <1>0, <1>1, <1>2, ExecutedKeeps DEF TInv
  <1>5. InOrder' /\ AnswersRight' /\ AskedRight'
    BY <1>0, <1>1, <1>3, AnsweringKeeps DEF TInv
  <1>6. EntryRight'
    BY <1>0, StoringKeeps
  <1>7. MoversRight' /\ CommandsRight'
    BY <1>0, <1>3, StoringMovers
  <1> QED BY <1>4, <1>5, <1>6, <1>7 DEF FlowInv

\* A step of the target keeps the invariant, once the login is over.
LEMMA RequestKeeps ==
  ASSUME TInv, Started, NEW p, Takes(p)
  PROVE  TInv'
  <1>1. SentInv /\ NeverIgnored /\ Channels /\ iscsi_server_process(p)
    BY DEF TInv, Takes
  <1>2. IsRequest(p) /\ IsPDU(p) /\ p.opcode # "R2T"
    BY FirstIsRequest DEF IsRequest
  <1>3. TargetStep(p) /\ SessionStays
    BY <1>1, <1>2, RequestSteps
  <1>4. FlowInv' /\ IsSeq(responses')
    <2>1. CASE Drops(p)
      BY <1>2, <1>3, <2>1, DropKeeps DEF Drops, Quiet
    <2>2. CASE Asks(p)
      <3>1. Types
        BY <1>1 DEF SentInv
      <3>2. IsSeq(R2Ts(p))
        BY <1>2, <2>2, <3>1, R2TsRight DEF Asks
      <3> QED BY <1>2, <1>3, <2>2, <3>2, AskKeeps DEF Asks
    <2>3. CASE Runs(p)
      BY <1>3, <2>3, RunKeeps DEF Runs, Answering
    <2>4. CASE Stores(p)
      BY <1>3, <2>4, StoreKeeps DEF Stores, Quiet
    <2>5. CASE Finishes(p)
      BY <1>3, <2>5, FinishKeeps DEF Finishes, Answering
    <2> QED BY <1>3, <2>1, <2>2, <2>3, <2>4, <2>5 DEF TargetStep
  <1>5. Channels' /\ Elements(Pending) = Elements(Pending') \cup {p}
    BY <1>1, <1>4, TakesElements
  <1>6. SentInv'
    BY <1>1, <1>2, ProcessKeepsSent
  <1>7. NeverIgnored'
    BY <1>3 DEF SessionStays
  <1>8. Started'
    BY <1>5 DEF Started
  <1> QED BY <1>4, <1>5, <1>6, <1>7, <1>8 DEF TInv, FlowInv

\* The login is taken: it leaves a session, and what comes after it is commands.
LEMMA LoginKeeps ==
  ASSUME TInv, Unstarted, NEW p, Takes(p)
  PROVE  TInv'
  <1> DEFINE login == Login(plan.maxRecv, plan.maxR2T)
  <1>1. /\ SentInv /\ NeverIgnored /\ Channels /\ Shape /\ iscsi_server_process(p)
        /\ ~connection.session_reference /\ session.transfer_tag = 0
        /\ entry.transfer_tag = 0
    BY DEF TInv, SentInv, IInv, Takes, Unstarted
  <1>2. plan.maxRecv \in Nat /\ plan.maxR2T \in Nat
    BY <1>1, PlansAssumption DEF Channels
  <1>3. p = login /\ Pending' = <<>>
    <2>1. Pending = <<login>> /\ p = Head(Pending) /\ Pending' = Tail(Pending)
      BY DEF Unstarted, Takes
    <2> HIDE DEF login
    <2> QED BY <2>1
  <1>4. IsPDU(p) /\ p.opcode = "LOGIN"
    BY <1>2, <1>3, LoginIsPDU DEF Login
  <1>5. /\ UNCHANGED <<entry, executed>>
        /\ session'.transfer_tag = 0 /\ NeverIgnored'
        /\ Quiet(responses')
    BY <1>1, <1>3, LoginTargetSteps
  <1>6. Drops(p)
    BY <1>1, <1>4, <1>5 DEF Drops, NamesEntry
  <1>7. FlowInv'
    BY <1>1, <1>4, <1>6, DropKeeps
  <1>8. Channels'
    BY <1>1, <1>5, TakesElements DEF Quiet
  <1>9. SentInv'
    BY <1>1, <1>4, ProcessKeepsSent
  <1>10. Started'
    <2>1. DOMAIN <<>> = {}
      OBVIOUS
    <2> QED BY <1>3, <2>1 DEF Started, Elements
  <1> QED BY <1>5, <1>7, <1>8, <1>9, <1>10 DEF TInv, FlowInv

LEMMA TargetKeeps ==
  ASSUME TInv, Target
  PROVE  TInv'
  <1>1. PICK p : Takes(p)
    BY TargetTakes DEF TInv
  <1> QED BY <1>1, RequestKeeps, LoginKeeps DEF TInv

-------------------------------------------------------------------------------
(***************************************************************************)
(* What the initiator does.                                                *)
(***************************************************************************)
Rests == UNCHANGED <<vars, plan>>

\* The target has nothing to do with it.
LEMMA RestsConstant ==
  ASSUME Rests
  PROVE  /\ UNCHANGED entry /\ UNCHANGED executed /\ Ran' = Ran
         /\ UNCHANGED session /\ UNCHANGED connection
         /\ (FullFeature' <=> FullFeature) /\ (Normal' <=> Normal)
         /\ \A t : /\ Write(t)' <=> Write(t)
                   /\ Total(t)' = Total(t) /\ Immediate(t)' = Immediate(t)
                   /\ ScsiCommand(t)' = ScsiCommand(t)
         /\ \A x, o : Covers(x, o)' <=> Covers(x, o)
  BY DEF Rests, vars, stateVars, Ran, FullFeature, Normal, Write, Total, Immediate,
         ScsiCommand, Covers

LEMMA RestsKeeps ==
  ASSUME SentInv, NeverIgnored, Rests
  PROVE  SentInv' /\ NeverIgnored'
  <1>1. SentInv'
    BY SentKeeps DEF Rests
  <1>2. NeverIgnored'
    BY RestsConstant DEF NeverIgnored
  <1> QED BY <1>1, <1>2

\* x moves some of the bytes that y moves.
Inside(x, y) ==
  /\ Moves(x) /\ x.task = y.task /\ x.tag = y.tag
  /\ x.offset \in Nat /\ Length(x) \in Nat \ {0}
  /\ y.offset <= x.offset /\ End(x) <= End(y)

LEMMA InsideItself ==
  ASSUME MoversRight, NEW x \in Movers
  PROVE  Inside(x, x)
  BY DEF MoversRight, IsMover, Inside, Movers, End

\* When bytes only pass from one place to another, each is still accounted for.
LEMMA PassingKeeps ==
  ASSUME TInv, Rests, initiator.sent \subseteq initiator'.sent,
         \A x \in Movers' : \E y \in Movers : Inside(x, y),
         \A y \in Movers, o \in Nat : Covers(y, o) => \E x \in Movers' : Covers(x, o)
  PROVE  MoversRight' /\ EntryRight' /\ ExecutedRight'
  <1>0. initiator.sent \subseteq Tasks /\ Channels
    BY DEF TInv, Channels, IsInitiator
  <1>1. /\ UNCHANGED entry /\ UNCHANGED executed /\ Ran' = Ran
        /\ UNCHANGED session
        /\ (FullFeature' <=> FullFeature) /\ (Normal' <=> Normal)
        /\ \A t : /\ Write(t)' <=> Write(t)
                  /\ Total(t)' = Total(t) /\ Immediate(t)' = Immediate(t)
                  /\ ScsiCommand(t)' = ScsiCommand(t)
        /\ \A x, o : Covers(x, o)' <=> Covers(x, o)
    BY RestsConstant
  <1>2. ASSUME NEW x \in Movers', NEW y \in Movers, Inside(x, y)
        PROVE  /\ IsMover(y) /\ IsMover(x)'
               /\ End(x) <= End(y) /\ End(x) \in Nat /\ End(y) \in Nat
    <2>1. IsMover(y)
      BY DEF TInv, MoversRight
    <2>2. Total(y.task) \in Nat /\ Immediate(y.task) \in Nat
      BY <1>0, <2>1, PlanTypes DEF IsMover
    <2>3. End(x) <= End(y) /\ End(x) \in Nat /\ End(y) \in Nat
      BY <1>2, <2>1 DEF Inside, IsMover, End
    <2>4. End(x) <= Total(x.task) /\ Immediate(x.task) <= x.offset
      BY <1>2, <2>1, <2>2, <2>3 DEF Inside, IsMover
    <2>5. IsMover(x)'
      BY <1>1, <1>2, <2>1, <2>4 DEF Inside, IsMover
    <2> QED BY <2>1, <2>3, <2>5
  <1>3. MoversRight'
    BY <1>2 DEF MoversRight
  <1>4. EntryRight'
    <2> SUFFICES ASSUME entry.transfer_tag # 0 PROVE EntryRight'
      BY <1>1 DEF EntryRight
    <2> DEFINE u == entry.cdb.task
    <2>1. /\ FullFeature /\ Normal /\ u \in initiator.sent /\ Write(u)
          /\ entry.cdb = Cdb(ScsiCommand(u)) /\ entry.total_length = Total(u)
          /\ \A o \in Immediate(u) .. Total(u) - 1 :
               entry.data[o] = u \/ (\E x \in Movers : Covers(x, o)) \/ Beyond(o)
      BY DEF TInv, EntryRight
    <2>2. Total(u) \in Nat /\ Immediate(u) \in Nat
      BY <1>0, <2>1, PlanTypes
    <2>3. ASSUME NEW o \in Nat, Beyond(o) PROVE Beyond(o)'
      <3>1. ASSUME NEW x \in Movers', x.tag = entry.transfer_tag PROVE End(x) <= o
        <4>1. PICK y \in Movers : Inside(x, y)
          OBVIOUS
        <4>2. End(x) <= End(y) /\ End(x) \in Nat /\ End(y) \in Nat
          BY <1>2, <4>1
        <4>3. End(y) <= o
          BY <2>3, <3>1, <4>1 DEF Beyond, Inside
        <4> QED BY <4>2, <4>3
      <3> QED BY <1>1, <3>1 DEF Beyond
    <2>4. ASSUME NEW o \in Immediate(u) .. Total(u) - 1
          PROVE  entry.data[o] = u \/ (\E x \in Movers' : Covers(x, o)) \/ Beyond(o)'
      <3>1. o \in Nat
        BY <2>2
      <3> QED BY <2>1, <2>3, <3>1
    <2> QED BY <1>1, <2>1, <2>4 DEF EntryRight, Cdb
  <1>5. ExecutedRight'
    BY <1>1 DEF TInv, ExecutedRight, WholeWrite
  <1> QED BY <1>3, <1>4, <1>5

\* A PDU is sent.
LEMMA PendingAppend ==
  ASSUME Channels, NEW x, toTarget' = Append(toTarget, x), UNCHANGED received
  PROVE  /\ IsSeq(toTarget') /\ IsSeq(received')
         /\ Pending' = Append(Pending, x)
         /\ Elements(Pending') = Elements(Pending) \cup {x}
  <1> DEFINE S == Elements(received) \cup Elements(toTarget) \cup {x}
             longer == Append(toTarget, x)
  <1>1. IsSeq(received) /\ IsSeq(toTarget) /\ IsSeq(Pending)
    BY QueuesAreSeqs DEF Channels
  <1>2. IsSeq(longer) /\ Elements(Append(Pending, x)) = Elements(Pending) \cup {x}
    BY <1>1, SeqAppend
  <1>3. received \in Seq(S) /\ toTarget \in Seq(S) /\ x \in S
    BY <1>1 DEF IsSeq
  <1> HIDE DEF S
  <1>4. received \o Append(toTarget, x) = Append(received \o toTarget, x)
    BY <1>3
  <1>5. Pending' = Append(Pending, x)
    BY <1>4 DEF Pending
  <1> HIDE DEF longer
  <1>6. IsSeq(toTarget')
    BY <1>2 DEF longer
  <1> QED BY <1>1, <1>2, <1>5, <1>6

\* A command is sent.
LEMMA SendCommandKeeps ==
  ASSUME TInv, NEW t \in Tasks, SendCommand(t)
  PROVE  TInv'
  <1> DEFINE c == ScsiCommand(t)
             i == [initiator EXCEPT !.cmdSN = @ + 1, !.sent = @ \cup {t}]
  <1>0. /\ t \notin initiator.sent /\ initiator.cmdSN <= initiator.maxCmdSN
        /\ toTarget' = Append(toTarget, c) /\ UNCHANGED received
        /\ initiator' = i /\ UNCHANGED <<plan, toInitiator>> /\ Rests
    BY DEF SendCommand, Rests
  <1>1. /\ SentInv /\ NeverIgnored /\ Channels /\ InOrder /\ IsInitiator(initiator)
        /\ initiator.sent \subseteq Tasks /\ IsSeq(Pending)
    BY QueuesAreSeqs DEF TInv, Channels, IsInitiator
  <1>2. c.opcode = "SCSI_CMD" /\ c.task = t
    BY DEF ScsiCommand
  <1>3. /\ IsInitiator(i) /\ i.sent = initiator.sent \cup {t}
        /\ i.answers = initiator.answers /\ i.r2ts = initiator.r2ts
        /\ i.served = initiator.served /\ i.asked = initiator.asked
    <2>1. HasFields(initiator)
      BY <1>1 DEF IsInitiator
    <2>2. /\ HasFields(i) /\ i.sent = initiator.sent \cup {t}
          /\ i.answers = initiator.answers /\ i.r2ts = initiator.r2ts
          /\ i.served = initiator.served /\ i.asked = initiator.asked
      <3> DEFINE n == initiator.cmdSN + 1
                 S == initiator.sent \cup {t}
      <3>1. i = [initiator EXCEPT !.cmdSN = n, !.sent = S]
        OBVIOUS
      <3> HIDE DEF n, S, i
      <3>2. /\ HasFields(i) /\ i.sent = S
            /\ i.answers = initiator.answers /\ i.r2ts = initiator.r2ts
            /\ i.served = initiator.served /\ i.asked = initiator.asked
        BY ONLY <2>1, <3>1 DEF HasFields
      <3> QED BY <3>2 DEF S
    <2> HIDE DEF i
    <2> QED BY <1>1, <2>2 DEF IsInitiator
  <1> HIDE DEF c, i
  <1>4. /\ IsSeq(toTarget') /\ IsSeq(received')
        /\ Pending' = Append(Pending, c)
        /\ Elements(Pending') = Elements(Pending) \cup {c}
    BY <1>0, <1>1, PendingAppend
  <1>5. Left' = Left
    BY <1>0, <1>3 DEF Left
  <1>6. Movers' = Movers
    BY <1>0, <1>2, <1>4, <1>5 DEF Movers, Moves
  <1>7. Channels'
    BY <1>0, <1>1, <1>3, <1>4 DEF Channels
  <1>8. Started'
    <2>1. Started
      BY <1>0 DEF TInv, Unstarted
    <2> QED BY <1>2, <1>4, <2>1 DEF Started
  <1>9. \A x \in Elements(Pending) : x.opcode = "SCSI_CMD" => x.task \in initiator.sent
    BY DEF TInv, CommandsRight
  <1>10. InOrder'
    <2>1. \A y \in Elements(Pending) : Ordered(y, c)
      BY <1>0, <1>2, <1>9 DEF Ordered, Follows, Differs, Moves, Completes
    <2>2. Sorted(Pending')
      <3> DEFINE longer == Append(Pending, c)
      <3>1. Sorted(longer)
        BY <1>1, <2>1, SortedAppend DEF InOrder
      <3> HIDE DEF longer
      <3>2. Pending' = longer
        BY <1>4 DEF longer
      <3> QED BY <3>1, <3>2 DEF Sorted
    <2>3. \A x : Follows(c, x)
      BY <1>2 DEF Follows, Moves
    <2> QED BY <1>0, <1>1, <1>4, <1>5, <2>2, <2>3 DEF InOrder, Before, Sorted
  <1>11. MoversRight' /\ EntryRight' /\ ExecutedRight'
    <2>1. \A x \in Movers' : \E y \in Movers : Inside(x, y)
      BY <1>6, InsideItself DEF TInv
    <2> QED BY <1>0, <1>3, <1>6, <2>1, PassingKeeps
  <1>12. /\ UNCHANGED entry /\ Ran' = Ran
         /\ \A u : ScsiCommand(u)' = ScsiCommand(u)
         /\ \A u : Total(u)' = Total(u) /\ Immediate(u)' = Immediate(u)
    BY <1>0, RestsConstant
  <1>13. Ran \subseteq initiator.sent
    BY DEF TInv, ExecutedRight, Ran
  <1>14. CommandsRight'
    <2>1. ASSUME NEW x \in Elements(Pending'), x.opcode = "SCSI_CMD"
          PROVE  /\ x.task \in i.sent \ Ran
                 /\ x = ScsiCommand(x.task)
                 /\ \A y \in Movers : y.task # x.task
                 /\ initiator.asked[x.task] = {}
                 /\ entry.transfer_tag # 0 => entry.cdb.task # x.task
      <3>1. CASE x \in Elements(Pending)
        BY <1>3, <2>1, <3>1 DEF TInv, CommandsRight
      <3>2. CASE x = c
        <4>1. x.task = t /\ x = ScsiCommand(t)
          BY <1>2, <3>2 DEF c
        <4>2. \A y \in Movers : y.task \in initiator.sent
          BY DEF TInv, MoversRight, IsMover
        <4>3. initiator.asked[t] = {}
          BY <1>0 DEF TInv, AskedRight
        <4>4. entry.transfer_tag # 0 => entry.cdb.task \in initiator.sent
          BY DEF TInv, EntryRight
        <4> QED BY <1>0, <1>3, <1>13, <4>1, <4>2, <4>3, <4>4
      <3> QED BY <1>4, <3>1, <3>2
    <2> QED BY <1>0, <1>3, <1>6, <1>12, <2>1 DEF CommandsRight
  <1>15. AnswersRight'
    BY <1>0, <1>3, <1>12 DEF TInv, AnswersRight
  <1>16. AskedRight'
    BY <1>0, <1>3, <1>12 DEF TInv, AskedRight
  <1>17. SentInv' /\ NeverIgnored'
    BY <1>0, <1>1, RestsKeeps
  <1> QED BY <1>7, <1>8, <1>10, <1>11, <1>14, <1>15, <1>16, <1>17 DEF TInv

\* Data is sent for the R2T being served: the Data-Out takes the place of the bytes
\* it carries, and the rest stays behind it.
Carries(d, whole, n) ==
  /\ d.opcode = "SCSI_DATA_OUT" /\ d.task = whole.task /\ d.tag = whole.tag
  /\ d.offset = whole.offset /\ d.dsl = n

Remains(rest, whole, n) ==
  /\ rest.opcode = "R2T" /\ rest.task = whole.task /\ rest.tag = whole.tag
  /\ rest.offset = whole.offset + n /\ rest.length = whole.length - n

LEMMA SplitInside ==
  ASSUME TInv, NEW whole \in Movers, whole.opcode = "R2T", NEW n \in Nat \ {0},
         n <= whole.length, NEW d, Carries(d, whole, n),
         NEW rest, Remains(rest, whole, n)
  PROVE  /\ Inside(d, whole) /\ End(d) = rest.offset
         /\ n # whole.length => Inside(rest, whole) /\ End(rest) = End(whole)
         /\ \A o \in Nat : Covers(whole, o) =>
              Covers(d, o) \/ (n # whole.length /\ Covers(rest, o))
  <1>1. whole.offset \in Nat /\ whole.length \in Nat \ {0}
    BY DEF TInv, MoversRight, IsMover, Length
  <1>2. /\ End(whole) = whole.offset + whole.length
        /\ End(d) = whole.offset + n
        /\ End(rest) = whole.offset + whole.length
    BY <1>1 DEF End, Length, Carries, Remains
  <1>3. Inside(d, whole)
    BY <1>1, <1>2 DEF Inside, Moves, Length, Carries
  <1>4. ASSUME n # whole.length PROVE Inside(rest, whole)
    <2>1. Length(rest) \in Nat \ {0}
      BY <1>1, <1>4 DEF Length, Remains
    <2> QED BY <1>1, <1>2, <2>1 DEF Inside, Moves, Remains
  <1>5. ASSUME NEW o \in Nat, Covers(whole, o), ~Covers(d, o)
        PROVE  n # whole.length /\ Covers(rest, o)
    <2>1. whole.offset + n <= o /\ o < whole.offset + whole.length
      BY <1>1, <1>2, <1>5 DEF Covers, Carries
    <2> QED BY <1>1, <1>2, <1>5, <2>1 DEF Covers, Remains
  <1> QED BY <1>2, <1>3, <1>4, <1>5 DEF Remains

\* The order of what moves extends to what moves some of the same bytes.
LEMMA InsideFollows ==
  ASSUME TInv, NEW whole \in Movers, NEW x, Inside(x, whole),
         NEW y, y \in Movers \/ ~Moves(y)
  PROVE  /\ Follows(whole, y) => Follows(x, y)
         /\ Follows(y, whole) => Follows(y, x)
  <1>1. /\ whole.offset \in Nat /\ End(whole) \in Nat /\ Moves(whole)
        /\ x.offset \in Nat /\ End(x) \in Nat
        /\ whole.offset <= x.offset /\ End(x) <= End(whole) /\ x.task = whole.task
    BY DEF Movers, TInv, MoversRight, IsMover, Inside, End
  <1>2. CASE y \in Movers
    <2>1. y.offset \in Nat /\ End(y) \in Nat
      BY <1>2 DEF TInv, MoversRight, IsMover, End
    <2> QED BY <1>1, <2>1 DEF Follows
  <1>3. CASE ~Moves(y)
    BY <1>3 DEF Follows
  <1> QED BY <1>2, <1>3

\* A sequence is sorted when its first element is before the others, and they are.
LEMMA SortedHead ==
  ASSUME NEW s, IsSeq(s), s # <<>>, Sorted(Tail(s)),
         \A y \in Elements(Tail(s)) : Ordered(Head(s), y)
  PROVE  Sorted(s)
  <1> DEFINE t == Tail(s)
  <1>1. /\ DOMAIN t = 1 .. Len(s) - 1 /\ Head(s) = s[1]
        /\ \A i \in DOMAIN t : i + 1 \in DOMAIN s /\ t[i] = s[i + 1]
    BY SeqTail
  <1>2. Len(s) \in Nat /\ DOMAIN s = 1 .. Len(s)
    BY DEF IsSeq
  <1>3. Sorted(t) /\ \A y \in Elements(t) : Ordered(Head(s), y)
    OBVIOUS
  <1> HIDE DEF t
  <1>4. ASSUME NEW i \in DOMAIN s, NEW j \in DOMAIN s, i < j
        PROVE  Ordered(s[i], s[j])
    <2>1. j - 1 \in DOMAIN t /\ s[j] = t[j - 1] /\ t[j - 1] \in Elements(t)
      BY <1>1, <1>2, <1>4 DEF Elements
    <2>2. CASE i = 1
      BY <1>1, <1>3, <2>1, <2>2
    <2>3. CASE i # 1
      <3>1. i - 1 \in DOMAIN t /\ s[i] = t[i - 1] /\ i - 1 < j - 1
        BY <1>1, <1>2, <1>4, <2>3
      <3> QED BY <1>3, <2>1, <3>1 DEF Sorted
    <2> QED BY <2>2, <2>3
  <1> QED BY <1>4 DEF Sorted

\* What the initiator has yet to send after a Data-Out.
Splits(whole, n, d, rest) ==
  /\ whole \in Movers /\ whole.opcode = "R2T"
  /\ n \in Nat \ {0} /\ n <= whole.length
  /\ Carries(d, whole, n) /\ Remains(rest, whole, n)
  /\ Pending' = Append(Pending, d)
  /\ Left # <<>> /\ Head(Left) = whole
  /\ IF n = whole.length
       THEN Left' = Tail(Left)
       ELSE /\ IsSeq(Left') /\ Left' # <<>>
            /\ Head(Left') = rest /\ Tail(Left') = Tail(Left)

LEMMA SendDataOutSplits ==
  ASSUME TInv, SendDataOut
  PROVE  /\ Channels' /\ Started'
         /\ \E whole, n, d, rest : Splits(whole, n, d, rest)
  <1> DEFINE r2ts == initiator.r2ts
             gone == initiator.served
             r2t == Head(r2ts)
             n == min(plan.dataOutLength, r2t.length - gone)
             final == gone + n = r2t.length
             whole == Rest(r2t, gone)
             rest == Rest(r2t, gone + n)
             others == LeftOf(Tail(r2ts), 0)
             d == [opcode |-> "SCSI_DATA_OUT", task |-> r2t.task, tag |-> r2t.tag,
                   offset |-> r2t.offset + gone, dsl |-> n,
                   final |-> final, cmdSN |-> 0]
             s == IF final THEN Tail(r2ts) ELSE r2ts
             m == IF final THEN 0 ELSE gone + n
  <1>1. /\ r2ts # <<>> /\ toTarget' = Append(toTarget, d) /\ UNCHANGED received
        /\ initiator' = [initiator EXCEPT !.r2ts = s, !.served = m]
        /\ UNCHANGED <<plan, toInitiator>>
    BY DEF SendDataOut
  <1>2. /\ Channels /\ MoversRight /\ HasFields(initiator) /\ IsSeq(r2ts)
        /\ initiator.sent \subseteq Tasks
        /\ \A r \in Elements(r2ts) : r.offset \in Nat /\ r.length \in Nat
        /\ gone \in Nat /\ initiator.asked = [t \in Tasks |-> initiator.asked[t]]
    BY DEF TInv, Channels, IsInitiator
  <1>3. plan.dataOutLength \in Nat \ {0}
    BY <1>2, PlansAssumption DEF Channels
  <1>4. /\ r2t \in Elements(r2ts) /\ IsSeq(Tail(r2ts))
        /\ Elements(r2ts) = Elements(Tail(r2ts)) \cup {r2t}
    BY <1>1, <1>2, SeqTail
  <1>5. r2t.offset \in Nat /\ r2t.length \in Nat
    BY <1>2, <1>4
  <1>6. /\ IsSeq(Left) /\ Left # <<>> /\ Head(Left) = whole /\ Tail(Left) = others
        /\ IsSeq(others) /\ whole \in Elements(Left)
    BY <1>1, <1>2, LeftTail DEF Left
  <1>7. /\ whole.opcode = "R2T" /\ whole.task = r2t.task /\ whole.tag = r2t.tag
        /\ whole.offset = r2t.offset + gone /\ whole.length = r2t.length - gone
    BY DEF Rest
  <1>8. whole \in Movers /\ whole.length \in Nat \ {0}
    <2>1. whole \in Movers
      BY <1>6, <1>7 DEF Movers, Moves
    <2> HIDE DEF whole
    <2>2. Length(whole) = whole.length
      BY <1>7 DEF Length
    <2> QED BY <1>2, <2>1, <2>2 DEF MoversRight, IsMover
  <1>9. /\ n \in Nat \ {0} /\ n <= whole.length
        /\ final <=> n = whole.length
    BY <1>2, <1>3, <1>5, <1>7, <1>8 DEF min
  <1>10. Carries(d, whole, n)
    BY <1>7 DEF Carries
  <1>11. Remains(rest, whole, n)
    <2>1. /\ rest.opcode = "R2T" /\ rest.task = r2t.task /\ rest.tag = r2t.tag
          /\ rest.offset = r2t.offset + (gone + n)
          /\ rest.length = r2t.length - (gone + n)
      BY DEF Rest
    <2> HIDE DEF rest, whole, n, r2t, gone
    <2> QED BY <1>2, <1>5, <1>7, <1>9, <2>1 DEF Remains
  <1>12. d.opcode = "SCSI_DATA_OUT" /\ d.cmdSN = 0
    OBVIOUS
  <1>13. /\ IsSeq(s) /\ Elements(s) \subseteq Elements(r2ts)
         /\ m \in Nat /\ (s = <<>> => m = 0)
    BY <1>1, <1>2, <1>4, <1>9
  <1> HIDE DEF d, s, m, final
  <1>14. /\ HasFields(initiator') /\ initiator'.r2ts = s /\ initiator'.served = m
         /\ initiator'.sent = initiator.sent /\ initiator'.asked = initiator.asked
    BY <1>1, <1>2 DEF HasFields
  <1>15. IsInitiator(initiator')
    BY <1>2, <1>13, <1>14 DEF IsInitiator
  <1>16. /\ IsSeq(toTarget') /\ IsSeq(received')
         /\ Pending' = Append(Pending, d)
         /\ Elements(Pending') = Elements(Pending) \cup {d}
    BY <1>1, <1>2, PendingAppend
  <1>17. Channels'
    BY <1>1, <1>2, <1>15, <1>16 DEF Channels
  <1>18. Started'
    <2>1. Started
      BY <1>1 DEF TInv, Unstarted
    <2> QED BY <1>12, <1>16, <2>1 DEF Started
  <1>19. Left' = LeftOf(s, m)
    BY <1>14 DEF Left
  <1>20. CASE final
    <2>1. Left' = others
      BY <1>19, <1>20 DEF s, m
    <2> HIDE DEF whole, rest, others, n
    <2> QED BY <1>6, <1>7, <1>8, <1>9, <1>10, <1>11, <1>16, <1>17, <1>18, <1>20, <2>1 DEF Splits
  <1>21. CASE ~final
    <2>1. Left' = LeftOf(r2ts, gone + n)
      BY <1>19, <1>21 DEF s, m
    <2> HIDE DEF n
    <2>2. IsSeq(Left') /\ Left' # <<>> /\ Head(Left') = rest /\ Tail(Left') = others
      BY <1>1, <1>2, <2>1, LeftTail
    <2> HIDE DEF whole, rest, others
    <2> QED BY <1>6, <1>7, <1>8, <1>9, <1>10, <1>11, <1>16, <1>17, <1>18, <1>21, <2>2 DEF Splits
  <1> QED BY <1>20, <1>21

LEMMA SendDataOutKeeps ==
  ASSUME TInv, SendDataOut
  PROVE  TInv'
  <1>1. /\ Rests /\ UNCHANGED <<plan, toInitiator>>
        /\ initiator'.sent = initiator.sent /\ initiator'.asked = initiator.asked
        /\ initiator'.answers = initiator.answers
    BY DEF SendDataOut, Rests, TInv, Channels, IsInitiator, HasFields
  <1>2. /\ SentInv /\ NeverIgnored /\ Channels /\ InOrder /\ MoversRight
        /\ IsSeq(Pending) /\ IsSeq(Left) /\ IsSeq(toInitiator)
    BY QueuesAreSeqs DEF TInv
  <1>3. Channels' /\ Started'
    BY SendDataOutSplits
  <1>4. PICK whole, n, d, rest : Splits(whole, n, d, rest)
    BY SendDataOutSplits
  <1> DEFINE others == Tail(Left)
             split == n # whole.length
  <1>5. /\ whole \in Movers
        /\ Inside(d, whole) /\ End(d) = rest.offset
        /\ split => Inside(rest, whole) /\ End(rest) = End(whole)
        /\ \A o \in Nat : Covers(whole, o) => Covers(d, o) \/ (split /\ Covers(rest, o))
    BY <1>4, SplitInside DEF Splits
  <1>6. d.opcode = "SCSI_DATA_OUT" /\ rest.opcode = "R2T" /\ whole.opcode = "R2T"
    BY <1>4 DEF Splits, Carries, Remains
  <1>7. Pending' = Append(Pending, d) /\ Elements(Pending') = Elements(Pending) \cup {d}
    BY <1>2, <1>4, SeqAppend DEF Splits
  <1>8. /\ IsSeq(others) /\ Sorted(others) /\ Left # <<>> /\ Head(Left) = whole
        /\ Elements(Left) = Elements(others) \cup {whole}
        /\ \A y \in Elements(others) : Ordered(whole, y)
    BY <1>2, <1>4, SeqTail, SortedTail DEF Splits, InOrder
  <1>9. ~split => Left' = others
    BY <1>4 DEF Splits
  <1>10. split => /\ IsSeq(Left') /\ Left' # <<>>
                  /\ Head(Left') = rest /\ Tail(Left') = others
                  /\ Elements(Left') = Elements(others) \cup {rest}
    BY <1>4, SeqTail DEF Splits
  <1> HIDE DEF others, split
  <1>11. \A y : Follows(whole, y) /\ (y \in Movers \/ ~Moves(y)) =>
                  Follows(d, y) /\ (split => Follows(rest, y))
    BY <1>5, InsideFollows
  <1>12. \A y : Follows(y, whole) /\ (y \in Movers \/ ~Moves(y)) =>
                  Follows(y, d) /\ (split => Follows(y, rest))
    BY <1>5, InsideFollows
  <1>13. \A y \in Elements(Pending) \cup Elements(others) \cup Elements(toInitiator) :
           y \in Movers \/ ~Moves(y)
    BY <1>8 DEF Movers
  <1>14. /\ \A y \in Elements(Pending) : Follows(y, whole)
         /\ \A y \in Elements(others) : Follows(whole, y)
         /\ \A y \in Elements(toInitiator) : Follows(whole, y)
    BY <1>2, <1>8 DEF InOrder, Before, Ordered
  <1>15. Elements(Left') = IF split THEN Elements(others) \cup {rest} ELSE Elements(others)
    BY <1>9, <1>10
  <1>16. Sorted(Pending')
    <2> DEFINE longer == Append(Pending, d)
    <2>1. \A y \in Elements(Pending) : Ordered(y, d)
      BY <1>6, <1>12, <1>13, <1>14 DEF Ordered, Differs, Completes
    <2>2. Sorted(longer)
      BY <1>2, <2>1, SortedAppend DEF InOrder
    <2> HIDE DEF longer
    <2>3. Pending' = longer
      BY <1>7 DEF longer
    <2> QED BY <2>2, <2>3 DEF Sorted
  <1>17. Sorted(Left')
    <2>1. CASE ~split
      BY <1>8, <1>9, <2>1 DEF Sorted
    <2>2. CASE split
      <3> DEFINE left == Left'
      <3>1. /\ IsSeq(left) /\ left # <<>>
            /\ Head(left) = rest /\ Tail(left) = others
        BY <1>10, <2>2
      <3> HIDE DEF left
      <3>2. \A y \in Elements(others) : Ordered(rest, y)
        BY <1>6, <1>11, <1>13, <1>14, <2>2 DEF Ordered, Differs, Completes
      <3>3. Sorted(left)
        BY <1>8, <3>1, <3>2, SortedHead
      <3> QED BY <3>3 DEF Sorted, left
    <2> QED BY <2>1, <2>2
  <1>18. InOrder'
    <2>1. Follows(d, rest)
      <3>1. End(d) \in Nat
        BY <1>5, <1>2 DEF Inside, End
      <3> QED BY <1>5, <3>1 DEF Follows
    <2>2. Before(Pending', Left')
      <3>1. \A x \in Elements(Pending), y \in Elements(others) : Follows(x, y)
        BY <1>2, <1>8 DEF InOrder, Before
      <3> QED BY <1>7, <1>11, <1>12, <1>13, <1>14, <1>15, <2>1, <3>1 DEF Before
    <2>3. Before(Pending', toInitiator')
      BY <1>1, <1>2, <1>7, <1>11, <1>13, <1>14 DEF Before, InOrder
    <2>4. Before(Left', toInitiator')
      <3>1. \A x \in Elements(others), y \in Elements(toInitiator) : Follows(x, y)
        BY <1>2, <1>8 DEF InOrder, Before
      <3> QED BY <1>1, <1>11, <1>13, <1>14, <1>15, <3>1 DEF Before
    <2> QED BY <1>1, <1>2, <1>16, <1>17, <2>2, <2>3, <2>4 DEF InOrder, Sorted
  <1>19. /\ \A x \in Movers' : x \in Movers \/ x = d \/ (split /\ x = rest)
         /\ \A x \in Movers : x \in Movers' \/ x = whole
         /\ d \in Movers' /\ (split => rest \in Movers')
    BY <1>1, <1>6, <1>7, <1>8, <1>15 DEF Movers, Moves
  <1>20. MoversRight' /\ EntryRight' /\ ExecutedRight'
    <2>1. \A x \in Movers' : \E y \in Movers : Inside(x, y)
      BY <1>2, <1>5, <1>19, InsideItself
    <2>2. \A y \in Movers, o \in Nat : Covers(y, o) => \E x \in Movers' : Covers(x, o)
      BY <1>5, <1>19
    <2> QED BY <1>1, <2>1, <2>2, PassingKeeps
  <1>21. /\ UNCHANGED entry /\ Ran' = Ran
         /\ \A u : ScsiCommand(u)' = ScsiCommand(u)
         /\ \A u : Total(u)' = Total(u) /\ Immediate(u)' = Immediate(u)
    BY <1>1, RestsConstant
  <1>22. CommandsRight'
    <2>1. \A x \in Movers' : \E y \in Movers : x.task = y.task
      BY <1>5, <1>19 DEF Inside
    <2> QED BY <1>1, <1>6, <1>7, <1>21, <2>1 DEF TInv, CommandsRight
  <1>23. AnswersRight' /\ AskedRight'
    BY <1>1, <1>21 DEF TInv, AnswersRight, AskedRight
  <1>24. SentInv' /\ NeverIgnored'
    BY <1>1, <1>2, RestsKeeps
  <1> QED BY <1>3, <1>18, <1>20, <1>22, <1>23, <1>24 DEF TInv

\* The initiator reads a response: what it takes out of the stream.
LEMMA ReceiveTakes ==
  ASSUME TInv, Receive
  PROVE  LET r == Head(toInitiator)
         IN /\ Rests /\ UNCHANGED <<plan, toTarget, received>> /\ Pending' = Pending
            /\ r \in Elements(toInitiator) /\ Started
            /\ IsSeq(toInitiator') /\ Sorted(toInitiator')
            /\ Elements(toInitiator) = Elements(toInitiator') \cup {r}
            /\ \A y \in Elements(toInitiator') : Ordered(r, y)
            /\ Moves(r) => r \in Movers /\ IsMover(r)
            /\ HasFields(initiator)
  <1>1. toInitiator # <<>> /\ toInitiator' = Tail(toInitiator)
    BY DEF Receive
  <1>2. IsSeq(toInitiator) /\ Sorted(toInitiator) /\ MoversRight /\ HasFields(initiator)
    BY DEF TInv, Channels, InOrder, IsInitiator
  <1> DEFINE s == Tail(toInitiator)
             r == Head(toInitiator)
  <1>3. /\ IsSeq(s) /\ Sorted(s) /\ r \in Elements(toInitiator)
        /\ Elements(toInitiator) = Elements(s) \cup {r}
        /\ \A y \in Elements(s) : Ordered(r, y)
    BY <1>1, <1>2, SeqTail, SortedTail
  <1>4. toInitiator' = s
    BY <1>1
  <1> HIDE DEF s, r
  <1>5. IsSeq(toInitiator') /\ Sorted(toInitiator')
    BY <1>3, <1>4 DEF Sorted
  <1>6. Moves(r) => r \in Movers /\ IsMover(r)
    BY <1>2, <1>3 DEF Movers, MoversRight
  <1>7. Started
    BY <1>1 DEF TInv, Unstarted
  <1>8. Rests /\ UNCHANGED <<plan, toTarget, received>> /\ Pending' = Pending
    BY DEF Receive, Rests, Pending
  <1> QED BY <1>2, <1>3, <1>4, <1>5, <1>6, <1>7, <1>8 DEF r

\* A response that asks for nothing: only answers may change.
LEMMA ReceiveOtherKeeps ==
  ASSUME TInv, Receive, Head(toInitiator).opcode # "R2T"
  PROVE  TInv'
  <1> DEFINE r == Head(toInitiator)
  <1>1. /\ Rests /\ UNCHANGED <<plan, toTarget, received>> /\ Pending' = Pending
        /\ r \in Elements(toInitiator) /\ Started
        /\ IsSeq(toInitiator') /\ Sorted(toInitiator')
        /\ Elements(toInitiator) = Elements(toInitiator') \cup {r}
        /\ \A y \in Elements(toInitiator') : Ordered(r, y)
        /\ HasFields(initiator)
    BY ReceiveTakes
  <1> DEFINE granted == Granted(r)
             counted == [initiator.answers EXCEPT ![r.task] = @ + 1]
  <1>2. initiator' = IF Completes(r)
                       THEN [initiator EXCEPT !.maxCmdSN = granted, !.answers = counted]
                       ELSE [initiator EXCEPT !.maxCmdSN = granted]
    BY DEF Receive
  <1> HIDE DEF granted, counted, r
  <1>3. /\ HasFields(initiator')
        /\ initiator'.sent = initiator.sent /\ initiator'.asked = initiator.asked
        /\ initiator'.r2ts = initiator.r2ts /\ initiator'.served = initiator.served
        /\ initiator'.answers = IF Completes(r) THEN counted ELSE initiator.answers
    <2>1. CASE Completes(r)
      BY <1>1, <1>2, <2>1 DEF HasFields
    <2>2. CASE ~Completes(r)
      BY <1>1, <1>2, <2>2 DEF HasFields
    <2> QED BY <2>1, <2>2
  <1>4. /\ SentInv /\ NeverIgnored /\ Channels /\ InOrder /\ IsInitiator(initiator)
    BY DEF TInv, Channels
  <1>5. IsInitiator(initiator')
    BY <1>3, <1>4 DEF IsInitiator
  <1>6. Channels'
    BY <1>1, <1>4, <1>5 DEF Channels
  <1>7. Left' = Left
    BY <1>3 DEF Left
  <1>8. Movers' \subseteq Movers /\ (\A x \in Movers : x \in Movers' \/ x = r)
    BY <1>1, <1>7 DEF Movers
  <1>9. Started' /\ SentInv' /\ NeverIgnored'
    BY <1>1, <1>4, RestsKeeps DEF Started
  <1>10. InOrder'
    BY <1>1, <1>4, <1>7 DEF InOrder, Before, Sorted
  <1>11. r.opcode \in {"SCSI_CMD", "SCSI_DATA_OUT", "R2T"} => ~Completes(r)
    BY DEF Completes
  <1>12. UNCHANGED entry /\ Ran' = Ran
         /\ (\A u : ScsiCommand(u)' = ScsiCommand(u))
         /\ \A u : Total(u)' = Total(u) /\ Immediate(u)' = Immediate(u)
    BY <1>1, RestsConstant
  <1>13. CommandsRight'
    BY <1>1, <1>3, <1>8, <1>12 DEF TInv, CommandsRight
  <1>14. AskedRight'
    BY <1>1, <1>3, <1>12 DEF TInv, AskedRight
  <1>15. AnswersRight'
    <2>1. initiator.answers \in [Tasks -> {0, 1}]
      BY DEF TInv, AnswersRight
    <2>2. CASE ~Completes(r)
      BY <1>1, <1>3, <1>12, <2>2 DEF TInv, AnswersRight
    <2>3. CASE Completes(r)
      <3>1. r.task \in Ran /\ initiator.answers[r.task] = 0 /\ Ran \subseteq Tasks
        BY <1>1, <1>4, <2>3 DEF TInv, AnswersRight, ExecutedRight, Ran, IsInitiator
      <3>2. /\ counted \in [Tasks -> {0, 1}]
            /\ \A t \in Tasks : counted[t] = IF t = r.task THEN 1 ELSE initiator.answers[t]
        BY <2>1, <3>1 DEF counted
      <3>3. \A x \in Elements(toInitiator') :
              Completes(x) => x.task # r.task /\ x.task \in Ran /\ initiator.answers[x.task] = 0
        BY <1>1, <2>3 DEF Ordered, Differs, TInv, AnswersRight
      <3>4. \A t \in Tasks : initiator.answers[t] = 1 => t \in Ran
        BY DEF TInv, AnswersRight
      <3>5. initiator'.answers = counted
        BY <1>3, <2>3
      <3>6. \A x \in Elements(toInitiator') : x.opcode # "SCSI_DATA_OUT"
        BY <1>1 DEF TInv, AnswersRight
      <3> QED BY <1>12, <3>1, <3>2, <3>3, <3>4, <3>5, <3>6 DEF AnswersRight
    <2> QED BY <2>2, <2>3
  <1>16. MoversRight' /\ EntryRight' /\ ExecutedRight'
    <2>1. \A x \in Movers' : \E y \in Movers : Inside(x, y)
      BY <1>8, InsideItself DEF TInv
    <2>2. r \in Movers' \/ r \notin Movers
      BY <1>1 DEF Movers, Moves, r, TInv, AnswersRight
    <2>3. \A y \in Movers, o \in Nat : Covers(y, o) => \E x \in Movers' : Covers(x, o)
      BY <1>8, <2>2
    <2> QED BY <1>1, <1>3, <2>1, <2>3, PassingKeeps
  <1> QED BY <1>6, <1>9, <1>10, <1>13, <1>14, <1>15, <1>16 DEF TInv

\* An R2T: what it asks for is left to send.
LEMMA ReceiveR2TKeeps ==
  ASSUME TInv, Receive, Head(toInitiator).opcode = "R2T"
  PROVE  TInv'
  <1> DEFINE r == Head(toInitiator)
  <1>1. /\ Rests /\ UNCHANGED <<plan, toTarget, received>> /\ Pending' = Pending
        /\ r \in Elements(toInitiator) /\ Started
        /\ IsSeq(toInitiator') /\ Sorted(toInitiator')
        /\ Elements(toInitiator) = Elements(toInitiator') \cup {r}
        /\ \A y \in Elements(toInitiator') : Ordered(r, y)
        /\ Moves(r) => r \in Movers /\ IsMover(r)
        /\ HasFields(initiator)
    BY ReceiveTakes
  <1>a. r.opcode = "R2T"
    OBVIOUS
  <1> DEFINE granted == Granted(r)
             range == <<r.offset, r.length>>
             asked == [initiator.asked EXCEPT ![r.task] = @ \cup {range}]
             r2ts == Append(initiator.r2ts, r)
             rest == Rest(r, 0)
  <1>2. initiator' = [initiator EXCEPT !.maxCmdSN = granted, !.r2ts = r2ts, !.asked = asked]
    <2>1. initiator' = [initiator EXCEPT
                          !.maxCmdSN = granted, !.r2ts = Append(@, r),
                          !.asked[r.task] = @ \cup {range}]
      BY DEF Receive, Completes
    <2> HIDE DEF granted, range, r
    <2> QED BY ONLY <2>1, <1>1 DEF HasFields
  <1>3. /\ r \in Movers /\ IsMover(r) /\ Length(r) = r.length
        /\ r.offset \in Nat /\ r.length \in Nat \ {0} /\ r.task \in initiator.sent
    BY <1>1, <1>a DEF Moves, IsMover, Length
  <1>4. /\ SentInv /\ NeverIgnored /\ Channels /\ InOrder /\ MoversRight
        /\ initiator.sent \subseteq Tasks /\ IsSeq(initiator.r2ts)
        /\ (initiator.r2ts = <<>> => initiator.served = 0)
        /\ initiator.served \in Nat
        /\ initiator.asked = [t \in Tasks |-> initiator.asked[t]]
        /\ \A x \in Elements(initiator.r2ts) : x.offset \in Nat /\ x.length \in Nat
    BY DEF TInv, Channels, IsInitiator
  <1>5. /\ IsSeq(r2ts) /\ Elements(r2ts) = Elements(initiator.r2ts) \cup {r}
        /\ r2ts # <<>>
    BY <1>4, SeqAppend DEF IsSeq
  <1>6. LeftOf(r2ts, initiator.served) = Append(Left, rest)
    BY <1>4, LeftAppend DEF Left
  <1>7. /\ rest.opcode = "R2T" /\ rest.task = r.task /\ rest.tag = r.tag
        /\ rest.offset = r.offset /\ rest.length = r.length
    <2>1. rest.opcode = "R2T" /\ rest.task = r.task /\ rest.tag = r.tag
          /\ rest.offset = r.offset + 0 /\ rest.length = r.length - 0
      BY DEF Rest
    <2> HIDE DEF rest, r
    <2> QED BY <1>3, <2>1
  <1>8. /\ \A t \in Tasks :
             asked[t] = IF t = r.task THEN initiator.asked[t] \cup {range}
                                      ELSE initiator.asked[t]
        /\ asked = [t \in Tasks |-> asked[t]]
    <2> HIDE DEF r, range
    <2> QED BY <1>4
  <1>9. range[1] = r.offset /\ range[2] = r.length
    OBVIOUS
  <1> HIDE DEF granted, range, asked, r2ts, rest, r
  <1>10. /\ HasFields(initiator') /\ initiator'.r2ts = r2ts /\ initiator'.asked = asked
         /\ initiator'.sent = initiator.sent /\ initiator'.served = initiator.served
         /\ initiator'.answers = initiator.answers
    BY <1>1, <1>2 DEF HasFields
  <1>11. IsInitiator(initiator')
    BY <1>3, <1>4, <1>5, <1>8, <1>10 DEF IsInitiator
  <1>12. Channels'
    BY <1>1, <1>4, <1>11 DEF Channels
  <1>13. Left' = Append(Left, rest)
    BY <1>6, <1>10 DEF Left
  <1>14. IsSeq(Left) /\ Elements(Left') = Elements(Left) \cup {rest}
    BY <1>4, <1>13, QueuesAreSeqs, SeqAppend
  <1>15. /\ End(rest) = End(r) /\ Length(rest) = Length(r) /\ Moves(rest) /\ Moves(r)
         /\ \A y : (Follows(r, y) => Follows(rest, y)) /\ (Follows(y, r) => Follows(y, rest))
    BY <1>a, <1>3, <1>7 DEF End, Length, Moves, Follows
  <1>16. Sorted(Left')
    <2> DEFINE longer == Append(Left, rest)
    <2>1. \A y \in Elements(Left) : Ordered(y, rest)
      BY <1>1, <1>4, <1>7, <1>15 DEF InOrder, Before, Ordered, Differs, Completes
    <2>2. Sorted(longer)
      BY <1>4, <1>14, <2>1, SortedAppend DEF InOrder
    <2> HIDE DEF longer
    <2>3. Left' = longer
      BY <1>13 DEF longer
    <2> QED BY <2>2, <2>3 DEF Sorted
  <1>17. InOrder'
    <2>1. \A y \in Elements(toInitiator') : Follows(rest, y)
      BY <1>1, <1>15 DEF Ordered
    <2>2. \A y \in Elements(Pending) : Follows(y, rest)
      BY <1>1, <1>4, <1>15 DEF InOrder, Before
    <2>3. Before(Pending', Left') /\ Before(Pending', toInitiator') /\ Before(Left', toInitiator')
      BY <1>1, <1>4, <1>14, <2>1, <2>2 DEF InOrder, Before
    <2> QED BY <1>1, <1>4, <1>16, <2>3 DEF InOrder, Sorted
  <1>18. /\ \A x \in Movers' : x \in Movers \/ x = rest
         /\ \A x \in Movers : x \in Movers' \/ x = r
         /\ rest \in Movers'
    BY <1>1, <1>14, <1>15 DEF Movers
  <1>19. Inside(rest, r)
    <2>1. r.offset + r.length \in Nat
      BY <1>3
    <2> QED BY <1>3, <1>7, <1>15, <2>1 DEF Inside, End
  <1>20. MoversRight' /\ EntryRight' /\ ExecutedRight'
    <2>1. \A x \in Movers' : \E y \in Movers : Inside(x, y)
      BY <1>3, <1>4, <1>18, <1>19, InsideItself
    <2>2. \A o : Covers(r, o) => Covers(rest, o)
      BY <1>7, <1>15 DEF Covers
    <2>3. \A y \in Movers, o \in Nat : Covers(y, o) => \E x \in Movers' : Covers(x, o)
      BY <1>18, <2>2
    <2> QED BY <1>1, <1>10, <2>1, <2>3, PassingKeeps
  <1>21. /\ UNCHANGED entry /\ Ran' = Ran
         /\ \A u : ScsiCommand(u)' = ScsiCommand(u)
         /\ \A u : Total(u)' = Total(u) /\ Immediate(u)' = Immediate(u)
    BY <1>1, RestsConstant
  <1>22. CommandsRight'
    <2>1. ASSUME NEW x \in Elements(Pending), x.opcode = "SCSI_CMD"
          PROVE  /\ x.task \in initiator.sent \ Ran /\ x = ScsiCommand(x.task)
                 /\ \A y \in Movers' : y.task # x.task
                 /\ asked[x.task] = {}
                 /\ entry.transfer_tag # 0 => entry.cdb.task # x.task
      <3>1. /\ x.task \in initiator.sent \ Ran /\ x = ScsiCommand(x.task)
            /\ \A y \in Movers : y.task # x.task
            /\ initiator.asked[x.task] = {}
            /\ entry.transfer_tag # 0 => entry.cdb.task # x.task
        BY <2>1 DEF TInv, CommandsRight
      <3> QED BY <1>3, <1>4, <1>7, <1>8, <1>18, <3>1
    <2> QED BY <1>1, <1>10, <1>21, <2>1 DEF CommandsRight
  <1>23. AnswersRight'
    BY <1>1, <1>10, <1>21 DEF TInv, AnswersRight
  <1>24. AskedRight'
    <2>1. ASSUME NEW t \in Tasks
          PROVE  /\ asked[t] # {} => t \in initiator.sent
                 /\ \A e \in asked[t] :
                      /\ e[1] \in Nat /\ e[2] \in Nat \ {0}
                      /\ Immediate(t) <= e[1] /\ e[1] + e[2] <= Total(t)
                      /\ \A y \in Elements(toInitiator') :
                           y.opcode = "R2T" /\ y.task = t => e[1] + e[2] <= y.offset
                 /\ \A e, f \in asked[t] :
                      e # f => e[1] + e[2] <= f[1] \/ f[1] + f[2] <= e[1]
      <3>1. /\ initiator.asked[t] # {} => t \in initiator.sent
            /\ \A e \in initiator.asked[t] :
                 /\ e[1] \in Nat /\ e[2] \in Nat \ {0}
                 /\ Immediate(t) <= e[1] /\ e[1] + e[2] <= Total(t)
                 /\ \A y \in Elements(toInitiator) :
                      y.opcode = "R2T" /\ y.task = t => e[1] + e[2] <= y.offset
            /\ \A e, f \in initiator.asked[t] :
                 e # f => e[1] + e[2] <= f[1] \/ f[1] + f[2] <= e[1]
        BY DEF TInv, AskedRight
      <3>2. CASE t # r.task
        <4>1. asked[t] = initiator.asked[t]
          BY <1>8, <3>2
        <4> QED BY <1>1, <3>1, <4>1
      <3>3. CASE t = r.task
        <4>1. asked[t] = initiator.asked[t] \cup {range}
          BY <1>8, <3>3
        <4>2. /\ range[1] \in Nat /\ range[2] \in Nat \ {0}
              /\ Immediate(t) <= range[1] /\ range[1] + range[2] <= Total(t)
          BY <1>3, <1>9, <3>3 DEF IsMover, End
        <4>3. \A y \in Elements(toInitiator') :
                y.opcode = "R2T" /\ y.task = t => range[1] + range[2] <= y.offset
          BY <1>1, <1>3, <1>9, <1>15, <3>3 DEF Ordered, Follows, Moves, End
        <4>4. \A e \in initiator.asked[t] : e[1] + e[2] <= range[1]
          BY <1>1, <1>a, <1>9, <3>1, <3>3
        <4> QED BY <1>1, <1>3, <3>1, <3>3, <4>1, <4>2, <4>3, <4>4
      <3> QED BY <3>2, <3>3
    <2> QED BY <1>10, <1>21, <2>1 DEF AskedRight
  <1>25. Started' /\ SentInv' /\ NeverIgnored'
    BY <1>1, <1>4, RestsKeeps DEF Started
  <1> QED BY <1>12, <1>17, <1>20, <1>22, <1>23, <1>24, <1>25 DEF TInv

-------------------------------------------------------------------------------
\* A connection on which the login is under way.
LEMMA InitTransfers == TransferInit => TInv
  <1> SUFFICES ASSUME TransferInit PROVE TInv
    OBVIOUS
  <1> DEFINE login == Login(plan.maxRecv, plan.maxR2T)
  <1>1. /\ Init /\ plan \in Plans
        /\ initiator = [cmdSN |-> 0, maxCmdSN |-> -1, sent |-> {},
                        answers |-> [t \in Tasks |-> 0], r2ts |-> <<>>, served |-> 0,
                        asked |-> [t \in Tasks |-> {}]]
        /\ toTarget = <<login>> /\ received = <<>> /\ toInitiator = <<>>
    BY DEF TransferInit
  <1>2. login.opcode = "LOGIN"
    BY DEF Login
  <1> HIDE DEF login
  <1>3. SentInv
    BY <1>1, InitEstablishes, InitTypes DEF SentInv
  <1>4. /\ entry.transfer_tag = 0 /\ executed = <<>> /\ session.transfer_tag = 0
        /\ ~connection.session_reference /\ ~session.command_numbering_start
    BY <1>1 DEF Init, iscsi_connection_create
  <1>5. /\ IsSeq(<<>>) /\ Elements(<<>>) = {} /\ DOMAIN <<>> = {} /\ Sorted(<<>>)
    <2>1. DOMAIN <<>> = {}
      OBVIOUS
    <2> QED BY <2>1, QuietNone DEF Quiet, Elements, Sorted
  <1>6. IsSeq(<<login>>) /\ Elements(<<login>>) = {login} /\ DOMAIN <<login>> = 1 .. 1
    BY SeqOne
  <1>7. Pending = <<login>>
    <2>1. login \in {login}
      OBVIOUS
    <2> DEFINE S == {login}
    <2> HIDE DEF S
    <2>2. <<>> \o <<login>> = <<login>>
      BY <2>1 DEF S
    <2> QED BY <1>1, <2>2 DEF Pending
  <1>8. /\ HasFields(initiator) /\ initiator.sent = {} /\ initiator.r2ts = <<>>
        /\ initiator.served = 0 /\ initiator.asked = [t \in Tasks |-> {}]
        /\ initiator.answers = [t \in Tasks |-> 0]
        /\ initiator.cmdSN = 0 /\ initiator.maxCmdSN = -1
    BY <1>1 DEF HasFields
  <1>9. Left = <<>>
    <2> DEFINE none == LeftOf(<<>>, 0)
    <2>1. IsSeq(none) /\ Len(none) = 0
      BY <1>5, LeftSeq
    <2> HIDE DEF none
    <2>2. none = <<>>
      BY <2>1 DEF IsSeq
    <2> QED BY <1>8, <2>2 DEF Left, none
  <1>10. Movers = {}
    BY <1>1, <1>2, <1>5, <1>6, <1>7, <1>9 DEF Movers, Moves
  <1>11. Unstarted
    BY <1>1, <1>4, <1>7, <1>8 DEF Unstarted, login
  <1>12. Channels
    <2>1. \A t \in Tasks : initiator.asked[t] = {}
      BY <1>8
    <2>2. IsInitiator(initiator)
      BY <1>5, <1>8, <2>1 DEF IsInitiator
    <2> QED BY <1>1, <1>5, <1>6, <2>2 DEF Channels
  <1>13. InOrder
    <2>1. Sorted(<<login>>)
      BY <1>6 DEF Sorted
    <2> QED BY <1>1, <1>5, <1>7, <1>9, <2>1 DEF InOrder, Before
  <1>14. NeverIgnored /\ MoversRight /\ EntryRight
    BY <1>4, <1>10 DEF NeverIgnored, MoversRight, EntryRight
  <1>15. CommandsRight
    BY <1>2, <1>6, <1>7 DEF CommandsRight
  <1>16. AnswersRight /\ ExecutedRight /\ AskedRight
    BY <1>1, <1>4, <1>5, <1>8 DEF AnswersRight, ExecutedRight, AskedRight
  <1> QED BY <1>3, <1>11, <1>12, <1>13, <1>14, <1>15, <1>16 DEF TInv

\* The initiator and the target keep it.
LEMMA TransferKeeps == TInv /\ [TransferNext]_allVars => TInv'
  <1> SUFFICES ASSUME TInv, [TransferNext]_allVars PROVE TInv'
    OBVIOUS
  <1>1. CASE \E t \in Tasks : SendCommand(t)
    BY <1>1, SendCommandKeeps
  <1>2. CASE SendDataOut
    BY <1>2, SendDataOutKeeps
  <1>3. CASE Receive
    BY <1>3, ReceiveR2TKeeps, ReceiveOtherKeeps
  <1>4. CASE Target
    BY <1>4, TargetKeeps
  <1>5. CASE UNCHANGED allVars
    <2>1. Rests /\ UNCHANGED initiatorVars
      BY <1>5 DEF allVars, Rests, initiatorVars
    <2>2. Movers' = Movers /\ Pending' = Pending /\ Left' = Left
      BY <2>1 DEF initiatorVars, Movers, Pending, Left
    <2>3. MoversRight' /\ EntryRight' /\ ExecutedRight'
      <3>1. \A x \in Movers' : \E y \in Movers : Inside(x, y)
        BY <2>2, InsideItself DEF TInv
      <3> QED BY <2>1, <2>2, <3>1, PassingKeeps DEF initiatorVars
    <2>4. SentInv' /\ NeverIgnored'
      BY <2>1, RestsKeeps DEF TInv
    <2>5. Channels' /\ InOrder'
      BY <2>1, <2>2 DEF TInv, Channels, InOrder, Before, Sorted, initiatorVars
    <2>6. /\ UNCHANGED entry /\ UNCHANGED executed /\ Ran' = Ran
          /\ UNCHANGED session /\ UNCHANGED connection
          /\ \A t : /\ Total(t)' = Total(t) /\ Immediate(t)' = Immediate(t)
                    /\ ScsiCommand(t)' = ScsiCommand(t)
      BY <2>1, RestsConstant
    <2>7. Unstarted' \/ Started'
      BY <2>1, <2>2, <2>6 DEF TInv, Unstarted, Started, initiatorVars
    <2>8. CommandsRight' /\ AnswersRight' /\ AskedRight'
      BY <2>1, <2>2, <2>6 DEF TInv, CommandsRight, AnswersRight, AskedRight, initiatorVars
    <2> QED BY <2>3, <2>4, <2>5, <2>7, <2>8 DEF TInv
  <1> QED BY <1>1, <1>2, <1>3, <1>4, <1>5 DEF TransferNext

THEOREM TransferInvariance == TransferSpec => []TInv
  BY InitTransfers, TransferKeeps, PTL DEF TransferSpec

\* R2TsAskForMissingBytes: the R2Ts of a write ask for bytes it has and has not sent,
\* and for none of them twice.
THEOREM R2TsAsk == TransferSpec => []R2TsAskForMissingBytes
  <1>1. TInv => R2TsAskForMissingBytes
    <2> SUFFICES ASSUME TInv, NEW t \in Tasks
                 PROVE  /\ \A r \in initiator.asked[t] :
                             Bytes(r) \subseteq plan.workload[t].dsl .. plan.workload[t].edtl - 1
                        /\ \A r, s \in initiator.asked[t] : r # s => Bytes(r) \cap Bytes(s) = {}
      BY DEF R2TsAskForMissingBytes
    <2>1. /\ \A r \in initiator.asked[t] :
               /\ r[1] \in Nat /\ r[2] \in Nat \ {0}
               /\ Immediate(t) <= r[1] /\ r[1] + r[2] <= Total(t)
          /\ \A r, s \in initiator.asked[t] :
               r # s => r[1] + r[2] <= s[1] \/ s[1] + s[2] <= r[1]
      BY DEF TInv, AskedRight
    <2>2. Immediate(t) \in Nat /\ Total(t) \in Nat
      BY PlanTypes DEF TInv
    <2>3. ASSUME NEW r \in initiator.asked[t]
          PROVE  Bytes(r) \subseteq Immediate(t) .. Total(t) - 1
      BY <2>1, <2>2 DEF Bytes
    <2>4. ASSUME NEW r \in initiator.asked[t], NEW s \in initiator.asked[t], r # s
          PROVE  Bytes(r) \cap Bytes(s) = {}
      BY <2>1, <2>4 DEF Bytes
    <2> QED BY <2>3, <2>4 DEF Immediate, Total
  <1> QED BY <1>1, TransferInvariance, PTL

-------------------------------------------------------------------------------
(***************************************************************************)
(* The abstract service: a step that gives a command to the device is its  *)
(* Execute, one that reads the answer its Answer.                          *)
(***************************************************************************)
Device(t) == Cardinality(Executions(t))
Found(t) == UNION {executed[i].data : i \in Executions(t)}

\* The device was given a command once or not at all.
LEMMA GivenOnce ==
  ASSUME ExecutedRight, NEW t
  PROVE  /\ t \notin Ran => Executions(t) = {} /\ Device(t) = 0 /\ Found(t) = {}
         /\ \A i \in DOMAIN executed : executed[i].cdb.task = t =>
              Executions(t) = {i} /\ Device(t) = 1 /\ Found(t) = executed[i].data
         /\ t \in Ran => Device(t) = 1
  <1>1. ASSUME t \notin Ran
        PROVE  Executions(t) = {} /\ Device(t) = 0 /\ Found(t) = {}
    <2>1. Executions(t) = {}
      BY <1>1 DEF Executions, Ran
    <2> QED BY <2>1, FS_EmptySet DEF Device, Found
  <1>2. ASSUME NEW i \in DOMAIN executed, executed[i].cdb.task = t
        PROVE  Executions(t) = {i} /\ Device(t) = 1 /\ Found(t) = executed[i].data
    <2>1. Executions(t) = {i}
      BY <1>2 DEF Executions, ExecutedRight
    <2>2. Cardinality({i}) = 1
      BY FS_Singleton
    <2> QED BY <2>1, <2>2 DEF Device, Found
  <1>3. t \in Ran => Device(t) = 1
    BY <1>2 DEF Ran
  <1> QED BY <1>1, <1>2, <1>3

\* One command more.
LEMMA ExecutionRefines ==
  ASSUME TInv, TInv', NEW e, executed' = Append(executed, e),
         UNCHANGED <<plan, initiator>>,
         e.cdb.task \in initiator.sent, e.cdb.task \notin Ran
  PROVE  Service!Execute(e.cdb.task)
  <1> DEFINE t == e.cdb.task
             n == Len(executed) + 1
  <1>1. ExecutedRight /\ ExecutedRight' /\ t \in Tasks
    BY DEF TInv, Channels, IsInitiator
  <1>2. /\ DOMAIN executed' = 1 .. n /\ DOMAIN executed = 1 .. Len(executed)
        /\ Len(executed) \in Nat
        /\ \A i \in DOMAIN executed : executed'[i] = executed[i]
        /\ executed'[n] = e
    BY <1>1, RanAppend DEF ExecutedRight
  <1>3. Device(t) = 0
    BY <1>1, GivenOnce
  <1>4. n \in DOMAIN executed' /\ executed'[n].cdb.task = t
    BY <1>2
  <1> HIDE DEF n
  <1>5. Executions(t)' = {n}
    BY <1>1, <1>4 DEF Executions, ExecutedRight
  <1>6. Device(t)' = 1 /\ Found(t)' = e.data
    <2>1. Cardinality({n}) = 1
      BY FS_Singleton
    <2> QED BY <1>2, <1>5, <2>1 DEF Device, Found
  <1>7. ASSUME NEW u, u # t PROVE Device(u)' = Device(u) /\ Found(u)' = Found(u)
    <2>1. Executions(u)' = Executions(u)
      <3>1. \A i : i \in DOMAIN executed' => i \in DOMAIN executed \/ i = n
        BY <1>2 DEF n
      <3>2. \A i : i \in DOMAIN executed => i \in DOMAIN executed'
        BY <1>2 DEF n
      <3> QED BY <1>2, <1>4, <1>7, <3>1, <3>2 DEF Executions
    <2>2. \A i \in Executions(u) : executed'[i] = executed[i]
      BY <1>2 DEF Executions
    <2> QED BY <2>1, <2>2 DEF Device, Found
  <1>8. WholeWrite(t) => e.data = {t}
    <2>1. WholeWrite(t)' => executed'[n].data = {t}
      BY <1>1, <1>4 DEF ExecutedRight
    <2>2. WholeWrite(t)' <=> WholeWrite(t)
      BY DEF WholeWrite, Write, Immediate, Total
    <2> QED BY <1>2, <2>1, <2>2
  <1> HIDE DEF t
  <1>9. /\ [u \in Tasks |-> Device(u)'] = [[u \in Tasks |-> Device(u)] EXCEPT ![t] = 1]
        /\ \A u \in Tasks \ {t} : Found(u)' = Found(u)
        /\ WholeWrite(t) => Found(t)' = {t}
    BY <1>1, <1>6, <1>7, <1>8
  <1>10. t \in initiator.sent
    BY DEF t
  <1>11. \A u : Write(u)' <=> Write(u)
    BY DEF Write
  <1> QED BY <1>1, <1>3, <1>9, <1>10, <1>11
          DEF Service!Execute, Device, Found, WholeWrite, Immediate, Total, t

\* Nothing the service can see has changed.
LEMMA ServiceStutters ==
  ASSUME UNCHANGED <<plan, executed>>,
         initiator'.sent = initiator.sent, initiator'.answers = initiator.answers
  PROVE  UNCHANGED Service!vars
  BY DEF Service!vars, Executions, Write

\* A step of the target gives at most one command to the device.
LEMMA TargetRefines ==
  ASSUME TInv, TInv', Target
  PROVE  [Service!Next]_(Service!vars)
  <1>1. PICK p : Takes(p)
    BY TargetTakes DEF TInv
  <1>2. UNCHANGED plan /\ UNCHANGED initiator
    BY <1>1, TakesConstant
  <1>3. CASE UNCHANGED executed
    BY <1>2, <1>3, ServiceStutters
  <1>4. ASSUME NEW e, executed' = Append(executed, e),
               e.cdb.task \in initiator.sent, e.cdb.task \notin Ran
        PROVE  Service!Next
    <2>1. Service!Execute(e.cdb.task)
      BY <1>2, <1>4, ExecutionRefines
    <2>2. e.cdb.task \in Tasks
      BY <1>4 DEF TInv, Channels, IsInitiator
    <2> QED BY <2>1, <2>2 DEF Service!Next
  <1>5. CASE Unstarted
    <2>1. /\ p = Login(plan.maxRecv, plan.maxR2T)
          /\ Shape /\ NeverIgnored /\ iscsi_server_process(p)
          /\ ~connection.session_reference /\ session.transfer_tag = 0
      <3> DEFINE login == Login(plan.maxRecv, plan.maxR2T)
      <3>1. Pending = <<login>> /\ p = Head(Pending)
        BY <1>1, <1>5 DEF Unstarted, Takes
      <3> HIDE DEF login
      <3>2. p = login
        BY <3>1
      <3> QED BY <1>1, <1>5, <3>2 DEF login, TInv, SentInv, IInv, Takes, Unstarted
    <2>2. UNCHANGED executed
      BY <2>1, LoginTargetSteps
    <2> QED BY <1>3, <2>2
  <1>6. CASE Started
    <2>1. TargetStep(p)
      BY <1>1, <1>6, FirstIsRequest, RequestSteps DEF TInv, Takes
    <2>2. CASE Drops(p) \/ Asks(p) \/ Stores(p)
      BY <1>3, <2>2 DEF Drops, Asks, Stores
    <2>3. CASE Runs(p)
      <3>1. p.task \in initiator.sent /\ p.task \notin Ran
        BY <1>1, <2>3, FirstCommand DEF Runs
      <3>2. PICK data : executed' = Append(executed, [cdb |-> Cdb(p), data |-> data])
        BY <2>3 DEF Runs
      <3> DEFINE e == [cdb |-> Cdb(p), data |-> data]
      <3>3. e.cdb.task = p.task /\ executed' = Append(executed, e)
        BY <3>2 DEF Cdb
      <3> HIDE DEF e
      <3> QED BY <1>4, <3>1, <3>3
    <2>4. CASE Finishes(p)
      <3>1. entry.cdb.task \in initiator.sent /\ entry.cdb.task \notin Ran
        BY <1>1, <2>4, FirstData DEF Finishes
      <3> DEFINE e == [cdb |-> entry.cdb,
                       data |-> DataOf(entry.cdb, BufferFromEntry(Stored(p)))]
      <3>2. e.cdb = entry.cdb /\ executed' = Append(executed, e)
        BY <2>4 DEF Finishes
      <3> HIDE DEF e
      <3> QED BY <1>4, <3>1, <3>2
    <2> QED BY <2>1, <2>2, <2>3, <2>4 DEF TargetStep
  <1> QED BY <1>5, <1>6 DEF TInv

\* A command sent is issued.
LEMMA SendRefines ==
  ASSUME TInv, NEW t \in Tasks, SendCommand(t)
  PROVE  [Service!Next]_(Service!vars)
  <1>1. /\ t \notin initiator.sent /\ UNCHANGED <<plan, executed>>
        /\ initiator'.sent = initiator.sent \cup {t}
        /\ initiator'.answers = initiator.answers
    <2>1. HasFields(initiator)
      BY DEF TInv, Channels, IsInitiator
    <2>2. initiator' = [initiator EXCEPT !.cmdSN = @ + 1, !.sent = @ \cup {t}]
      BY DEF SendCommand
    <2>3. initiator'.sent = initiator.sent \cup {t} /\ initiator'.answers = initiator.answers
      BY ONLY <2>1, <2>2 DEF HasFields
    <2> QED BY <2>3 DEF SendCommand, vars, stateVars
  <1>2. Service!Issue(t)
    BY <1>1 DEF Service!Issue, Executions, Write
  <1> QED BY <1>2 DEF Service!Next

\* A response that completes a command is its answer; others are not seen.
LEMMA ReceiveRefines ==
  ASSUME TInv, Receive
  PROVE  [Service!Next]_(Service!vars)
  <1> DEFINE r == Head(toInitiator)
             granted == Granted(r)
             counted == [initiator.answers EXCEPT ![r.task] = @ + 1]
  <1>1. Rests /\ r \in Elements(toInitiator) /\ HasFields(initiator)
    BY ReceiveTakes
  <1>2. UNCHANGED <<plan, executed>>
    BY <1>1, RestsConstant DEF Rests
  <1>3. CASE r.opcode = "R2T" \/ ~Completes(r)
    <2>1. initiator'.sent = initiator.sent /\ initiator'.answers = initiator.answers
      BY <1>1, <1>3 DEF Receive, HasFields, Completes
    <2> QED BY <1>2, <2>1, ServiceStutters
  <1>4. CASE r.opcode # "R2T" /\ Completes(r)
    <2> DEFINE t == r.task
    <2>1. /\ t \in Ran /\ initiator.answers[t] = 0 /\ t \in Tasks
          /\ initiator.answers \in [Tasks -> {0, 1}]
      BY <1>1, <1>4 DEF TInv, AnswersRight, ExecutedRight, Ran, Channels, IsInitiator
    <2>2. initiator' = [initiator EXCEPT !.maxCmdSN = granted, !.answers = counted]
      BY <1>4 DEF Receive
    <2>3. counted = [initiator.answers EXCEPT ![t] = 1]
      BY <2>1
    <2> HIDE DEF counted, granted, r
    <2>4. initiator'.sent = initiator.sent /\ initiator'.answers = counted
      BY ONLY <1>1, <2>2 DEF HasFields
    <2>5. Device(t) = 1
      BY <2>1, GivenOnce DEF TInv
    <2> HIDE DEF t
    <2>6. Service!Answer(t)
      BY <1>2, <2>1, <2>3, <2>4, <2>5 DEF Service!Answer, Device, Executions, Write
    <2> QED BY <2>1, <2>6 DEF Service!Next
  <1> QED BY <1>3, <1>4

LEMMA TransferRefines ==
  ASSUME TInv, TInv', [TransferNext]_allVars
  PROVE  [Service!Next]_(Service!vars)
  <1>1. CASE \E t \in Tasks : SendCommand(t)
    BY <1>1, SendRefines
  <1>2. CASE SendDataOut
    <2>1. UNCHANGED <<plan, executed>>
      BY <1>2 DEF SendDataOut, vars, stateVars
    <2>2. initiator'.sent = initiator.sent /\ initiator'.answers = initiator.answers
      BY <1>2 DEF SendDataOut, TInv, Channels, IsInitiator, HasFields
    <2> QED BY <2>1, <2>2, ServiceStutters
  <1>3. CASE Receive
    BY <1>3, ReceiveRefines
  <1>4. CASE Target
    BY <1>4, TargetRefines
  <1>5. CASE UNCHANGED allVars
    BY <1>5, ServiceStutters DEF allVars, vars, stateVars, initiatorVars
  <1> QED BY <1>1, <1>2, <1>3, <1>4, <1>5 DEF TransferNext

LEMMA InitRefines == TransferInit => Service!Init
  <1> SUFFICES ASSUME TransferInit PROVE Service!Init
    OBVIOUS
  <1>1. executed = <<>> /\ initiator.sent = {} /\ initiator.answers = [t \in Tasks |-> 0]
    BY DEF TransferInit, Init
  <1>2. \A t : Executions(t) = {}
    BY <1>1 DEF Executions
  <1>3. \A t : Cardinality(Executions(t)) = 0
    BY <1>2, FS_EmptySet
  <1> QED BY <1>1, <1>2, <1>3 DEF Service!Init

\* ImplementsCommandService: whatever the initiator sends and when, a command reaches
\* the device at most once, a write with all of its data and nobody else's, and is
\* answered at most once and not before.
THEOREM CommandRefinement == TransferSpec => ImplementsCommandService
  <1>1. TInv /\ TInv' /\ [TransferNext]_allVars => [Service!Next]_(Service!vars)
    BY TransferRefines
  <1> QED BY <1>1, InitRefines, TransferInvariance, PTL
          DEF TransferSpec, Service!Spec, ImplementsCommandService

===============================================================================
