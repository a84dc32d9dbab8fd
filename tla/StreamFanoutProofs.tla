------------------------- MODULE StreamFanoutProofs -------------------------
(***************************************************************************)
(* Proofs about StreamFanout for every set of clients, every cap, channel   *)
(* capacity, frame and pull size: the subscriber count is exact, a client   *)
(* never sees a silent gap, and a packet never mixes samples from two sides *)
(* of a discontinuity.                                                      *)
(*                                                                         *)
(* None of the three is inductive.  Two facts are added.  CarryOk: the      *)
(* unfinished samples are the ones just before the reader's position, fewer *)
(* than a frame.  Follows: audio_seq and the channel's position advance     *)
(* together for as long as somebody holds a receiver, so the packet a       *)
(* receiver stands at carries a number the receiver's position determines,  *)
(* and that number is one more than the last one put on the socket.         *)
(***************************************************************************)
EXTENDS StreamFanout, FiniteSetTheorems, SequenceTheorems, TLAPS

----------------------------------------------------------------------------
\* The inductive invariant.

Handlers == {"idle", "guarded", "upgrading", "open", "sending", "closing"}

\* Handlers that may still put a packet on their socket.
Listening == {"upgrading", "open", "sending"}

Packet == [seq : Int, stamp : Int, pcm : Seq(Int)]

TypeOK ==
    /\ head \in Nat /\ tail \in Nat /\ seq \in Nat /\ pos \in Nat /\ subs \in Nat
    /\ carry \in Seq(Int)
    /\ chan \in Seq(Packet)
    /\ pc \in [Clients -> Handlers]
    /\ rx \in [Clients -> Nat]
    /\ seen \in [Clients -> SUBSET Int]

\* carry is what the reader has passed and no packet holds yet.  The loop
\* that failed moved its reader on and never looks at carry again.
CarryOk ==
    opus # "failed" =>
        /\ Len(carry) < Frame
        /\ \A i \in 1..Len(carry) : carry[i] = tail - Len(carry) + i - 1

\* The packets ahead of the receiver are numbered without a gap up to seq,
\* and the last one it took, if any, is the one just before them.
Follows(c) ==
    /\ rx[c] <= pos
    /\ \A k \in 1..Len(chan) :
          pos - Len(chan) + k > rx[c] => chan[k].seq = seq - Len(chan) + k
    /\ \A n \in seen[c] : n <= seq - pos + rx[c]
    /\ seen[c] # {} => seq - pos + rx[c] \in seen[c]

FollowOk == \A c \in Clients : pc[c] \in Listening => Follows(c)

Inv ==
    /\ TypeOK
    /\ CarryOk
    /\ FollowOk
    /\ SlotsExact
    /\ ClientSeesNoGap
    /\ PacketsUnbroken

----------------------------------------------------------------------------
\* Arithmetic of cutting at most two frames from the samples at hand.

LEMMA CutFacts ==
    ASSUME NEW n \in Nat, NEW f \in Nat \ {0}, n < 3 * f
    PROVE  /\ n \div f \in {0, 1, 2}
           /\ (n \div f) * f <= n
           /\ n < (n \div f) * f + f
  <1> DEFINE q == n \div f
             r == n % f
  <1>1. q \in Int /\ r \in 0..(f - 1) /\ n = f * q + r
    OBVIOUS
  <1>2. CASE n < f
    BY <1>1, <1>2
  <1>3. CASE f <= n /\ n < 2 * f
    BY <1>1, <1>3
  <1>4. CASE 2 * f <= n
    BY <1>1, <1>4
  <1>. QED  BY <1>2, <1>3, <1>4

\* What Packets returns, field by field.
LEMMA PacketsFacts ==
    ASSUME NEW s \in Seq(Int), NEW at \in Int, seq \in Nat, Len(s) < 3 * Frame
    PROVE  LET P == Packets(s, at) IN
           /\ P \in Seq(Packet)
           /\ Len(P) = Len(s) \div Frame
           /\ Len(P) \in {0, 1, 2}
           /\ Len(P) * Frame <= Len(s)
           /\ Len(s) < Len(P) * Frame + Frame
           /\ \A k \in 1..Len(P) :
                 /\ P[k].seq = seq + k
                 /\ P[k].stamp = at
                 /\ \A i \in 1..Frame : P[k].pcm[i] = s[(k - 1) * Frame + i]
  <1> DEFINE P == Packets(s, at)
             q == Len(s) \div Frame
  <1>1. Frame \in Nat \ {0} /\ Len(s) \in Nat
    BY StreamAssumption
  <1>2. q \in {0, 1, 2} /\ q * Frame <= Len(s) /\ Len(s) < q * Frame + Frame
    BY <1>1, CutFacts
  <1>3. P = [k \in 1..q |-> [seq |-> seq + k, stamp |-> at,
                             pcm |-> SubSeq(s, (k - 1) * Frame + 1, k * Frame)]]
    BY DEF Packets
  <1>4. ASSUME NEW k \in 1..q
        PROVE  /\ (k - 1) * Frame + 1 \in 1..(Len(s) + 1)
               /\ k * Frame \in 0..Len(s)
               /\ k * Frame - ((k - 1) * Frame + 1) + 1 = Frame
    <2>1. k = 1 \/ (k = 2 /\ q = 2)
      BY <1>2
    <2>. QED  BY <2>1, <1>1, <1>2
  <1>5. ASSUME NEW k \in 1..q
        PROVE  LET w == SubSeq(s, (k - 1) * Frame + 1, k * Frame) IN
               /\ w \in Seq(Int)
               /\ \A i \in 1..Frame : w[i] = s[(k - 1) * Frame + i]
    <2> DEFINE a == (k - 1) * Frame + 1
               b == k * Frame
               w == SubSeq(s, a, b)
    <2>1. a \in 1..(Len(s) + 1) /\ b \in 0..Len(s) /\ b - a + 1 = Frame /\ b \in a-1..Len(s)
      BY <1>4, <1>1
    <2> HIDE DEF a, b
    <2>2. w \in Seq(Int) /\ \A i \in 1..(b - a + 1) : w[i] = s[a + i - 1]
      <3>1. \A i \in a..b : i \in 1..Len(s)
        BY <2>1, <1>1, SMTT(30)
      <3>2. \A i \in a..b : s[i] \in Int
        BY <3>1, ElementOfSeq
      <3>. QED  BY <2>1, <3>2, <1>1, SubSeqProperties
    <2>3. \A i \in 1..Frame : a + i - 1 = (k - 1) * Frame + i
      <3>1. (k - 1) * Frame \in Int
        BY <1>1
      <3>. QED  BY <3>1 DEF a
    <2>4. w \in Seq(Int) /\ \A i \in 1..Frame : w[i] = s[(k - 1) * Frame + i]
      BY <2>1, <2>2, <2>3
    <2>. QED  BY <2>4 DEF a, b
  <1> HIDE DEF P
  <1>6. Len(P) = q /\ q \in Nat
    BY <1>2, <1>3
  <1>7. P \in Seq(Packet)
    <2>1. \A k \in 1..q : [seq |-> seq + k, stamp |-> at,
                           pcm |-> SubSeq(s, (k - 1) * Frame + 1, k * Frame)] \in Packet
      BY <1>5, <1>6 DEF Packet
    <2>2. P \in [1..q -> Packet]
      BY <2>1, <1>3
    <2>. QED  BY <2>2, <1>6
  <1>8. \A k \in 1..Len(P) :
           /\ P[k].seq = seq + k
           /\ P[k].stamp = at
           /\ \A i \in 1..Frame : P[k].pcm[i] = s[(k - 1) * Frame + i]
    BY <1>3, <1>5, <1>6
  <1>. QED  BY <1>2, <1>6, <1>7, <1>8 DEF P

----------------------------------------------------------------------------
\* The Opus loop.

\* The samples OpusReady works on: what was carried over and one pull make
\* one run of consecutive samples that ends where the reader will stand.
LEMMA PulledFacts ==
    ASSUME TypeOK, CarryOk, opus # "failed"
    PROVE  LET s == carry \o [i \in 1..Pull |-> tail + i - 1] IN
           /\ s \in Seq(Int)
           /\ Len(s) = Len(carry) + Pull
           /\ Len(s) < 3 * Frame
           /\ \A i \in 1..Len(s) : s[i] = tail - Len(carry) + i - 1
  <1> DEFINE d == [i \in 1..Pull |-> tail + i - 1]
             s == carry \o d
  <1>1. /\ Pull \in Nat /\ Frame \in Nat /\ Pull < 2 * Frame
        /\ tail \in Nat /\ carry \in Seq(Int) /\ Len(carry) \in Nat
        /\ Len(carry) < Frame
        /\ \A i \in 1..Len(carry) : carry[i] = tail - Len(carry) + i - 1
    BY StreamAssumption DEF TypeOK, CarryOk
  <1>2. d \in Seq(Int) /\ Len(d) = Pull /\ \A i \in 1..Pull : d[i] = tail + i - 1
    BY <1>1
  <1> HIDE DEF d
  <1>3. /\ s \in Seq(Int) /\ Len(s) = Len(carry) + Len(d)
        /\ \A i \in 1..(Len(carry) + Len(d)) :
              s[i] = IF i <= Len(carry) THEN carry[i] ELSE d[i - Len(carry)]
    BY <1>1, <1>2, ConcatProperties
  <1>4. Len(s) = Len(carry) + Pull /\ Len(s) < 3 * Frame
    BY <1>1, <1>2, <1>3
  <1>5. ASSUME NEW i \in 1..Len(s)
        PROVE  s[i] = tail - Len(carry) + i - 1
    <2>1. CASE i <= Len(carry)
      BY <2>1, <1>1, <1>3, <1>4
    <2>2. CASE ~(i <= Len(carry))
      <3>1. i - Len(carry) \in 1..Pull
        BY <2>2, <1>1, <1>4
      <3>2. s[i] = d[i - Len(carry)]
        BY <2>2, <1>3, <1>2, <1>4
      <3>3. d[i - Len(carry)] = tail + (i - Len(carry)) - 1
        BY <3>1, <1>2
      <3>. QED  BY <3>2, <3>3, <1>1, <1>4
    <2>. QED  BY <2>1, <2>2
  <1>. QED  BY <1>3, <1>4, <1>5 DEF d

\* What Send leaves in the channel when somebody holds a receiver: the end of
\* old and new packets together.
LEMMA SendFacts ==
    ASSUME TypeOK, NEW P \in Seq(Packet), Receivers # {}, Send(P)
    PROVE  LET all == chan \o P IN
           /\ pos' = pos + Len(P)
           /\ chan' \in Seq(Packet)
           /\ all \in Seq(Packet)
           /\ Len(all) = Len(chan) + Len(P)
           /\ \A j \in 1..Len(all) :
                 all[j] = IF j <= Len(chan) THEN chan[j] ELSE P[j - Len(chan)]
           /\ Len(chan') \in 0..Len(all)
           /\ \A k \in 1..Len(chan') : chan'[k] = all[Len(all) - Len(chan') + k]
  <1> DEFINE all == chan \o P
             n == Len(all)
             m == IF n > ChanCap THEN n - ChanCap + 1 ELSE 1
  <1>1. ChanCap \in Nat \ {0} /\ chan \in Seq(Packet) /\ Len(chan) \in Nat /\ Len(P) \in Nat
    BY StreamAssumption DEF TypeOK
  <1>2. /\ all \in Seq(Packet) /\ n = Len(chan) + Len(P)
        /\ \A j \in 1..n : all[j] = IF j <= Len(chan) THEN chan[j] ELSE P[j - Len(chan)]
    <2>1. /\ all \in Seq(Packet) /\ n = Len(chan) + Len(P)
          /\ \A j \in 1..(Len(chan) + Len(P)) :
                all[j] = IF j <= Len(chan) THEN chan[j] ELSE P[j - Len(chan)]
      BY <1>1, ConcatProperties
    <2>. QED  BY <2>1
  <1>3. pos' = pos + Len(P) /\ chan' = SubSeq(all, m, n)
    BY DEF Send
  <1> HIDE DEF all
  <1>4. n \in Nat /\ m \in 1..(n + 1)
    BY <1>1, <1>2
  <1> HIDE DEF m, n
  <1>5. /\ chan' \in Seq(Packet)
        /\ Len(chan') = IF m <= n THEN n - m + 1 ELSE 0
        /\ \A k \in 1..(n - m + 1) : chan'[k] = all[m + k - 1]
    <2>1. \A i \in m..n : i \in 1..n
      BY <1>4
    <2>2. \A i \in m..n : all[i] \in Packet
      BY <2>1, <1>2, ElementOfSeq DEF n
    <2>. QED  BY <2>2, <1>3, <1>4, SubSeqProperties
  <1>6. Len(chan') = n - m + 1 /\ Len(chan') \in 0..n
    BY <1>4, <1>5
  <1>7. ASSUME NEW k \in 1..Len(chan')
        PROVE  chan'[k] = all[n - Len(chan') + k]
    <2>1. n - Len(chan') + k = m + k - 1
      BY <1>4, <1>6
    <2>. QED  BY <2>1, <1>5, <1>6
  <1>. QED  BY <1>2, <1>3, <1>5, <1>6, <1>7 DEF n, all

\* One pull: the packets are whole, the carry is what is left, and a receiver
\* stays as far behind as it was.
LEMMA ReadyStep ==
    ASSUME Inv, OpusReady
    PROVE  Inv'
  <1> DEFINE s == carry \o [i \in 1..Pull |-> tail + i - 1]
             P == Packets(s, tail)
  <1>0. /\ head \in Nat /\ tail \in Nat /\ seq \in Nat /\ pos \in Nat /\ subs \in Nat
        /\ Pull \in Nat /\ Frame \in Nat \ {0} /\ Pull < 2 * Frame
        /\ carry \in Seq(Int) /\ Len(carry) \in Nat /\ chan \in Seq(Packet) /\ Len(chan) \in Nat
        /\ opus # "failed"
        /\ Len(carry) < Frame
    <2>1. opus # "failed"
      BY DEF OpusReady
    <2>. QED  BY <2>1, StreamAssumption DEF Inv, TypeOK, CarryOk
  <1>1. /\ s \in Seq(Int)
        /\ Len(s) = Len(carry) + Pull
        /\ Len(s) < 3 * Frame
        /\ \A i \in 1..Len(s) : s[i] = tail - Len(carry) + i - 1
    BY <1>0, PulledFacts DEF Inv
  <1>2. /\ opus' = "inner" /\ tail' = tail + Pull
        /\ carry' = SubSeq(s, Len(P) * Frame + 1, Len(s))
        /\ seq' = seq + Len(P)
        /\ Send(P)
        /\ UNCHANGED <<head, subs, pc, rx, seen>>
    BY DEF OpusReady, wsVars
  <1> HIDE DEF s
  <1>3. /\ P \in Seq(Packet)
        /\ Len(P) \in {0, 1, 2}
        /\ Len(P) * Frame <= Len(s)
        /\ Len(s) < Len(P) * Frame + Frame
        /\ \A k \in 1..Len(P) :
              /\ P[k].seq = seq + k
              /\ P[k].stamp = tail
              /\ \A i \in 1..Frame : P[k].pcm[i] = s[(k - 1) * Frame + i]
    <2>1. s \in Seq(Int) /\ tail \in Int /\ seq \in Nat /\ Len(s) < 3 * Frame
      BY <1>0, <1>1
    <2>. QED  BY <2>1, PacketsFacts
  <1> HIDE DEF P
  <1>3a. Len(P) \in Nat /\ Len(P) * Frame \in Nat /\ Len(s) \in Nat
    <2>1. Len(P) = 0 \/ Len(P) = 1 \/ Len(P) = 2
      BY <1>3
    <2>2. Len(s) \in Nat
      BY <1>0, <1>1
    <2>. QED  BY <2>1, <2>2, <1>0
  <1>4. /\ carry' \in Seq(Int)
        /\ Len(carry') = Len(s) - Len(P) * Frame
        /\ \A i \in 1..Len(carry') : carry'[i] = s[Len(P) * Frame + i]
    <2> DEFINE a == Len(P) * Frame
    <2>1. a \in Nat /\ Len(s) \in Nat /\ a <= Len(s)
      BY <1>3, <1>3a
    <2>2. carry' = SubSeq(s, a + 1, Len(s))
      BY <1>2
    <2> HIDE DEF a
    <2>3. \A i \in (a + 1)..Len(s) : s[i] \in Int
      BY <2>1, <1>1, ElementOfSeq
    <2>4. /\ carry' \in Seq(Int)
          /\ Len(carry') = IF a + 1 <= Len(s) THEN Len(s) - (a + 1) + 1 ELSE 0
          /\ \A i \in 1..(Len(s) - (a + 1) + 1) : carry'[i] = s[(a + 1) + i - 1]
      BY <2>1, <2>2, <2>3, SubSeqProperties
    <2>5. Len(carry') = Len(s) - a
      BY <2>1, <2>4
    <2>6. ASSUME NEW i \in 1..Len(carry')
          PROVE  carry'[i] = s[a + i]
      <3>1. (a + 1) + i - 1 = a + i /\ i \in 1..(Len(s) - (a + 1) + 1)
        BY <2>1, <2>5
      <3>. QED  BY <3>1, <2>4
    <2>. QED  BY <2>4, <2>5, <2>6 DEF a
  <1>5. CarryOk'
    <2>1. Len(carry') < Frame /\ Len(carry') \in Nat
      BY <1>0, <1>1, <1>3, <1>4, SMTT(30)
    <2>2. ASSUME NEW i \in 1..Len(carry')
          PROVE  carry'[i] = tail' - Len(carry') + i - 1
      <3> DEFINE a == Len(P) * Frame
      <3>1. a \in Nat /\ Len(s) = Len(carry') + a /\ Len(s) \in Nat
        BY <1>3a, <1>4, <2>1
      <3>2. carry'[i] = s[a + i]
        BY <1>4
      <3> HIDE DEF a
      <3>3. a + i \in 1..Len(s)
        BY <3>1, <2>1
      <3>4. s[a + i] = tail - Len(carry) + (a + i) - 1
        BY <3>3, <1>1
      <3>5. /\ Len(carry) + Pull = Len(carry') + a
            /\ tail \in Nat /\ Pull \in Nat /\ Len(carry) \in Nat /\ Len(carry') \in Nat
        BY <3>1, <1>0, <1>1, <2>1
      <3>6. tail - Len(carry) + (a + i) - 1 = (tail + Pull) - Len(carry') + i - 1
        BY <3>1, <3>5
      <3>. QED  BY <3>2, <3>4, <3>6, <1>2
    <2>. QED  BY <2>1, <2>2 DEF CarryOk
  <1>6. CASE Receivers = {}
    <2>1. UNCHANGED <<chan, pos>>
      BY <1>2, <1>6 DEF Send, chanVars
    <2>2. TypeOK'
      <3>1. /\ tail' \in Nat /\ seq' \in Nat /\ pos' \in Nat
        BY <1>0, <1>2, <1>3a, <2>1
      <3>. QED  BY <3>1, <1>2, <1>4, <2>1 DEF Inv, TypeOK
    <2>3. \A c \in Clients : pc[c] \notin Listening
      BY <1>6 DEF Receivers, Listening
    <2>4. FollowOk'
      BY <2>3, <1>2 DEF FollowOk
    <2>5. SlotsExact' /\ ClientSeesNoGap' /\ PacketsUnbroken'
      BY <1>2, <2>1 DEF Inv, SlotsExact, Guarded, ClientSeesNoGap, PacketsUnbroken
    <2>. QED  BY <1>5, <2>2, <2>4, <2>5 DEF Inv
  <1>7. CASE Receivers # {}
    <2> DEFINE all == chan \o P
    <2>1. /\ pos' = pos + Len(P)
          /\ chan' \in Seq(Packet)
          /\ Len(all) = Len(chan) + Len(P)
          /\ \A j \in 1..Len(all) :
                all[j] = IF j <= Len(chan) THEN chan[j] ELSE P[j - Len(chan)]
          /\ Len(chan') \in 0..Len(all)
          /\ \A k \in 1..Len(chan') : chan'[k] = all[Len(all) - Len(chan') + k]
      BY <1>2, <1>3, <1>7, SendFacts DEF Inv
    <2> HIDE DEF all
    <2>1a. /\ Len(all) = Len(chan) + Len(P) /\ Len(chan') \in 0..Len(all)
           /\ pos' = pos + Len(P) /\ seq' = seq + Len(P) /\ tail' = tail + Pull
           /\ Len(P) \in Nat /\ Len(chan) \in Nat
           /\ tail \in Nat /\ seq \in Nat /\ pos \in Nat /\ Pull \in Nat
      BY <2>1, <1>2, <1>3a, <1>0
    <2>2. TypeOK'
      <3>1. /\ tail' \in Nat /\ seq' \in Nat /\ pos' \in Nat
        BY <2>1a
      <3>. QED  BY <3>1, <1>2, <1>4, <2>1 DEF Inv, TypeOK
    <2>3. ASSUME NEW k \in 1..Len(chan')
          PROVE  \E j \in 1..Len(all) :
                    /\ j = Len(all) - Len(chan') + k
                    /\ chan'[k] = all[j]
                    /\ j <= Len(chan) => chan'[k] = chan[j]
                    /\ j > Len(chan) => /\ j - Len(chan) \in 1..Len(P)
                                        /\ chan'[k] = P[j - Len(chan)]
      <3> DEFINE j == Len(all) - Len(chan') + k
      <3>1. j \in 1..Len(all) /\ j \in Int
        BY <2>1a
      <3>2. chan'[k] = all[j]
        BY <2>1
      <3> HIDE DEF j
      <3>3. j > Len(chan) => j - Len(chan) \in 1..Len(P) /\ ~(j <= Len(chan))
        BY <3>1, <2>1a
      <3>4. j <= Len(chan) => chan'[k] = chan[j]
        BY <3>1, <3>2, <2>1
      <3>5. j > Len(chan) => chan'[k] = P[j - Len(chan)]
        BY <3>1, <3>2, <3>3, <2>1
      <3>. QED  BY <3>1, <3>2, <3>3, <3>4, <3>5 DEF j
    <2>4. FollowOk'
      <3> SUFFICES ASSUME NEW c \in Clients, pc'[c] \in Listening
                   PROVE  Follows(c)'
        BY DEF FollowOk
      <3>1. Follows(c) /\ rx[c] \in Nat /\ seen[c] \subseteq Int /\ rx'[c] = rx[c] /\ seen'[c] = seen[c]
        BY <1>2 DEF Inv, FollowOk, TypeOK
      <3>2. seq' - pos' = seq - pos /\ seq' \in Nat /\ pos' \in Nat /\ pos <= pos'
        BY <2>1a
      <3>3. rx'[c] <= pos'
        BY <3>1, <3>2, <1>0 DEF Follows
      <3>4. ASSUME NEW k \in 1..Len(chan'), pos' - Len(chan') + k > rx'[c]
            PROVE  chan'[k].seq = seq' - Len(chan') + k
        <4>1. PICK j \in 1..Len(all) :
                    /\ j = Len(all) - Len(chan') + k
                    /\ j <= Len(chan) => chan'[k] = chan[j]
                    /\ j > Len(chan) => /\ j - Len(chan) \in 1..Len(P)
                                        /\ chan'[k] = P[j - Len(chan)]
          BY <2>3
        <4>2. /\ j \in Int /\ Len(all) = Len(chan) + Len(P) /\ Len(P) \in Nat
              /\ Len(chan') \in Nat /\ seq' = seq + Len(P) /\ pos' = pos + Len(P)
          BY <2>1a, <4>1
        <4>3. seq' - Len(chan') + k = seq - Len(chan) + j
          BY <4>1, <4>2, <1>0
        <4>4. CASE j <= Len(chan)
          <5>1. pos - Len(chan) + j > rx[c]
            BY <4>1, <4>2, <3>1, <3>4, <1>0
          <5>2. j \in 1..Len(chan)
            BY <4>2, <4>4, <1>0
          <5>3. chan[j].seq = seq - Len(chan) + j
            BY <5>1, <5>2, <3>1 DEF Follows
          <5>. QED  BY <5>3, <4>1, <4>3, <4>4
        <4>5. CASE j > Len(chan)
          <5>1. P[j - Len(chan)].seq = seq + (j - Len(chan))
            BY <4>1, <4>5, <1>3
          <5>2. seq + (j - Len(chan)) = seq - Len(chan) + j
            BY <4>2, <1>0
          <5>. QED  BY <5>1, <5>2, <4>1, <4>3, <4>5
        <4>. QED  BY <4>2, <4>4, <4>5, <1>0
      <3>5. seq' - pos' + rx'[c] = seq - pos + rx[c]
        BY <3>1, <3>2
      <3>. QED  BY <3>1, <3>3, <3>4, <3>5 DEF Follows
    <2>5. PacketsUnbroken'
      <3> SUFFICES ASSUME NEW k \in 1..Len(chan')
                   PROVE  /\ \A i \in 1..(Frame - 1) : chan'[k].pcm[i + 1] = chan'[k].pcm[i] + 1
                          /\ chan'[k].stamp - chan'[k].pcm[1] \in -Frame..(Frame - 1)
        BY DEF PacketsUnbroken
      <3>1. PICK j \in 1..Len(all) :
                  /\ j <= Len(chan) => chan'[k] = chan[j]
                  /\ j > Len(chan) => /\ j - Len(chan) \in 1..Len(P)
                                      /\ chan'[k] = P[j - Len(chan)]
        BY <2>3
      <3>2. CASE j <= Len(chan)
        <4>1. j \in 1..Len(chan)
          BY <3>2, <1>0
        <4>. QED  BY <4>1, <3>1, <3>2 DEF Inv, PacketsUnbroken
      <3>3. CASE j > Len(chan)
        <4>1. PICK m \in 1..Len(P) : chan'[k] = P[m]
          BY <3>1, <3>3
        <4> DEFINE b == (m - 1) * Frame
        <4>2. b \in Nat /\ (b = 0 \/ b = Frame) /\ b + Frame <= Len(s)
          <5>1. m = 1 \/ (m = 2 /\ Len(P) = 2)
            BY <1>3
          <5>2. CASE m = 1
            <6>1. Len(P) = 1 \/ Len(P) = 2
              BY <5>2, <1>3
            <6>. QED  BY <5>2, <6>1, <1>0, <1>3, <1>3a, SMTT(30)
          <5>3. CASE m = 2 /\ Len(P) = 2
            BY <5>3, <1>0, <1>3, <1>3a, SMTT(30)
          <5>. QED  BY <5>1, <5>2, <5>3
        <4>3. /\ chan'[k].stamp = tail
              /\ \A i \in 1..Frame : chan'[k].pcm[i] = s[b + i]
          BY <4>1, <1>3
        <4> HIDE DEF b
        <4>4. \A i \in 1..Frame : chan'[k].pcm[i] = tail - Len(carry) + (b + i) - 1
          <5>1. \A i \in 1..Frame : b + i \in 1..Len(s)
            BY <4>2, <1>0, <1>1
          <5>2. \A i \in 1..Frame : s[b + i] = tail - Len(carry) + (b + i) - 1
            BY <5>1, <1>1
          <5>. QED  BY <5>2, <4>3
        <4>5. \A i \in 1..(Frame - 1) : i \in 1..Frame /\ i + 1 \in 1..Frame
          BY <1>0
        <4>6. ASSUME NEW i \in 1..(Frame - 1)
              PROVE  chan'[k].pcm[i + 1] = chan'[k].pcm[i] + 1
          <5>1. chan'[k].pcm[i] = tail - Len(carry) + (b + i) - 1
            BY <4>4, <4>5
          <5>2. chan'[k].pcm[i + 1] = tail - Len(carry) + (b + (i + 1)) - 1
            BY <4>4, <4>5
          <5>. QED  BY <5>1, <5>2, <4>2, <1>0
        <4>7. chan'[k].stamp - chan'[k].pcm[1] \in -Frame..(Frame - 1)
          <5>1. chan'[k].pcm[1] = tail - Len(carry) + (b + 1) - 1
            BY <4>4, <1>0
          <5>2. chan'[k].stamp - chan'[k].pcm[1] = Len(carry) - b
            BY <5>1, <4>3, <4>2, <1>0
          <5>3. \A x, y, f \in Nat : x < f /\ f # 0 /\ (y = 0 \/ y = f)
                                     => x - y \in -f..(f - 1)
            OBVIOUS
          <5>. QED  BY <5>2, <5>3, <4>2, <1>0
        <4>. QED  BY <4>6, <4>7
      <3>. QED  BY <3>2, <3>3, <1>0, SMTT(30)
    <2>6. SlotsExact' /\ ClientSeesNoGap'
      BY <1>2 DEF Inv, SlotsExact, Guarded, ClientSeesNoGap
    <2>. QED  BY <1>5, <2>2, <2>4, <2>5, <2>6 DEF Inv
  <1>. QED  BY <1>6, <1>7

----------------------------------------------------------------------------
\* Steps that leave channel, numbering and clients alone.

\* The other steps of the loop, and everything that is not a client's step:
\* only the reader's position and the carry can change.
LEMMA QuietStep ==
    ASSUME Inv, UNCHANGED <<seq, chanVars, subs, pc, rx, seen>>,
           head' \in Nat, tail' \in Nat, carry' \in Seq(Int), CarryOk'
    PROVE  Inv'
  <1>1. TypeOK'
    BY DEF Inv, TypeOK, chanVars
  <1>2. FollowOk'
    BY DEF Inv, FollowOk, Follows, chanVars
  <1>3. SlotsExact' /\ ClientSeesNoGap'
    BY DEF Inv, SlotsExact, Guarded, ClientSeesNoGap
  <1>4. PacketsUnbroken'
    BY DEF Inv, PacketsUnbroken, chanVars
  <1>. QED  BY <1>1, <1>2, <1>3, <1>4 DEF Inv

\* The other steps of the encoder loop.
LEMMA OpusOtherStep ==
    ASSUME Inv,
           \/ OpusTop \/ OpusPaused \/ OpusResume \/ OpusInner \/ OpusTick
           \/ OpusWait \/ OpusLagged \/ OpusFails
    PROVE  Inv'
  <1>0. /\ head \in Nat /\ tail \in Nat /\ carry \in Seq(Int) /\ CarryOk
        /\ Frame \in Nat \ {0} /\ Pull \in Nat /\ Backlog \in Nat
    BY StreamAssumption DEF Inv, TypeOK
  <1>1. Behind(Backlog) \in Nat
    BY <1>0 DEF Behind
  <1>2. CASE OpusTop \/ OpusPaused \/ OpusInner \/ OpusTick \/ OpusWait
    <2>1. UNCHANGED <<head, seq, chanVars, subs, pc, rx, seen, tail, carry>> /\ opus # "failed"
      BY <1>2 DEF OpusTop, OpusPaused, OpusInner, OpusTick, OpusWait, OpusStep, wsVars
    <2>2. CarryOk'
      BY <2>1, <1>0 DEF CarryOk
    <2>. QED  BY <2>1, <2>2, <1>0, QuietStep
  <1>3. CASE OpusResume \/ OpusLagged
    <2>1. /\ UNCHANGED <<head, seq, chanVars, subs, pc, rx, seen>>
          /\ tail' = Behind(Backlog) /\ carry' = <<>>
      BY <1>3 DEF OpusResume, OpusLagged, OpusStep, wsVars
    <2>2. CarryOk' /\ carry' \in Seq(Int)
      BY <2>1, <1>0 DEF CarryOk
    <2>. QED  BY <2>1, <2>2, <1>0, <1>1, QuietStep
  <1>4. CASE OpusFails
    <2>1. /\ UNCHANGED <<head, seq, chanVars, subs, pc, rx, seen, carry>>
          /\ tail' = tail + Pull /\ opus' = "failed"
      BY <1>4 DEF OpusFails, wsVars
    <2>2. CarryOk' /\ tail' \in Nat
      BY <2>1, <1>0 DEF CarryOk
    <2>. QED  BY <2>1, <2>2, <1>0, QuietStep
  <1>. QED  BY <1>2, <1>3, <1>4

\* The steps of peers, listener, capture and shutdown.
LEMMA SurroundingStep ==
    ASSUME Inv,
           \/ \E c \in Clients : PeerGone(c)
           \/ \E transient \in BOOLEAN : AcceptError(transient)
           \/ BackoffOver \/ Capture \/ Shutdown
    PROVE  Inv'
  <1>1. UNCHANGED <<seq, chanVars, subs, pc, rx, seen, tail, carry, opus>>
    BY DEF PeerGone, AcceptError, BackoffOver, Capture, Shutdown, opusVars, wsVars
  <1>2. head' = head \/ head' = head + Period
    BY DEF PeerGone, AcceptError, BackoffOver, Capture, Shutdown
  <1>3. /\ head \in Nat /\ tail \in Nat /\ carry \in Seq(Int) /\ CarryOk /\ Period \in Nat
    BY StreamAssumption DEF Inv, TypeOK
  <1>4. head' \in Nat /\ tail' \in Nat /\ carry' \in Seq(Int) /\ CarryOk'
    BY <1>1, <1>2, <1>3 DEF CarryOk
  <1>. QED  BY <1>1, <1>4, QuietStep

----------------------------------------------------------------------------
\* A client's steps.  None touches the loop or the channel.

\* What such a step has to show.
LEMMA ClientStep ==
    ASSUME Inv, UNCHANGED <<head, opusVars, chanVars>>,
           subs' \in Nat,
           pc' \in [Clients -> Handlers],
           rx' \in [Clients -> Nat],
           seen' \in [Clients -> SUBSET Int],
           FollowOk', SlotsExact', ClientSeesNoGap'
    PROVE  Inv'
  <1>1. TypeOK' /\ CarryOk'
    BY DEF Inv, TypeOK, CarryOk, opusVars, chanVars
  <1>2. PacketsUnbroken'
    BY DEF Inv, PacketsUnbroken, chanVars
  <1>. QED  BY <1>1, <1>2 DEF Inv

\* A step that keeps receiver and record of every client and lets no client
\* start to listen.
LEMMA FollowKept ==
    ASSUME Inv, UNCHANGED <<opusVars, chanVars, rx, seen>>,
           \A d \in Clients : pc'[d] \in Listening => pc[d] \in Listening
    PROVE  FollowOk' /\ ClientSeesNoGap' /\ rx' \in [Clients -> Nat] /\ seen' \in [Clients -> SUBSET Int]
  <1>1. FollowOk'
    BY DEF Inv, FollowOk, Follows, opusVars, chanVars
  <1>2. ClientSeesNoGap'
    BY DEF Inv, ClientSeesNoGap
  <1>. QED  BY <1>1, <1>2 DEF Inv, TypeOK

\* A step that moves one client between control points that hold a guard.
LEMMA SlotsKept ==
    ASSUME Inv, NEW c \in Clients, NEW p \in Handlers \ {"idle"},
           pc[c] # "idle", pc' = [pc EXCEPT ![c] = p], UNCHANGED subs
    PROVE  SlotsExact' /\ subs' \in Nat /\ pc' \in [Clients -> Handlers]
  <1>1. pc \in [Clients -> Handlers] /\ subs \in Nat
    BY DEF Inv, TypeOK
  <1>2. pc' \in [Clients -> Handlers]
    BY <1>1
  <1>3. Guarded' = Guarded
    BY <1>1, <1>2 DEF Guarded, Handlers
  <1>4. SlotsExact'
    BY <1>3 DEF Inv, SlotsExact
  <1>. QED  BY <1>1, <1>2, <1>4

\* Only finitely many handlers hold a slot.
LEMMA GuardedFinite == IsFiniteSet(Guarded)
  BY StreamAssumption, FS_Subset DEF Guarded

\* Every way out of a handler gives exactly one slot back.
LEMMA LeaveStep ==
    ASSUME Inv, NEW c \in Clients, UpgradeFails(c) \/ HandlerEnds(c)
    PROVE  Inv'
  <1>0. /\ pc \in [Clients -> Handlers] /\ subs \in Nat /\ SlotsExact
        /\ MaxConn["tcp"] \in Nat /\ MaxConn["uds"] \in Nat
    BY StreamAssumption DEF Inv, TypeOK
  <1>1. /\ UNCHANGED <<head, opusVars, chanVars, rx, seen>>
        /\ subs' = subs - 1
        /\ pc' = [pc EXCEPT ![c] = "idle"]
        /\ pc[c] \in {"upgrading", "closing"}
    BY DEF UpgradeFails, HandlerEnds, DropGuard
  <1>2. pc' \in [Clients -> Handlers]
    BY <1>0, <1>1 DEF Handlers
  <1>3. Guarded' = Guarded \ {c} /\ c \in Guarded
    BY <1>0, <1>1, <1>2 DEF Guarded
  <1>4. IsFiniteSet(Guarded) /\ Cardinality(Guarded) \in Nat
    BY GuardedFinite, FS_CardinalityType
  <1>5. Cardinality(Guarded') = Cardinality(Guarded) - 1 /\ Cardinality(Guarded) # 0
    BY <1>3, <1>4, FS_RemoveElement, FS_EmptySet
  <1>6. subs' = Cardinality(Guarded') /\ subs' \in Nat /\ subs' <= subs
    BY <1>0, <1>1, <1>4, <1>5 DEF SlotsExact
  <1>7. SlotsExact'
    <2>1. (\A l \in {"tcp", "uds"} : MaxConn[l] # 0) =>
             subs' <= MaxConn["tcp"] \/ subs' <= MaxConn["uds"]
      BY <1>0, <1>6 DEF SlotsExact
    <2>. QED  BY <2>1, <1>6 DEF SlotsExact
  <1>8. \A d \in Clients : pc'[d] \in Listening => pc[d] \in Listening
    BY <1>0, <1>1 DEF Listening
  <1>9. FollowOk' /\ ClientSeesNoGap' /\ rx' \in [Clients -> Nat] /\ seen' \in [Clients -> SUBSET Int]
    BY <1>1, <1>8, FollowKept
  <1>. QED  BY <1>1, <1>2, <1>6, <1>7, <1>9, ClientStep

\* A request takes a slot only while its listener's cap has one left.
LEMMA DialStep ==
    ASSUME Inv, NEW c \in Clients, NEW req \in Requests, Dial(c, req)
    PROVE  Inv'
  <1>0. /\ pc \in [Clients -> Handlers] /\ subs \in Nat /\ SlotsExact
        /\ MaxConn["tcp"] \in Nat /\ MaxConn["uds"] \in Nat
    BY StreamAssumption DEF Inv, TypeOK
  <1>1. UNCHANGED <<head, opusVars, chanVars, rx, seen>> /\ pc[c] = "idle"
    BY DEF Dial
  <1>2. CASE UNCHANGED <<pc, subs>>
    <2>1. FollowOk' /\ ClientSeesNoGap' /\ rx' \in [Clients -> Nat] /\ seen' \in [Clients -> SUBSET Int]
      BY <1>1, <1>2, FollowKept
    <2>2. SlotsExact'
      BY <1>2, <1>0 DEF SlotsExact, Guarded
    <2>. QED  BY <1>0, <1>1, <1>2, <2>1, <2>2, ClientStep
  <1>3. CASE /\ Refusal(Listener(c), req) = "none"
             /\ TryAcquire
             /\ pc' = [pc EXCEPT ![c] = "guarded"]
    <2>1. pc' \in [Clients -> Handlers] /\ subs' = subs + 1
      BY <1>0, <1>3 DEF Handlers, TryAcquire
    <2>2. Guarded' = Guarded \cup {c} /\ c \notin Guarded
      BY <1>0, <1>1, <1>3, <2>1 DEF Guarded
    <2>3. IsFiniteSet(Guarded) /\ Cardinality(Guarded) \in Nat
      BY GuardedFinite, FS_CardinalityType
    <2>4. Cardinality(Guarded') = Cardinality(Guarded) + 1
      BY <2>2, <2>3, FS_AddElement
    <2>5. subs' = Cardinality(Guarded') /\ subs' \in Nat
      BY <1>0, <2>1, <2>3, <2>4 DEF SlotsExact
    <2>6. MaxConn[Listener(c)] # 0 => subs < MaxConn[Listener(c)]
      <3>1. Listener(c) = "tcp" \/ Listener(c) = "uds"
        BY DEF Listener
      <3>2. ~(MaxConn[Listener(c)] # 0 /\ subs >= MaxConn[Listener(c)])
        BY <1>3 DEF Refusal
      <3>. QED  BY <3>1, <3>2, <1>0
    <2>7. SlotsExact'
      <3>1. Listener(c) = "tcp" \/ Listener(c) = "uds"
        BY DEF Listener
      <3>2. (\A l \in {"tcp", "uds"} : MaxConn[l] # 0) =>
               subs' <= MaxConn["tcp"] \/ subs' <= MaxConn["uds"]
        BY <3>1, <2>6, <2>1, <1>0
      <3>. QED  BY <3>2, <2>5 DEF SlotsExact
    <2>8. \A d \in Clients : pc'[d] \in Listening => pc[d] \in Listening
      BY <1>0, <1>3 DEF Listening
    <2>9. FollowOk' /\ ClientSeesNoGap' /\ rx' \in [Clients -> Nat] /\ seen' \in [Clients -> SUBSET Int]
      BY <1>1, <2>8, FollowKept
    <2>. QED  BY <1>1, <2>1, <2>5, <2>7, <2>9, ClientStep
  <1>. QED  BY <1>2, <1>3 DEF Dial

\* A new receiver stands at the channel's end and has seen nothing.
LEMMA SubscribeStep ==
    ASSUME Inv, NEW c \in Clients, Subscribe(c)
    PROVE  Inv'
  <1>0. /\ pc \in [Clients -> Handlers] /\ rx \in [Clients -> Nat] /\ pos \in Nat
        /\ seen \in [Clients -> SUBSET Int] /\ chan \in Seq(Packet) /\ Len(chan) \in Nat
    BY DEF Inv, TypeOK
  <1>1. /\ pc[c] = "guarded" /\ pc' = [pc EXCEPT ![c] = "upgrading"]
        /\ rx' = [rx EXCEPT ![c] = pos] /\ seen' = [seen EXCEPT ![c] = {}]
        /\ UNCHANGED <<head, opusVars, chanVars, subs>>
        /\ UNCHANGED <<seq, chan, pos>>
    BY DEF Subscribe, opusVars, chanVars
  <1>2. SlotsExact' /\ subs' \in Nat /\ pc' \in [Clients -> Handlers]
    BY <1>1, SlotsKept DEF Handlers
  <1>3. rx' \in [Clients -> Nat] /\ seen' \in [Clients -> SUBSET Int]
    BY <1>0, <1>1
  <1>4. FollowOk'
    <2> SUFFICES ASSUME NEW d \in Clients, pc'[d] \in Listening
                 PROVE  Follows(d)'
      BY DEF FollowOk
    <2>1. CASE d = c
      <3>1. rx'[c] = pos /\ seen'[c] = {}
        BY <1>0, <1>1
      <3>2. \A k \in 1..Len(chan) : ~(pos - Len(chan) + k > pos)
        BY <1>0
      <3>. QED  BY <2>1, <3>1, <3>2, <1>0, <1>1 DEF Follows
    <2>2. CASE d # c
      <3>1. rx'[d] = rx[d] /\ seen'[d] = seen[d] /\ pc'[d] = pc[d]
        BY <2>2, <1>0, <1>1
      <3>2. Follows(d)
        BY <3>1 DEF Inv, FollowOk
      <3>. QED  BY <3>1, <3>2, <1>1 DEF Follows
    <2>. QED  BY <2>1, <2>2
  <1>5. ClientSeesNoGap'
    <2> SUFFICES ASSUME NEW d \in Clients, NEW a \in seen'[d], NEW b \in seen'[d], NEW n \in a..b
                 PROVE  n \in seen'[d]
      BY DEF ClientSeesNoGap
    <2>1. d # c /\ seen'[d] = seen[d]
      BY <1>0, <1>1
    <2>. QED  BY <2>1 DEF Inv, ClientSeesNoGap
  <1>. QED  BY <1>1, <1>2, <1>3, <1>4, <1>5, ClientStep

\* Moving on in the handler without touching the receiver.
LEMMA MoveStep ==
    ASSUME Inv, NEW c \in Clients,
           Upgraded(c) \/ SendDone(c) \/ PeerMessage(c)
    PROVE  Inv'
  <1>0. pc \in [Clients -> Handlers]
    BY DEF Inv, TypeOK
  <1>1. PICK p \in {"open", "closing"} :
           /\ pc' = [pc EXCEPT ![c] = p]
           /\ pc[c] \in Listening
    BY DEF Upgraded, SendDone, PeerMessage, Listening
  <1>2. UNCHANGED <<head, opusVars, chanVars, subs, rx, seen>>
    BY DEF Upgraded, SendDone, PeerMessage
  <1>3. SlotsExact' /\ subs' \in Nat /\ pc' \in [Clients -> Handlers]
    BY <1>1, <1>2, SlotsKept DEF Handlers, Listening
  <1>4. \A d \in Clients : pc'[d] \in Listening => pc[d] \in Listening
    BY <1>0, <1>1 DEF Listening
  <1>5. FollowOk' /\ ClientSeesNoGap' /\ rx' \in [Clients -> Nat] /\ seen' \in [Clients -> SUBSET Int]
    BY <1>2, <1>4, FollowKept
  <1>. QED  BY <1>2, <1>3, <1>5, ClientStep

\* A receiver the channel has overtaken is closed, whatever it would see next.
LEMMA LaggedStep ==
    ASSUME Inv, NEW c \in Clients, RecvLagged(c)
    PROVE  Inv'
  <1>0. /\ pc \in [Clients -> Handlers] /\ rx \in [Clients -> Nat] /\ pos \in Nat
        /\ chan \in Seq(Packet) /\ Len(chan) \in Nat
    BY DEF Inv, TypeOK
  <1>1. /\ pc[c] = "open" /\ pc' = [pc EXCEPT ![c] = "closing"]
        /\ rx' = [rx EXCEPT ![c] = Oldest] /\ rx[c] < Oldest
        /\ UNCHANGED <<head, opusVars, chanVars, subs, seen>>
        /\ UNCHANGED <<seq, chan, pos>>
    BY DEF RecvLagged, opusVars, chanVars
  <1>2. SlotsExact' /\ subs' \in Nat /\ pc' \in [Clients -> Handlers]
    BY <1>1, SlotsKept DEF Handlers
  <1>3. Oldest \in Nat
    BY <1>0, <1>1 DEF Oldest
  <1>4. rx' \in [Clients -> Nat] /\ seen' \in [Clients -> SUBSET Int]
    BY <1>0, <1>1, <1>3 DEF Inv, TypeOK
  <1>5. FollowOk'
    <2> SUFFICES ASSUME NEW d \in Clients, pc'[d] \in Listening
                 PROVE  Follows(d)'
      BY DEF FollowOk
    <2>1. d # c
      BY <1>0, <1>1 DEF Listening
    <2>2. rx'[d] = rx[d] /\ pc'[d] = pc[d]
      BY <2>1, <1>0, <1>1
    <2>3. Follows(d)
      BY <2>2 DEF Inv, FollowOk
    <2>. QED  BY <2>2, <2>3, <1>1 DEF Follows
  <1>6. ClientSeesNoGap'
    BY <1>1 DEF Inv, ClientSeesNoGap
  <1>. QED  BY <1>1, <1>2, <1>4, <1>5, <1>6, ClientStep

\* A packet taken from the channel is the successor of the last one taken.
LEMMA RecvStep ==
    ASSUME Inv, NEW c \in Clients, Recv(c)
    PROVE  Inv'
  <1> DEFINE i == rx[c] - Oldest + 1
             x == chan[i].seq
             top == seq - pos + rx[c]
  <1>0. /\ pc \in [Clients -> Handlers] /\ rx \in [Clients -> Nat] /\ rx[c] \in Nat
        /\ pos \in Nat /\ seq \in Nat
        /\ seen \in [Clients -> SUBSET Int] /\ seen[c] \subseteq Int
        /\ chan \in Seq(Packet) /\ Len(chan) \in Nat
    BY DEF Inv, TypeOK
  <1>1. /\ pc[c] = "open" /\ pc' = [pc EXCEPT ![c] = "sending"]
        /\ rx' = [rx EXCEPT ![c] = @ + 1]
        /\ rx[c] < pos /\ rx[c] >= pos - Len(chan)
        /\ seen' = [seen EXCEPT ![c] = @ \cup {x}]
        /\ UNCHANGED <<head, opusVars, chanVars, subs>>
        /\ UNCHANGED <<seq, chan, pos>>
    BY DEF Recv, RecvReady, Oldest, opusVars, chanVars
  <1>2. SlotsExact' /\ subs' \in Nat /\ pc' \in [Clients -> Handlers]
    BY <1>1, SlotsKept DEF Handlers
  <1>3. Follows(c)
    BY <1>1 DEF Inv, FollowOk, Listening
  <1>4. x = top + 1
    <2>1. i \in 1..Len(chan) /\ pos - Len(chan) + i > rx[c]
      BY <1>0, <1>1 DEF Oldest
    <2>2. x = seq - Len(chan) + i
      BY <2>1, <1>3 DEF Follows
    <2>. QED  BY <2>2, <1>0 DEF Oldest
  <1>5. top \in Int /\ x \in Int
    BY <1>0, <1>4
  <1> HIDE DEF x, top
  <1>6. rx' \in [Clients -> Nat] /\ seen' \in [Clients -> SUBSET Int]
    BY <1>0, <1>1, <1>5
  <1>7. /\ rx'[c] = rx[c] + 1 /\ seen'[c] = seen[c] \cup {x}
        /\ \A n \in seen[c] : n <= top
        /\ seen[c] # {} => top \in seen[c]
    BY <1>0, <1>1, <1>3 DEF Follows, top
  <1>8. FollowOk'
    <2> SUFFICES ASSUME NEW d \in Clients, pc'[d] \in Listening
                 PROVE  Follows(d)'
      BY DEF FollowOk
    <2>1. CASE d = c
      <3>1. rx'[c] <= pos'
        BY <1>0, <1>1, <1>7
      <3>2. ASSUME NEW k \in 1..Len(chan'), pos' - Len(chan') + k > rx'[c]
            PROVE  chan'[k].seq = seq' - Len(chan') + k
        <4>1. pos - Len(chan) + k > rx[c]
          BY <3>2, <1>0, <1>1, <1>7
        <4>. QED  BY <4>1, <1>1, <1>3 DEF Follows
      <3>3. seq' - pos' + rx'[c] = x
        BY <1>0, <1>1, <1>4, <1>7 DEF top
      <3>4. \A n \in seen'[c] : n <= x
        BY <1>0, <1>4, <1>5, <1>7
      <3>. QED  BY <2>1, <3>1, <3>2, <3>3, <3>4, <1>7 DEF Follows
    <2>2. CASE d # c
      <3>1. rx'[d] = rx[d] /\ seen'[d] = seen[d] /\ pc'[d] = pc[d]
        BY <2>2, <1>0, <1>1
      <3>2. Follows(d)
        BY <3>1 DEF Inv, FollowOk
      <3>. QED  BY <3>1, <3>2, <1>1 DEF Follows
    <2>. QED  BY <2>1, <2>2
  <1>9. ClientSeesNoGap'
    <2> SUFFICES ASSUME NEW d \in Clients, NEW a \in seen'[d], NEW b \in seen'[d], NEW n \in a..b
                 PROVE  n \in seen'[d]
      BY DEF ClientSeesNoGap
    <2>1. CASE d # c
      <3>1. seen'[d] = seen[d]
        BY <2>1, <1>0, <1>1
      <3>. QED  BY <3>1 DEF Inv, ClientSeesNoGap
    <2>2. CASE d = c
      <3>1. \A p, q \in seen[c] : \A m \in p..q : m \in seen[c]
        BY DEF Inv, ClientSeesNoGap
      <3>2. a \in Int /\ b \in Int /\ n \in Int /\ a <= n /\ n <= b
        BY <2>2, <1>6
      <3>3. CASE n = x
        BY <3>3, <2>2, <1>7
      <3>4. CASE n # x
        <4>1. n <= top
          BY <3>2, <3>4, <2>2, <1>0, <1>4, <1>5, <1>7
        <4>2. a \in seen[c]
          BY <4>1, <3>2, <2>2, <1>4, <1>5, <1>7
        <4>3. top \in seen[c] /\ n \in a..top
          BY <4>1, <4>2, <3>2, <1>5, <1>7
        <4>. QED  BY <4>2, <4>3, <3>1, <2>2, <1>7
      <3>. QED  BY <3>3, <3>4
    <2>. QED  BY <2>1, <2>2
  <1>. QED  BY <1>1, <1>2, <1>6, <1>8, <1>9, ClientStep

----------------------------------------------------------------------------
\* Theorems.

\* The invariant holds in every state of every behaviour: of the loop of
\* opus_stream::run, the broadcast channel and any number of handle_ws tasks.
THEOREM Invariance == Spec => []Inv
  <1>1. Init => Inv
    <2> SUFFICES ASSUME Init
                 PROVE  Inv
      OBVIOUS
    <2>1. TypeOK
      BY DEF Init, TypeOK, Handlers
    <2>2. CarryOk
      <3>1. carry = <<>> /\ Frame \in Nat \ {0}
        BY StreamAssumption DEF Init
      <3>. QED  BY <3>1 DEF CarryOk
    <2>3. FollowOk
      BY DEF Init, FollowOk, Listening
    <2>4. SlotsExact
      <3>1. Guarded = {} /\ subs = 0 /\ MaxConn["tcp"] \in Nat
        BY StreamAssumption DEF Init, Guarded
      <3>2. Cardinality(Guarded) = 0
        BY <3>1, FS_EmptySet
      <3>. QED  BY <3>1, <3>2 DEF SlotsExact
    <2>5. ClientSeesNoGap /\ PacketsUnbroken
      BY DEF Init, ClientSeesNoGap, PacketsUnbroken
    <2>. QED  BY <2>1, <2>2, <2>3, <2>4, <2>5 DEF Inv
  <1>2. Inv /\ [Next]_vars => Inv'
    <2> SUFFICES ASSUME Inv, [Next]_vars
                 PROVE  Inv'
      OBVIOUS
    <2>1. CASE OpusNext \/ OpusFails
      BY <2>1, ReadyStep, OpusOtherStep DEF OpusNext
    <2>2. ASSUME NEW c \in Clients,
                 \/ \E req \in Requests : Dial(c, req)
                 \/ HandlerNext(c)
                 \/ SendDone(c)
          PROVE  Inv'
      <3>1. CASE \E req \in Requests : Dial(c, req)
        BY <3>1, DialStep
      <3>2. CASE HandlerNext(c) \/ SendDone(c)
        BY <3>2, SubscribeStep, MoveStep, LeaveStep, RecvStep, LaggedStep DEF HandlerNext
      <3>. QED  BY <2>2, <3>1, <3>2
    <2>3. CASE \/ \E c \in Clients : PeerGone(c)
               \/ \E transient \in BOOLEAN : AcceptError(transient)
               \/ BackoffOver \/ Capture \/ Shutdown
      BY <2>3, SurroundingStep
    <2>4. CASE UNCHANGED vars
      <3>1. /\ UNCHANGED <<seq, chanVars, subs, pc, rx, seen>>
            /\ UNCHANGED <<head, tail, carry, opus>>
        BY <2>4 DEF vars, opusVars, wsVars
      <3>2. head' \in Nat /\ tail' \in Nat /\ carry' \in Seq(Int) /\ CarryOk'
        BY <3>1 DEF Inv, TypeOK, CarryOk
      <3>. QED  BY <3>1, <3>2, QuietStep
    <2>. QED  BY <2>1, <2>2, <2>3, <2>4 DEF Next
  <1>. QED  BY <1>1, <1>2, PTL DEF Spec

\* The subscriber watch counts the live handlers exactly, and no interleaving
\* of dials on the two listeners takes it past the larger cap.
THEOREM CountIsExact == Spec => []SlotsExact
  <1>1. Inv => SlotsExact
    BY DEF Inv
  <1>. QED  BY <1>1, Invariance, PTL

\* What handle_ws puts on one socket is numbered without a gap.
THEOREM NoSilentGap == Spec => []ClientSeesNoGap
  <1>1. Inv => ClientSeesNoGap
    BY DEF Inv
  <1>. QED  BY <1>1, Invariance, PTL

\* Every packet the loop publishes holds one frame of consecutive samples and
\* a capture stamp within a frame of its first one.
THEOREM WholePackets == Spec => []PacketsUnbroken
  <1>1. Inv => PacketsUnbroken
    BY DEF Inv
  <1>. QED  BY <1>1, Invariance, PTL

============================================================================
