--------------------------- MODULE PcmPathProofs ----------------------------
(***************************************************************************)
(* Proofs about PcmPath, for every capacity of the two queues, every       *)
(* packet length and any number of flushes and restarts: no frame of the   *)
(* adapter queue is forgotten, epochs never mix, and sound reaches the     *)
(* encoder in order, without a gap when it is buffered.                    *)
(***************************************************************************)
EXTENDS PcmPath, FiniteSetTheorems, SequenceTheorems, TLAPS

Batches == [id : Nat, left : Nat \ {0}]
Encoders == [epoch : Nat, released : BOOLEAN, input : Seq(Frame), frame : Seq(Frame),
             next : Nat \cup {Nothing}]
Events == [type : {"Pcm"}, id : Nat] \cup [type : {"Flushed"}, epoch : Nat]
              \cup [type : {"SessionStopped", "StreamEndedWhilePaused"}]

TypeInv ==
    /\ buffered \in BOOLEAN /\ unsent \in BOOLEAN /\ ended \in BOOLEAN
    /\ packet \in 0..PacketSamples /\ progress \in Nat /\ position \in Nat /\ epoch \in Nat
    /\ IF packet = 0 THEN progress = 0 ELSE buffered /\ progress < packet
    /\ queue \in [id : Nat, frames : Seq(Frame), notified : BOOLEAN]
    /\ events \in Seq(Events)
    /\ batch # Nothing => batch \in Batches
    /\ seen \in Nat
    /\ encoder # Nothing => encoder \in Encoders /\ Len(encoder.frame) \in {0, 1}
    /\ retired \in Seq(Frame)

(* The flushes that the runtime has not handled: the last one began the    *)
(* queue that is filled now, and what announces that queue comes after it. *)
Flushes == {i \in DOMAIN events : events[i].type = "Flushed"}

ChannelInv ==
    /\ seen <= epoch
    /\ \A i \in DOMAIN events : /\ events[i].type = "Pcm" => events[i].id <= epoch
                                /\ events[i].type = "Flushed" => events[i].epoch <= epoch
    /\ \A i \in Flushes : (\A j \in Flushes : j <= i) => events[i].epoch = epoch
    /\ Flushes = {} => seen = epoch
    /\ \A i \in Announcements, j \in Flushes : j < i

(* Whose sound is where.                                                   *)
FramesInv ==
    /\ queue.id = epoch
    /\ \A i \in DOMAIN queue.frames : queue.frames[i].epoch = epoch
    /\ batch # Nothing => batch.id <= epoch
    /\ batch # Nothing /\ batch.id = epoch => seen = epoch
    /\ encoder # Nothing =>
          /\ encoder.epoch = seen
          /\ \A i \in DOMAIN encoder.input : encoder.input[i].epoch = seen
          /\ \A i \in DOMAIN encoder.frame : encoder.frame[i].epoch = seen
    /\ \A i \in DOMAIN retired : retired[i].epoch <= epoch

(* An event that was asked for is sent, or on its way.                     *)
QueueInv ==
    /\ queue.notified => unsent \/ Announcements # {}
    /\ ended => queue.frames = <<>>
    /\ NoFrameForgotten

CreditInv == buffered => InUse <= QueueSamples

(* Positions of the sender: buffered sound, b, goes on where it was, and   *)
(* realtime sound may only skip.                                           *)
Reaches(b, n, m) == IF b THEN n = m ELSE n <= m
End1(f) == f.at + f.size

InLine(b, frames, to) ==
    /\ \A i, j \in DOMAIN frames :
          i < j /\ (b => j = i + 1) => Reaches(b, End1(frames[i]), frames[j].at)
    /\ \A i \in DOMAIN frames : (b => i = Len(frames)) => Reaches(b, End1(frames[i]), to)

StartOf(frames, to) == IF frames = <<>> THEN to ELSE frames[1].at

EncoderInLine(b, e, to) ==
    /\ InLine(b, e.input, to)
    /\ e.frame # <<>> => Reaches(b, End1(e.frame[1]), StartOf(e.input, to))
    /\ e.next # Nothing =>
          Reaches(b, e.next, IF e.frame = <<>> THEN StartOf(e.input, to) ELSE e.frame[1].at)

(* From the encoder back to the producer, while the encoder is of the      *)
(* epoch that is sent.                                                     *)
LineInv ==
    /\ InLine(buffered, queue.frames, position + progress)
    /\ encoder # Nothing =>
          \E to \in Nat :
             /\ encoder.epoch = epoch /\ ~ended => to = StartOf(queue.frames, position + progress)
             /\ EncoderInLine(buffered, encoder, to)

IInv == TypeInv /\ ChannelInv /\ FramesInv /\ QueueInv /\ CreditInv /\ LineInv

----------------------------------------------------------------------------
(* Operations on a queue.                                                  *)

LEMMA Constants ==
    QueueSamples \in Nat \ {0} /\ InputSamples \in Nat /\ PacketSamples \in Nat
  BY CapacityAssumption

LEMMA FrameTypes ==
    ASSUME NEW f \in Frame
    PROVE  /\ f.epoch \in Nat /\ f.at \in Nat /\ f.size \in 1..PacketSamples
           /\ End1(f) \in Nat /\ f.at <= End1(f)
  BY Constants DEF Frame, End1

LEMMA WithoutSome ==
    ASSUME NEW s \in Seq(Frame), NEW k \in 0..Len(s)
    PROVE  /\ Without(s, k) \in Seq(Frame) /\ Len(Without(s, k)) = Len(s) - k
           /\ \A i \in DOMAIN Without(s, k) : i + k \in DOMAIN s /\ Without(s, k)[i] = s[i + k]
           /\ k = 0 => Without(s, k) = s
<1>1. /\ Len(s) \in Nat /\ DOMAIN s = 1..Len(s) /\ \A i \in 1..Len(s) : s[i] \in Frame
      /\ k + 1 \in Int /\ \A i \in (k + 1)..Len(s) : s[i] \in Frame
  OBVIOUS
<1>2. /\ Without(s, k) \in Seq(Frame)
      /\ Len(Without(s, k)) = IF k + 1 <= Len(s) THEN Len(s) - (k + 1) + 1 ELSE 0
      /\ \A i \in 1..(Len(s) - (k + 1) + 1) : Without(s, k)[i] = s[k + 1 + i - 1]
  BY <1>1, SubSeqProperties DEF Without
<1>3. Len(s) \in Nat /\ k \in Nat /\ k <= Len(s) /\ Len(Without(s, k)) = Len(s) - k
  <2>1. Len(s) \in Nat /\ k \in Nat /\ k <= Len(s)
    OBVIOUS
  <2> QED
    BY <1>2, <2>1
<1>4. DOMAIN Without(s, k) = 1..(Len(s) - k)
  BY <1>2, <1>3
<1>5. ASSUME NEW i \in DOMAIN Without(s, k)
      PROVE  i + k \in DOMAIN s /\ Without(s, k)[i] = s[i + k]
  <2>1. i \in 1..(Len(s) - k)
    BY <1>4
  <2>2. /\ i \in 1..(Len(s) - (k + 1) + 1) /\ k + 1 + i - 1 = i + k
        /\ i + k \in 1..Len(s)
    BY <1>3, <2>1
  <2>3. Without(s, k)[i] = s[k + 1 + i - 1]
    BY <1>2, <2>2
  <2> QED
    BY <1>1, <2>2, <2>3
<1>6. k = 0 => Without(s, k) = s
  BY SubSeqFull DEF Without
<1> QED
  BY <1>2, <1>3, <1>5, <1>6

LEMMA TailOf ==
    ASSUME NEW s \in Seq(Frame), s # <<>>
    PROVE  /\ Head(s) \in Frame /\ Head(s) = s[1] /\ 1 \in DOMAIN s
           /\ Tail(s) \in Seq(Frame) /\ Len(Tail(s)) = Len(s) - 1
           /\ \A i \in DOMAIN Tail(s) : i + 1 \in DOMAIN s /\ Tail(s)[i] = s[i + 1]
  OBVIOUS

LEMMA AppendTo ==
    ASSUME NEW s \in Seq(Frame), NEW f \in Frame
    PROVE  /\ Append(s, f) \in Seq(Frame) /\ Len(Append(s, f)) = Len(s) + 1
           /\ DOMAIN Append(s, f) = DOMAIN s \cup {Len(s) + 1}
           /\ \A i \in DOMAIN s : Append(s, f)[i] = s[i]
           /\ Append(s, f)[Len(s) + 1] = f
  OBVIOUS

LEMMA RemoveFrom ==
    ASSUME NEW s \in Seq(Frame), NEW i \in DOMAIN s
    PROVE  /\ RemoveAt(s, i) \in Seq(Frame) /\ Len(RemoveAt(s, i)) = Len(s) - 1
           /\ \A j \in DOMAIN RemoveAt(s, i) :
                 RemoveAt(s, i)[j] = IF j < i THEN s[j] ELSE s[j + 1]
<1> DEFINE a == SubSeq(s, 1, i - 1)
           b == SubSeq(s, i + 1, Len(s))
<1>1. Len(s) \in Nat /\ i \in Nat /\ 1 <= i /\ i <= Len(s)
  OBVIOUS
<1>2. /\ Len(s) \in Nat /\ DOMAIN s = 1..Len(s) /\ \A j \in 1..Len(s) : s[j] \in Frame
      /\ i - 1 \in Int /\ i + 1 \in Int
  OBVIOUS
<1>3. /\ a \in Seq(Frame) /\ Len(a) = i - 1
      /\ \A j \in 1..(i - 1) : a[j] = s[j]
  <2>1. /\ a \in Seq(Frame) /\ Len(a) = IF 1 <= i - 1 THEN i - 1 - 1 + 1 ELSE 0
        /\ \A j \in 1..(i - 1 - 1 + 1) : a[j] = s[1 + j - 1]
    BY <1>2, SubSeqProperties
  <2> HIDE DEF a
  <2> QED
    BY <1>2, <2>1
<1>4. /\ b \in Seq(Frame) /\ Len(b) = Len(s) - i
      /\ \A j \in 1..(Len(s) - i) : b[j] = s[j + i]
  <2>1. /\ b \in Seq(Frame) /\ Len(b) = IF i + 1 <= Len(s) THEN Len(s) - (i + 1) + 1 ELSE 0
        /\ \A j \in 1..(Len(s) - (i + 1) + 1) : b[j] = s[i + 1 + j - 1]
    BY <1>2, SubSeqProperties
  <2>2. /\ Len(b) = Len(s) - i
        /\ \A j \in 1..(Len(s) - i) : j \in 1..(Len(s) - (i + 1) + 1) /\ i + 1 + j - 1 = j + i
    <3>1. Len(b) = IF i + 1 <= Len(s) THEN Len(s) - (i + 1) + 1 ELSE 0
      BY <2>1
    <3> HIDE DEF b
    <3>2. Len(b) = Len(s) - i
      BY <1>1, <3>1
    <3> QED
      BY <1>1, <3>2
  <2> HIDE DEF b
  <2> QED
    BY <2>1, <2>2
<1> HIDE DEF a, b
<1>5. /\ a \o b \in Seq(Frame) /\ Len(a \o b) = Len(a) + Len(b)
      /\ \A j \in 1..(Len(a) + Len(b)) : (a \o b)[j] = IF j <= Len(a) THEN a[j] ELSE b[j - Len(a)]
  BY <1>3, <1>4, ConcatProperties
<1>6. Len(a \o b) = Len(s) - 1 /\ DOMAIN (a \o b) = 1..(Len(s) - 1)
  BY <1>1, <1>3, <1>4, <1>5
<1>7. ASSUME NEW j \in 1..(Len(s) - 1)
      PROVE  (a \o b)[j] = IF j < i THEN s[j] ELSE s[j + 1]
  <2>1. j \in Nat /\ 1 <= j /\ j <= Len(s) - 1
    BY <1>1
  <2>2. (a \o b)[j] = IF j <= i - 1 THEN a[j] ELSE b[j - (i - 1)]
    <3>1. j \in 1..(Len(a) + Len(b)) /\ Len(a) = i - 1
      BY <1>1, <1>3, <1>4, <2>1
    <3> QED
      BY <1>5, <3>1
  <2>3. j < i => (a \o b)[j] = s[j]
    BY <1>1, <1>3, <2>1, <2>2
  <2>4. j >= i => (a \o b)[j] = s[j + 1]
    <3> SUFFICES ASSUME j >= i PROVE (a \o b)[j] = s[j + 1]
      OBVIOUS
    <3>1. /\ j - (i - 1) \in 1..(Len(s) - i) /\ j - (i - 1) + i = j + 1
          /\ ~(j <= i - 1) /\ ~(j < i)
      BY <1>1, <2>1
    <3>2. b[j - (i - 1)] = s[j + 1]
      BY <1>4, <3>1
    <3> QED
      BY <2>2, <3>1, <3>2
  <2>5. j < i \/ (j >= i /\ ~(j < i))
    BY <1>1, <2>1
  <2> QED
    BY <2>3, <2>4, <2>5, Zenon
<1>8. RemoveAt(s, i) = a \o b
  BY DEF RemoveAt, a, b
<1> QED
  BY <1>5, <1>6, <1>7, <1>8

----------------------------------------------------------------------------
(* Credits.                                                                *)

CreditOf(f, e) == IF f.epoch = e THEN f.size ELSE 0
Credited(frames, e) == {x \in Sound(frames) : frames[x[1]].epoch = e}

LEMMA SoundFinite ==
    ASSUME NEW s \in Seq(Frame), NEW e
    PROVE  /\ IsFiniteSet(Sound(s)) /\ IsFiniteSet(Credited(s, e))
           /\ Samples(s) \in Nat /\ Credits(s, e) \in Nat
           /\ Credits(s, e) = Cardinality(Credited(s, e))
           /\ \A x \in Credited(s, e) :
                 /\ x = <<x[1], x[2]>> /\ x[1] \in DOMAIN s /\ x[2] \in 1..PacketSamples
                 /\ x[2] <= s[x[1]].size /\ s[x[1]].epoch = e
           /\ \A i \in DOMAIN s, n \in 1..PacketSamples :
                 n <= s[i].size /\ s[i].epoch = e => <<i, n>> \in Credited(s, e)
<1>1. DOMAIN s = 1..Len(s) /\ Len(s) \in Nat
  OBVIOUS
<1>2. IsFiniteSet(DOMAIN s) /\ IsFiniteSet(1..PacketSamples)
  BY <1>1, FS_Interval, Constants
<1>3. IsFiniteSet((DOMAIN s) \X (1..PacketSamples))
  BY <1>2, FS_Product
<1>4. IsFiniteSet(Sound(s)) /\ IsFiniteSet(Credited(s, e))
  BY <1>3, FS_Subset DEF Sound, Credited
<1>5. Samples(s) \in Nat /\ Credits(s, e) \in Nat /\ Credits(s, e) = Cardinality(Credited(s, e))
  BY <1>4, FS_CardinalityType DEF Samples, Credits, Credited
<1> QED
  BY <1>4, <1>5 DEF Sound, Credited

LEMMA NoCredits ==
    ASSUME NEW s \in Seq(Frame), NEW e, \A i \in DOMAIN s : s[i].epoch # e
    PROVE  Credits(s, e) = 0
<1>1. Credited(s, e) = {}
  BY SoundFinite
<1> QED
  BY <1>1, SoundFinite, FS_EmptySet

LEMMA AllCredits ==
    ASSUME NEW s \in Seq(Frame), NEW e, \A i \in DOMAIN s : s[i].epoch = e
    PROVE  Samples(s) = Credits(s, e)
<1>1. Credited(s, e) = Sound(s)
  BY DEF Credited, Sound
<1> QED
  BY <1>1, SoundFinite DEF Samples

(* The samples of one frame in a queue.                                    *)
OneOf(frames, m, e) == {x \in Credited(frames, e) : x[1] = m}

LEMMA OneFrame ==
    ASSUME NEW s \in Seq(Frame), NEW e, NEW m \in DOMAIN s
    PROVE  IsFiniteSet(OneOf(s, m, e)) /\ Cardinality(OneOf(s, m, e)) = CreditOf(s[m], e)
<1> DEFINE One == OneOf(s, m, e)
<1>1. s[m] \in Frame /\ s[m].size \in 1..PacketSamples /\ CreditOf(s[m], e) \in Nat
      /\ CreditOf(s[m], e) <= PacketSamples
  BY FrameTypes, Constants DEF CreditOf
<1>2. One = {m} \X (1..CreditOf(s[m], e))
  <2>1. ASSUME NEW x \in One
        PROVE  x \in {m} \X (1..CreditOf(s[m], e))
    BY <1>1, SoundFinite DEF CreditOf, OneOf
  <2>2. ASSUME NEW n \in 1..CreditOf(s[m], e)
        PROVE  <<m, n>> \in One
    <3>1. s[m].epoch = e /\ n \in 1..PacketSamples /\ n <= s[m].size
      BY <1>1, Constants DEF CreditOf
    <3> QED
      BY <3>1, SoundFinite DEF OneOf
  <2> QED
    BY <2>1, <2>2
<1>3. IsFiniteSet(1..CreditOf(s[m], e)) /\ Cardinality(1..CreditOf(s[m], e)) = CreditOf(s[m], e)
  BY <1>1, FS_Interval
<1>4. IsFiniteSet({m}) /\ Cardinality({m}) = 1
  BY FS_Singleton
<1>5. /\ IsFiniteSet({m} \X (1..CreditOf(s[m], e)))
      /\ Cardinality({m} \X (1..CreditOf(s[m], e))) = 1 * CreditOf(s[m], e)
  BY <1>3, <1>4, FS_Product
<1> QED
  BY <1>1, <1>2, <1>5

(* A queue whose frames are some of those of another one has less credits. *)
LEMMA FewerCredits ==
    ASSUME NEW s \in Seq(Frame), NEW t \in Seq(Frame), NEW e, NEW m \in DOMAIN t,
           NEW g \in [DOMAIN s -> DOMAIN t],
           \A i \in DOMAIN s : g[i] # m /\ t[g[i]] = s[i],
           \A i, j \in DOMAIN s : g[i] = g[j] => i = j
    PROVE  Credits(s, e) + CreditOf(t[m], e) <= Credits(t, e)
<1> DEFINE One == OneOf(t, m, e)
           Rest == {x \in Credited(t, e) : x[1] # m}
           h == [x \in Credited(s, e) |-> <<g[x[1]], x[2]>>]
<1>1. IsFiniteSet(Rest) /\ IsFiniteSet(One) /\ Cardinality(One) = CreditOf(t[m], e)
  <2>1. IsFiniteSet(Rest)
    BY SoundFinite, FS_Subset
  <2> QED
    BY <2>1, OneFrame
<1>2. (One \cap Rest) = {} /\ One \cup Rest = Credited(t, e)
  BY DEF OneOf
<1>3. Cardinality(Credited(t, e)) = Cardinality(One) + Cardinality(Rest)
  <2>1. Cardinality(One \cup Rest) = Cardinality(One) + Cardinality(Rest) - Cardinality(One \cap Rest)
    BY <1>1, FS_Union
  <2>2. Cardinality(One) \in Nat /\ Cardinality(Rest) \in Nat
    BY <1>1, FS_CardinalityType
  <2>3. Cardinality(One \cap Rest) = 0
    BY <1>2, FS_EmptySet
  <2>4. Cardinality(Credited(t, e)) = Cardinality(One \cup Rest)
    BY <1>2, Zenon
  <2> QED
    BY <2>1, <2>2, <2>3, <2>4
<1>4. \A x \in Credited(s, e) : h[x] \in Rest
  <2>1. SUFFICES ASSUME NEW x \in Credited(s, e) PROVE <<g[x[1]], x[2]>> \in Rest
    OBVIOUS
  <2>2. /\ x[1] \in DOMAIN s /\ x[2] \in 1..PacketSamples
        /\ x[2] <= s[x[1]].size /\ s[x[1]].epoch = e
    BY SoundFinite
  <2>3. g[x[1]] \in DOMAIN t /\ g[x[1]] # m /\ t[g[x[1]]] = s[x[1]]
    BY <2>2
  <2>4. <<g[x[1]], x[2]>> \in Credited(t, e)
    BY <2>2, <2>3, SoundFinite
  <2> QED
    BY <2>3, <2>4
<1>5. ASSUME NEW x \in Credited(s, e), NEW y \in Credited(s, e), h[x] = h[y]
      PROVE  x = y
  <2>1. g[x[1]] = g[y[1]] /\ x[2] = y[2]
    BY <1>5
  <2>2. /\ x = <<x[1], x[2]>> /\ x[1] \in DOMAIN s
        /\ y = <<y[1], y[2]>> /\ y[1] \in DOMAIN s
    BY SoundFinite
  <2> QED
    BY <2>1, <2>2
<1>6. h \in Injection(Credited(s, e), Rest)
  BY <1>4, <1>5 DEF Injection, IsInjective
<1>7. Cardinality(Credited(s, e)) <= Cardinality(Rest)
  BY <1>1, <1>6, FS_Injection
<1>8. Cardinality(Credited(s, e)) \in Nat /\ Cardinality(Rest) \in Nat /\ Cardinality(One) \in Nat
  BY <1>1, SoundFinite, FS_CardinalityType
<1> QED
  BY <1>1, <1>3, <1>7, <1>8, SoundFinite

LEMMA TailCredits ==
    ASSUME NEW s \in Seq(Frame), s # <<>>, NEW e
    PROVE  Credits(Tail(s), e) + CreditOf(Head(s), e) <= Credits(s, e)
<1> DEFINE t == Tail(s)
           g == [i \in DOMAIN t |-> i + 1]
<1>1. /\ t \in Seq(Frame) /\ 1 \in DOMAIN s /\ Head(s) = s[1]
      /\ \A i \in DOMAIN t : i \in Nat \ {0} /\ i + 1 \in DOMAIN s /\ t[i] = s[i + 1]
  BY TailOf
<1> HIDE DEF t
<1>2. /\ g \in [DOMAIN t -> DOMAIN s]
      /\ \A i \in DOMAIN t : g[i] # 1 /\ s[g[i]] = t[i]
      /\ \A i, j \in DOMAIN t : g[i] = g[j] => i = j
  BY <1>1
<1>3. Credits(t, e) + CreditOf(s[1], e) <= Credits(s, e)
  <2> HIDE DEF g
  <2> QED
    BY <1>1, <1>2, FewerCredits
<1> QED
  BY <1>1, <1>3 DEF t

LEMMA RemoveCredits ==
    ASSUME NEW s \in Seq(Frame), NEW i \in DOMAIN s, NEW e
    PROVE  Credits(RemoveAt(s, i), e) <= Credits(s, e)
<1> DEFINE t == RemoveAt(s, i)
           g == [j \in DOMAIN t |-> IF j < i THEN j ELSE j + 1]
<1>1. /\ t \in Seq(Frame) /\ Len(t) = Len(s) - 1
      /\ \A j \in DOMAIN t : t[j] = IF j < i THEN s[j] ELSE s[j + 1]
  BY RemoveFrom
<1> HIDE DEF t
<1>2. /\ g \in [DOMAIN t -> DOMAIN s]
      /\ \A j \in DOMAIN t : g[j] # i /\ s[g[j]] = t[j]
      /\ \A j, k \in DOMAIN t : g[j] = g[k] => j = k
  BY <1>1
<1>3. Credits(t, e) + CreditOf(s[i], e) <= Credits(s, e)
  <2> HIDE DEF g
  <2> QED
    BY <1>1, <1>2, FewerCredits
<1>4. CreditOf(s[i], e) \in Nat /\ Credits(t, e) \in Nat /\ Credits(s, e) \in Nat
  BY <1>1, FrameTypes, SoundFinite DEF CreditOf
<1> QED
  BY <1>3, <1>4 DEF t

LEMMA AppendCredits ==
    ASSUME NEW s \in Seq(Frame), NEW f \in Frame, NEW e
    PROVE  Credits(Append(s, f), e) = Credits(s, e) + CreditOf(f, e)
<1> DEFINE t == Append(s, f)
           m == Len(s) + 1
           One == OneOf(t, m, e)
<1>1. /\ t \in Seq(Frame) /\ DOMAIN t = DOMAIN s \cup {m} /\ m \notin DOMAIN s
      /\ \A i \in DOMAIN s : t[i] = s[i]
      /\ t[m] = f
  BY AppendTo
<1> HIDE DEF t, m
<1>2. IsFiniteSet(One) /\ Cardinality(One) = CreditOf(f, e)
  BY <1>1, OneFrame
<1>3. Credited(t, e) = Credited(s, e) \cup One /\ Credited(s, e) \cap One = {}
  BY <1>1 DEF OneOf, Credited, Sound
<1>4. /\ IsFiniteSet(Credited(s, e))
      /\ Credits(s, e) = Cardinality(Credited(s, e)) /\ Credits(s, e) \in Nat
      /\ Credits(t, e) = Cardinality(Credited(t, e))
  BY <1>1, SoundFinite
<1>5. Cardinality(Credited(t, e)) = Cardinality(Credited(s, e)) + Cardinality(One)
  <2>1. Cardinality(Credited(s, e) \cup One) =
            Cardinality(Credited(s, e)) + Cardinality(One) - Cardinality(Credited(s, e) \cap One)
    BY <1>2, <1>4, FS_Union
  <2>2. Cardinality(One) \in Nat
    BY <1>2, FS_CardinalityType
  <2>3. Cardinality(Credited(s, e) \cap One) = 0
    BY <1>3, FS_EmptySet
  <2> QED
    BY <1>3, <1>4, <2>1, <2>2, <2>3
<1> QED
  BY <1>2, <1>4, <1>5 DEF t

----------------------------------------------------------------------------
(* Order.                                                                  *)

LEMMA StartIsNat ==
    ASSUME NEW s \in Seq(Frame), NEW to \in Nat
    PROVE  StartOf(s, to) \in Nat /\ \A i \in DOMAIN s : s[i] \in Frame
  BY FrameTypes DEF StartOf

LEMMA LineAppend ==
    ASSUME NEW b \in BOOLEAN, NEW s \in Seq(Frame), NEW f \in Frame, InLine(b, s, f.at)
    PROVE  /\ InLine(b, Append(s, f), End1(f))
           /\ StartOf(Append(s, f), End1(f)) = StartOf(s, f.at)
<1> DEFINE t == Append(s, f)
<1>1. /\ t \in Seq(Frame) /\ Len(t) = Len(s) + 1 /\ Len(s) \in Nat
      /\ DOMAIN s = 1..Len(s) /\ DOMAIN t = 1..(Len(s) + 1)
      /\ \A i \in DOMAIN s : t[i] = s[i]
      /\ t[Len(s) + 1] = f
  BY AppendTo
<1>2. /\ \A i \in DOMAIN s : s[i] \in Frame /\ End1(s[i]) \in Nat
      /\ f.at \in Nat /\ End1(f) \in Nat /\ f.at <= End1(f)
  BY FrameTypes
<1>3. StartOf(t, End1(f)) = StartOf(s, f.at)
  <2>1. CASE s = <<>>
    BY <1>1, <2>1 DEF StartOf
  <2>2. CASE s # <<>>
    BY <1>1, <2>2 DEF StartOf
  <2> QED
    BY <2>1, <2>2
<1> HIDE DEF t
<1>4. ASSUME NEW i \in DOMAIN t, NEW j \in DOMAIN t, i < j, b => j = i + 1
      PROVE  Reaches(b, End1(t[i]), t[j].at)
  <2>1. i \in DOMAIN s /\ t[i] = s[i]
    BY <1>1, <1>4
  <2>2. CASE j \in DOMAIN s
    BY <1>1, <1>4, <2>1, <2>2 DEF InLine
  <2>3. CASE j = Len(s) + 1
    BY <1>1, <1>4, <2>1, <2>3 DEF InLine
  <2> QED
    BY <1>1, <2>2, <2>3
<1>5. ASSUME NEW i \in DOMAIN t, b => i = Len(t)
      PROVE  Reaches(b, End1(t[i]), End1(f))
  <2>1. CASE i = Len(s) + 1
    BY <1>1, <1>2, <2>1 DEF Reaches
  <2>2. CASE i \in DOMAIN s
    <3>1. ~b /\ t[i] = s[i]
      BY <1>1, <1>5, <2>2
    <3>2. Reaches(b, End1(s[i]), f.at)
      BY <2>2, <3>1 DEF InLine
    <3> QED
      BY <1>2, <2>2, <3>1, <3>2 DEF Reaches
  <2> QED
    BY <1>1, <2>1, <2>2
<1>6. InLine(b, t, End1(f))
  BY <1>4, <1>5 DEF InLine
<1> QED
  BY <1>3, <1>6 DEF t

LEMMA LineTail ==
    ASSUME NEW b \in BOOLEAN, NEW s \in Seq(Frame), s # <<>>, NEW to \in Nat, InLine(b, s, to)
    PROVE  InLine(b, Tail(s), to) /\ Reaches(b, End1(Head(s)), StartOf(Tail(s), to))
<1> DEFINE t == Tail(s)
<1>1. /\ t \in Seq(Frame) /\ Len(t) = Len(s) - 1 /\ Len(s) \in Nat
      /\ DOMAIN s = 1..Len(s) /\ DOMAIN t = 1..(Len(s) - 1)
      /\ \A i \in DOMAIN t : i + 1 \in DOMAIN s /\ t[i] = s[i + 1]
      /\ Head(s) = s[1] /\ 1 \in DOMAIN s
  BY TailOf
<1>2. t = <<>> <=> Len(s) = 1
  BY <1>1
<1> HIDE DEF t
<1>3. InLine(b, t, to)
  BY <1>1 DEF InLine
<1>4. CASE t = <<>>
  BY <1>1, <1>2, <1>3, <1>4 DEF InLine, StartOf, t
<1>5. CASE t # <<>>
  <2>1. 1 \in DOMAIN t /\ 2 \in DOMAIN s /\ t[1] = s[2]
    BY <1>1, <1>2, <1>5
  <2>2. Reaches(b, End1(s[1]), s[2].at)
    BY <1>1, <2>1 DEF InLine
  <2> QED
    BY <1>1, <1>3, <1>5, <2>1, <2>2 DEF StartOf, t
<1> QED
  BY <1>4, <1>5

LEMMA LineLater ==
    ASSUME NEW b \in BOOLEAN, NEW s \in Seq(Frame), NEW to \in Nat, NEW later \in Nat,
           Reaches(b, to, later), InLine(b, s, to)
    PROVE  InLine(b, s, later) /\ Reaches(b, StartOf(s, to), StartOf(s, later))
<1>1. \A i \in DOMAIN s : End1(s[i]) \in Nat /\ s[i].at \in Nat
  BY FrameTypes
<1>2. InLine(b, s, later)
  BY <1>1 DEF InLine, Reaches
<1>3. s # <<>> => s[1].at \in Nat
  BY <1>1
<1> QED
  BY <1>2, <1>3 DEF StartOf, Reaches

LEMMA LineWithout ==
    ASSUME NEW b \in BOOLEAN, NEW s \in Seq(Frame), NEW to \in Nat, InLine(b, s, to),
           NEW k \in 0..Len(s), b => k = 0
    PROVE  InLine(b, Without(s, k), to) /\ Reaches(b, StartOf(s, to), StartOf(Without(s, k), to))
<1> DEFINE t == Without(s, k)
<1>1. /\ t \in Seq(Frame) /\ Len(t) = Len(s) - k /\ Len(s) \in Nat /\ k \in Nat /\ k <= Len(s)
      /\ DOMAIN s = 1..Len(s) /\ DOMAIN t = 1..(Len(s) - k)
      /\ \A i \in DOMAIN t : i + k \in DOMAIN s /\ t[i] = s[i + k]
      /\ k = 0 => t = s
  BY WithoutSome
<1> HIDE DEF t
<1>2. StartOf(s, to) \in Nat
  BY StartIsNat
<1>3. CASE k = 0
  BY <1>1, <1>2, <1>3 DEF Reaches, t
<1>4. CASE k # 0
  <2>1. ~b
    BY <1>4
  <2>2. InLine(b, t, to)
    <3>1. ASSUME NEW i \in DOMAIN t, NEW j \in DOMAIN t, i < j
          PROVE  Reaches(b, End1(t[i]), t[j].at)
      <4>1. i + k \in DOMAIN s /\ j + k \in DOMAIN s /\ i + k < j + k
        BY <1>1, <3>1
      <4> QED
        BY <1>1, <2>1, <4>1 DEF InLine
    <3>2. ASSUME NEW i \in DOMAIN t
          PROVE  Reaches(b, End1(t[i]), to)
      BY <1>1, <2>1 DEF InLine
    <3> QED
      BY <3>1, <3>2 DEF InLine
  <2>3. 1 \in DOMAIN s /\ s # <<>> /\ End1(s[1]) \in Nat /\ s[1].at <= End1(s[1]) /\ s[1].at \in Nat
    BY <1>1, <1>4, FrameTypes
  <2>4. CASE t = <<>>
    <3>1. Reaches(b, End1(s[1]), to)
      BY <2>1, <2>3 DEF InLine
    <3> QED
      BY <2>1, <2>2, <2>3, <2>4, <3>1 DEF StartOf, Reaches, t
  <2>5. CASE t # <<>>
    <3>1. 1 \in DOMAIN t /\ 1 + k \in DOMAIN s /\ 1 < 1 + k /\ t[1] = s[1 + k]
      BY <1>1, <1>4, <2>5
    <3>2. Reaches(b, End1(s[1]), s[1 + k].at) /\ s[1 + k].at \in Nat
      BY <2>1, <2>3, <3>1, FrameTypes DEF InLine
    <3> QED
      BY <2>1, <2>2, <2>3, <2>5, <3>1, <3>2 DEF StartOf, Reaches, t
  <2> QED
    BY <2>4, <2>5
<1> QED
  BY <1>3, <1>4

(* The sound of an encoder as it is written, received and encoded.         *)
LEMMA EncoderLater ==
    ASSUME NEW b \in BOOLEAN, NEW e \in Encoders, NEW to \in Nat, NEW later \in Nat,
           Reaches(b, to, later), EncoderInLine(b, e, to)
    PROVE  EncoderInLine(b, e, later)
<1>1. /\ e.input \in Seq(Frame)
      /\ e.frame # <<>> => e.frame[1] \in Frame
      /\ e.next # Nothing => e.next \in Nat
  BY DEF Encoders
<1>2. /\ InLine(b, e.input, later)
      /\ Reaches(b, StartOf(e.input, to), StartOf(e.input, later))
      /\ StartOf(e.input, to) \in Nat /\ StartOf(e.input, later) \in Nat
  BY <1>1, LineLater, StartIsNat DEF EncoderInLine
<1>3. e.frame # <<>> => Reaches(b, End1(e.frame[1]), StartOf(e.input, later))
  BY <1>1, <1>2, FrameTypes DEF EncoderInLine, Reaches
<1>4. e.next # Nothing /\ e.frame = <<>> => Reaches(b, e.next, StartOf(e.input, later))
  BY <1>1, <1>2 DEF EncoderInLine, Reaches
<1> QED
  BY <1>2, <1>3, <1>4 DEF EncoderInLine

LEMMA EncoderWritten ==
    ASSUME NEW b \in BOOLEAN, NEW e \in Encoders, NEW f \in Frame, EncoderInLine(b, e, f.at),
           NEW k \in 0..Len(e.input), b => k = 0
    PROVE  EncoderInLine(b, [e EXCEPT !.input = Append(Without(@, k), f)], End1(f))
<1> DEFINE s == Without(e.input, k)
           t == Append(s, f)
           w == [e EXCEPT !.input = t]
<1>1. /\ e.input \in Seq(Frame) /\ s \in Seq(Frame) /\ f.at \in Nat
      /\ e.frame # <<>> => e.frame[1] \in Frame
      /\ e.next # Nothing => e.next \in Nat
  BY WithoutSome, FrameTypes DEF Encoders
<1>2. InLine(b, s, f.at) /\ Reaches(b, StartOf(e.input, f.at), StartOf(s, f.at))
  BY <1>1, LineWithout DEF EncoderInLine
<1>3. InLine(b, t, End1(f)) /\ StartOf(t, End1(f)) = StartOf(s, f.at)
  BY <1>1, <1>2, LineAppend
<1>4. StartOf(e.input, f.at) \in Nat /\ StartOf(s, f.at) \in Nat
  BY <1>1, StartIsNat
<1>5. w.input = t /\ w.frame = e.frame /\ w.next = e.next
  BY DEF Encoders
<1> HIDE DEF s, t, w
<1>6. e.frame # <<>> => Reaches(b, End1(e.frame[1]), StartOf(t, End1(f)))
  BY <1>1, <1>2, <1>3, <1>4, FrameTypes DEF EncoderInLine, Reaches
<1>7. e.next # Nothing /\ e.frame = <<>> => Reaches(b, e.next, StartOf(t, End1(f)))
  BY <1>1, <1>2, <1>3, <1>4 DEF EncoderInLine, Reaches
<1>8. EncoderInLine(b, w, End1(f))
  BY <1>3, <1>5, <1>6, <1>7 DEF EncoderInLine
<1> QED
  BY <1>8 DEF w, t, s

LEMMA EncoderReceives ==
    ASSUME NEW b \in BOOLEAN, NEW e \in Encoders, NEW to \in Nat, EncoderInLine(b, e, to),
           NEW k \in 0..Len(e.input), b => k = 0,
           e.frame = <<>>, Without(e.input, k) # <<>>
    PROVE  EncoderInLine(b, [e EXCEPT !.input = Tail(Without(e.input, k)),
                                      !.frame = <<Head(Without(e.input, k))>>], to)
<1> DEFINE s == Without(e.input, k)
           w == [e EXCEPT !.input = Tail(s), !.frame = <<Head(s)>>]
<1>1. e.input \in Seq(Frame) /\ s \in Seq(Frame) /\ (e.next # Nothing => e.next \in Nat)
  BY WithoutSome DEF Encoders
<1>2. InLine(b, s, to) /\ Reaches(b, StartOf(e.input, to), StartOf(s, to))
  BY <1>1, LineWithout DEF EncoderInLine
<1>3. InLine(b, Tail(s), to) /\ Reaches(b, End1(Head(s)), StartOf(Tail(s), to))
  BY <1>1, <1>2, LineTail
<1>4. StartOf(e.input, to) \in Nat /\ StartOf(s, to) \in Nat /\ StartOf(s, to) = Head(s).at
  BY <1>1, StartIsNat, TailOf DEF StartOf
<1>5. w.input = Tail(s) /\ w.frame = <<Head(s)>> /\ w.next = e.next
  BY DEF Encoders
<1> HIDE DEF s, w
<1>6. e.next # Nothing => Reaches(b, e.next, Head(s).at)
  BY <1>1, <1>2, <1>4 DEF EncoderInLine, Reaches
<1>7. w.frame # <<>> /\ w.frame[1] = Head(s)
  BY <1>5
<1>8. EncoderInLine(b, w, to)
  BY <1>3, <1>5, <1>6, <1>7 DEF EncoderInLine
<1> QED
  BY <1>8 DEF w, s

LEMMA EncoderEncodes ==
    ASSUME NEW b \in BOOLEAN, NEW e \in Encoders, NEW to \in Nat, EncoderInLine(b, e, to),
           e.frame # <<>>
    PROVE  /\ EncoderInLine(b, [e EXCEPT !.frame = <<>>,
                                         !.next = Head(e.frame).at + Head(e.frame).size], to)
           /\ e.next = Nothing => EncoderInLine(b, [e EXCEPT !.frame = <<>>], to)
<1> DEFINE w == [e EXCEPT !.frame = <<>>, !.next = Head(e.frame).at + Head(e.frame).size]
           v == [e EXCEPT !.frame = <<>>]
<1>1. w.input = e.input /\ w.frame = <<>> /\ w.next = End1(e.frame[1])
  BY DEF Encoders, End1
<1>2. v.input = e.input /\ v.frame = <<>> /\ v.next = e.next
  BY DEF Encoders
<1> HIDE DEF v, w
<1>3. EncoderInLine(b, w, to)
  BY <1>1 DEF EncoderInLine
<1>4. e.next = Nothing => EncoderInLine(b, v, to)
  BY <1>2 DEF EncoderInLine
<1> QED
  BY <1>3, <1>4 DEF v, w

LEMMA EncoderFresh ==
    ASSUME NEW b \in BOOLEAN, NEW e \in Nat, NEW to \in Nat
    PROVE  EncoderInLine(b, NewEncoder(e), to)
  BY DEF EncoderInLine, NewEncoder, InLine

----------------------------------------------------------------------------
(* What the steps do.                                                      *)

LEMMA RoomIsInFront ==
    ASSUME NEW s \in Seq(Frame), NEW f \in Frame, NEW capacity \in Nat
    PROVE  /\ \A k \in RoomFor(s, f, capacity) : k \in 0..Len(s) /\ (buffered => k = 0)
           /\ buffered /\ Samples(s) + f.size <= capacity => RoomFor(s, f, capacity) # {}
<1>1. 0 \in 0..Len(s) /\ Without(s, 0) = s
  BY WithoutSome
<1> QED
  BY <1>1 DEF RoomFor, Expired

(* A frame is admitted.                                                    *)
Admits(f, k) ==
    /\ ~ended /\ ~unsent
    /\ f.epoch = epoch /\ f.at = position + progress
    /\ buffered => k = 0 /\ InUse + f.size <= QueueSamples
    /\ queue' = [queue EXCEPT !.frames = Append(Without(@, k), f), !.notified = TRUE]
    /\ unsent' = ~queue.notified
    /\ position' + progress' = End1(f)
    /\ UNCHANGED <<buffered, epoch, ended, events, batch, seen, encoder, retired>>

(* A frame of a realtime connection is dropped.                            *)
Skips ==
    /\ ~buffered
    /\ position' + progress' >= position + progress
    /\ UNCHANGED <<buffered, epoch, queue, unsent, ended, events, batch, seen, encoder, retired>>

ProducerTypes ==
    /\ packet \in 0..PacketSamples /\ progress \in Nat /\ position \in Nat
    /\ IF packet = 0 THEN progress = 0 ELSE buffered /\ progress < packet

LEMMA RealtimeAdmits ==
    ASSUME TypeInv, Realtime
    PROVE  /\ ProducerTypes'
           /\ Skips \/ \E f \in Frame : \E k \in 0..Len(queue.frames) : Admits(f, k)
<1>1. /\ ~ended /\ ~unsent /\ ~buffered
      /\ UNCHANGED <<buffered, packet, progress, epoch, ended, events, batch, seen, encoder, retired>>
  BY DEF Realtime, Delivering, runtime
<1>2. PICK size \in 1..PacketSamples :
         /\ position' = position + size
         /\ IF size > QueueSamples
            THEN UNCHANGED <<queue, unsent>>
            ELSE LET frame == [epoch |-> epoch, at |-> position, size |-> size]
                 IN  \E k \in RoomFor(queue.frames, frame, QueueSamples) : Push(frame, k)
  BY DEF Realtime
<1>3. position \in Nat /\ position + size \in Nat /\ progress = 0 /\ epoch \in Nat /\ packet = 0
  BY <1>1, Constants DEF TypeInv
<1>4. ProducerTypes'
  BY <1>1, <1>2, <1>3, Constants DEF ProducerTypes
<1>5. CASE size > QueueSamples
  BY <1>1, <1>2, <1>3, <1>4, <1>5, Constants DEF Skips
<1>6. CASE ~(size > QueueSamples)
  <2> DEFINE frame == [epoch |-> epoch, at |-> position, size |-> size]
  <2>1. PICK k \in RoomFor(queue.frames, frame, QueueSamples) : Push(frame, k)
    BY <1>2, <1>6
  <2>2. frame \in Frame /\ frame.epoch = epoch /\ frame.at = position /\ End1(frame) = position + size
    BY <1>3 DEF Frame, End1
  <2> HIDE DEF frame
  <2>3. k \in 0..Len(queue.frames)
    BY <2>2, Constants, RoomIsInFront DEF TypeInv
  <2>4. position' + progress' = End1(frame) /\ position + progress = position
    BY <1>1, <1>2, <1>3, <2>2
  <2>5. Admits(frame, k)
    BY <1>1, <2>1, <2>2, <2>4 DEF Admits, Push
  <2> QED
    BY <1>4, <2>2, <2>3, <2>5
<1> QED
  BY <1>5, <1>6

LEMMA ChunkSize ==
    ASSUME TypeInv, packet # 0
    PROVE  LET size == Min({QueueSamples, packet - progress})
           IN  size \in 1..PacketSamples /\ size <= packet - progress
<1>1. /\ QueueSamples \in Nat \ {0} /\ packet - progress \in 1..PacketSamples
      /\ PacketSamples \in Nat
  BY Constants DEF TypeInv
<1>2. ASSUME NEW n \in Nat, NEW m \in Nat
      PROVE  Min({n, m}) = IF n <= m THEN n ELSE m
  BY DEF Min
<1>3. Min({QueueSamples, packet - progress}) =
          IF QueueSamples <= packet - progress THEN QueueSamples ELSE packet - progress
  BY <1>1, <1>2
<1> QED
  BY <1>1, <1>3

LEMMA ChunkAdmits ==
    ASSUME TypeInv, Chunk
    PROVE  ProducerTypes' /\ \E f \in Frame : \E k \in 0..Len(queue.frames) : Admits(f, k)
<1> DEFINE size == Min({QueueSamples, packet - progress})
           frame == [epoch |-> epoch, at |-> position + progress, size |-> size]
<1>1. /\ ~ended /\ ~unsent /\ packet # 0 /\ InUse + size <= QueueSamples /\ Advance(size)
      /\ UNCHANGED <<buffered, epoch, ended, events, batch, seen, encoder, retired>>
  BY DEF Chunk, Delivering, runtime
<1>2. PICK k \in RoomFor(queue.frames, frame, QueueSamples) : Push(frame, k)
  BY DEF Chunk
<1>3. size \in 1..PacketSamples /\ size <= packet - progress
  BY <1>1, ChunkSize
<1> HIDE DEF size
<1>4. /\ buffered /\ packet \in 1..PacketSamples /\ progress \in Nat /\ position \in Nat
      /\ progress < packet /\ epoch \in Nat
  BY <1>1, Constants DEF TypeInv
<1>5. /\ frame \in Frame /\ frame.epoch = epoch /\ frame.at = position + progress
      /\ frame.size = size /\ End1(frame) = position + progress + size
  BY <1>3, <1>4 DEF Frame, End1
<1> HIDE DEF frame
<1>6. k \in 0..Len(queue.frames) /\ k = 0
  BY <1>4, <1>5, Constants, RoomIsInFront DEF TypeInv
<1>7. ProducerTypes' /\ position' + progress' = position + progress + size
  <2>1. CASE progress + size = packet
    <3>1. packet' = 0 /\ progress' = 0 /\ position' = position + packet
      BY <1>1, <2>1 DEF Advance
    <3> QED
      BY <1>1, <1>3, <1>4, <2>1, <3>1, Constants DEF ProducerTypes
  <2>2. CASE progress + size # packet
    BY <1>1, <1>3, <1>4, <2>2 DEF Advance, ProducerTypes
  <2> QED
    BY <2>1, <2>2
<1>8. Admits(frame, k)
  BY <1>1, <1>2, <1>5, <1>6, <1>7 DEF Admits, Push
<1> QED
  BY <1>5, <1>6, <1>7, <1>8

(* What the runtime takes out of the adapter queue.                        *)
LEMMA Fetches ==
    ASSUME TypeInv, NEW k \in Expired(queue.frames)
    PROVE  /\ k \in 0..Len(queue.frames) /\ (buffered => k = 0)
           /\ Without(queue.frames, k) \in Seq(Frame)
           /\ Len(Without(queue.frames, k)) = Len(queue.frames) - k
<1>1. k \in 0..Len(queue.frames) /\ (buffered => k = 0)
  BY DEF Expired, TypeInv
<1> QED
  BY <1>1, WithoutSome DEF TypeInv

(* What the encoder task takes out of its input.                           *)
LEMMA Takes ==
    ASSUME TypeInv, encoder # Nothing, NEW k \in Expired(encoder.input)
    PROVE  /\ k \in 0..Len(encoder.input) /\ (buffered => k = 0)
           /\ Without(encoder.input, k) \in Seq(Frame)
<1>1. encoder.input \in Seq(Frame)
  BY DEF TypeInv, Encoders
<1>2. k \in 0..Len(encoder.input) /\ (buffered => k = 0)
  BY <1>1 DEF Expired
<1> QED
  BY <1>1, <1>2, WithoutSome

EncoderTypes == encoder # Nothing => encoder \in Encoders /\ Len(encoder.frame) \in {0, 1}

(* A frame is written to the input, or dropped.                            *)
Writes(f, k) ==
    /\ encoder # Nothing /\ f.epoch = seen /\ (buffered => k = 0)
    /\ encoder' = [encoder EXCEPT !.input = Append(Without(@, k), f)]

Drops(f) ==
    /\ UNCHANGED encoder
    /\ encoder # Nothing /\ f.epoch = seen => RoomFor(encoder.input, f, InputSamples) = {}

LEMMA WriteOrDrop ==
    ASSUME TypeInv, NEW f \in Frame, Write(f)
    PROVE  /\ EncoderTypes'
           /\ Drops(f) \/ \E k \in 0..Len(encoder.input) : Writes(f, k)
<1>1. CASE ~(encoder # Nothing /\ f.epoch = seen)
  BY <1>1 DEF Write, Drops, TypeInv, EncoderTypes
<1>2. CASE encoder # Nothing /\ f.epoch = seen
  <2>1. encoder.input \in Seq(Frame) /\ encoder \in Encoders /\ Len(encoder.frame) \in {0, 1}
    BY <1>2 DEF TypeInv, Encoders
  <2>2. ASSUME NEW k \in RoomFor(encoder.input, f, InputSamples),
               encoder' = [encoder EXCEPT !.input = Append(Without(@, k), f)]
        PROVE  EncoderTypes' /\ \E n \in 0..Len(encoder.input) : Writes(f, n)
    <3>1. k \in 0..Len(encoder.input) /\ (buffered => k = 0)
      BY <2>1, Constants, RoomIsInFront
    <3>2. Append(Without(encoder.input, k), f) \in Seq(Frame)
      BY <2>1, <3>1, WithoutSome, AppendTo
    <3>3. EncoderTypes'
      BY <2>1, <2>2, <3>2 DEF EncoderTypes, Encoders
    <3> QED
      BY <1>2, <2>2, <3>1, <3>3 DEF Writes
  <2>3. CASE RoomFor(encoder.input, f, InputSamples) = {} /\ UNCHANGED encoder
    BY <2>1, <2>3 DEF Drops, EncoderTypes
  <2> QED
    BY <1>2, <2>2, <2>3 DEF Write
<1> QED
  BY <1>1, <1>2

(* A round of a batch.                                                     *)
EndsBatch ==
    /\ batch' = Nothing
    /\ UNCHANGED encoder
    /\ \/ batch.id # queue.id /\ UNCHANGED queue
       \/ /\ queue' = [queue EXCEPT !.frames = <<>>, !.notified = FALSE]
          /\ buffered => queue.frames = <<>>

Pops(k) ==
    LET frames == Without(queue.frames, k)
    IN  /\ batch # Nothing /\ batch.id = queue.id /\ frames # <<>>
        /\ batch' = IF batch.left = 1 THEN Nothing ELSE [batch EXCEPT !.left = @ - 1]
        /\ queue' = [queue EXCEPT !.frames = Tail(frames)]
        /\ Drops(Head(frames)) \/ \E n \in 0..Len(encoder.input) : Writes(Head(frames), n)

LEMMA PopDoes ==
    ASSUME TypeInv, Pop
    PROVE  /\ EncoderTypes'
           /\ UNCHANGED <<buffered, packet, progress, position, epoch, unsent, ended, events, seen,
                          retired>>
           /\ \/ EndsBatch
              \/ \E k \in 0..Len(queue.frames) : (buffered => k = 0) /\ Pops(k)
<1>1. /\ batch # Nothing
      /\ UNCHANGED <<buffered, packet, progress, position, epoch, unsent, ended, events, seen,
                     retired>>
  BY DEF Pop, producer
<1>2. EncoderTypes
  BY DEF TypeInv, EncoderTypes
<1>3. CASE batch.id # queue.id
  BY <1>1, <1>2, <1>3 DEF Pop, EndsBatch, EncoderTypes
<1>4. CASE batch.id = queue.id
  <2>1. PICK k \in Expired(queue.frames) :
           LET frames == Without(queue.frames, k)
           IN  IF frames = <<>>
               THEN /\ batch' = Nothing
                    /\ queue' = [queue EXCEPT !.frames = <<>>, !.notified = FALSE]
                    /\ UNCHANGED encoder
               ELSE /\ batch' = Remaining(batch)
                    /\ queue' = [queue EXCEPT !.frames = Tail(frames)]
                    /\ Write(Head(frames))
    BY <1>4 DEF Pop
  <2>2. /\ k \in 0..Len(queue.frames) /\ (buffered => k = 0)
        /\ Without(queue.frames, k) \in Seq(Frame)
    BY Fetches
  <2>3. CASE Without(queue.frames, k) = <<>>
    <3>1. buffered => queue.frames = <<>>
      BY <2>2, <2>3, WithoutSome DEF TypeInv
    <3> QED
      BY <1>1, <1>2, <2>1, <2>3, <3>1 DEF EndsBatch, EncoderTypes
  <2>4. CASE Without(queue.frames, k) # <<>>
    <3>1. Head(Without(queue.frames, k)) \in Frame
      BY <2>2, <2>4, TailOf
    <3>2. Write(Head(Without(queue.frames, k)))
      BY <2>1, <2>4
    <3> QED
      BY <1>1, <1>4, <2>1, <2>2, <2>4, <3>1, <3>2, WriteOrDrop DEF Pops, Remaining
  <2> QED
    BY <2>3, <2>4
<1> QED
  BY <1>3, <1>4

(* The channel to the runtime.                                             *)
LEMMA Sent ==
    ASSUME events \in Seq(Events), NEW e \in Events, events' = Append(events, e)
    PROVE  /\ events' \in Seq(Events) /\ Len(events) + 1 \in Nat
           /\ DOMAIN events' = DOMAIN events \cup {Len(events) + 1}
           /\ \A i \in DOMAIN events : i < Len(events) + 1 /\ events'[i] = events[i]
           /\ events'[Len(events) + 1] = e
  OBVIOUS

LEMMA Handled ==
    ASSUME events \in Seq(Events), Event
    PROVE  /\ events' \in Seq(Events) /\ batch = Nothing
           /\ Head(events) = events[1] /\ 1 \in DOMAIN events /\ Head(events) \in Events
           /\ \A i \in DOMAIN events : i \in Nat /\ i >= 1
           /\ \A i \in DOMAIN events' : i \in Nat /\ i >= 1 /\ i + 1 \in DOMAIN events
                                           /\ events'[i] = events[i + 1]
           /\ \A i \in DOMAIN events : i # 1 => i - 1 \in DOMAIN events'
  BY DEF Event

LEMMA EventTypes ==
    /\ \A id \in Nat : [type |-> "Pcm", id |-> id] \in Events
    /\ \A e \in Nat : [type |-> "Flushed", epoch |-> e] \in Events
    /\ \A t \in {"SessionStopped", "StreamEndedWhilePaused"} : [type |-> t] \in Events
    /\ \A e \in Events : /\ e.type = "Pcm" => e \in [type : {"Pcm"}, id : Nat]
                         /\ e.type = "Flushed" => e.epoch \in Nat
  BY DEF Events

LEMMA NewEncoderTypes ==
    ASSUME NEW e \in Nat
    PROVE  /\ NewEncoder(e) \in Encoders /\ Len(NewEncoder(e).frame) = 0
           /\ NewEncoder(e).input = <<>> /\ NewEncoder(e).frame = <<>>
           /\ NewEncoder(e).next = Nothing /\ NewEncoder(e).epoch = e
  BY DEF NewEncoder, Encoders

LEMMA NoFrames == <<>> \in Seq(Frame) /\ Len(<<>>) = 0
  BY EmptySeq

LEMMA RetireTypes ==
    ASSUME TypeInv, Retire
    PROVE  /\ retired' \in Seq(Frame)
           /\ \/ retired' = retired
              \/ /\ encoder # Nothing /\ encoder.frame # <<>> /\ encoder.frame[1] \in Frame
                 /\ encoder.frame = <<encoder.frame[1]>>
                 /\ retired' = Append(retired, encoder.frame[1])
<1>1. retired \in Seq(Frame)
  BY DEF TypeInv
<1>2. CASE encoder = Nothing
  BY <1>1, <1>2, ConcatEmptySeq DEF Retire
<1>3. CASE encoder # Nothing
  <2>1. encoder.frame \in Seq(Frame) /\ Len(encoder.frame) \in {0, 1}
    BY <1>3 DEF TypeInv, Encoders
  <2>2. CASE encoder.frame = <<>>
    BY <1>1, <1>3, <2>2, ConcatEmptySeq DEF Retire
  <2>3. CASE encoder.frame # <<>>
    <3>1. encoder.frame[1] \in Frame /\ encoder.frame = <<encoder.frame[1]>>
      BY <2>1, <2>3
    <3>2. retired' = Append(retired, encoder.frame[1])
      BY <1>1, <1>3, <3>1, AppendIsConcat DEF Retire
    <3> QED
      BY <1>1, <1>3, <2>3, <3>1, <3>2
  <2> QED
    BY <2>2, <2>3
<1> QED
  BY <1>2, <1>3

LEMMA QueueFilled ==
    ASSUME TypeInv, NEW f \in Frame, NEW k \in 0..Len(queue.frames), Admits(f, k)
    PROVE  /\ queue' \in [id : Nat, frames : Seq(Frame), notified : BOOLEAN]
           /\ queue'.id = queue.id /\ queue'.notified = TRUE
           /\ queue'.frames = Append(Without(queue.frames, k), f)
           /\ Without(queue.frames, k) \in Seq(Frame)
<1>1. queue \in [id : Nat, frames : Seq(Frame), notified : BOOLEAN]
  BY DEF TypeInv
<1>2. Without(queue.frames, k) \in Seq(Frame) /\ Append(Without(queue.frames, k), f) \in Seq(Frame)
  BY <1>1, WithoutSome, AppendTo
<1> QED
  BY <1>1, <1>2 DEF Admits

LEMMA ProducerTypesSuffice ==
    ASSUME ProducerTypes', buffered' \in BOOLEAN, unsent' \in BOOLEAN, ended' \in BOOLEAN,
           epoch' \in Nat,
           queue' \in [id : Nat, frames : Seq(Frame), notified : BOOLEAN],
           events' \in Seq(Events), (batch # Nothing => batch \in Batches)', seen' \in Nat,
           EncoderTypes', retired' \in Seq(Frame)
    PROVE  TypeInv'
  BY DEF TypeInv, ProducerTypes, EncoderTypes

LEMMA TypeStep ==
    ASSUME TypeInv, [Next]_vars
    PROVE  TypeInv'
<1> USE ProducerTypesSuffice
<1>1. /\ ProducerTypes /\ EncoderTypes /\ buffered \in BOOLEAN /\ unsent \in BOOLEAN
      /\ ended \in BOOLEAN /\ epoch \in Nat
      /\ queue \in [id : Nat, frames : Seq(Frame), notified : BOOLEAN]
      /\ events \in Seq(Events) /\ (batch # Nothing => batch \in Batches) /\ seen \in Nat
      /\ retired \in Seq(Frame)
  BY DEF TypeInv, ProducerTypes, EncoderTypes
<1>2. ASSUME UNCHANGED <<packet, progress, position>>
      PROVE  buffered' = buffered => ProducerTypes'
  BY <1>1, <1>2 DEF ProducerTypes
<1>3. ASSUME UNCHANGED encoder
      PROVE  EncoderTypes'
  BY <1>1, <1>3 DEF EncoderTypes
<1>4. ASSUME NEW f \in Frame, NEW k \in 0..Len(queue.frames), Admits(f, k), ProducerTypes'
      PROVE  TypeInv'
  BY <1>1, <1>3, <1>4, QueueFilled DEF Admits
<1>5. CASE Chunk
  BY <1>4, <1>5, ChunkAdmits
<1>6. CASE Realtime
  BY <1>1, <1>3, <1>4, <1>6, RealtimeAdmits DEF Skips
<1>7. CASE SendEvent
  <2>1. [type |-> "Pcm", id |-> queue.id] \in Events
    BY <1>1, EventTypes
  <2>2. events' \in Seq(Events)
    BY <1>1, <1>7, <2>1, Sent DEF SendEvent
  <2> QED
    BY <1>1, <1>2, <1>3, <1>7, <2>2 DEF SendEvent, producer, runtime
<1>8. CASE Packet
  BY <1>1, <1>3, <1>8, Constants DEF Packet, runtime, ProducerTypes
<1>9. CASE Flush
  <2>1. epoch + 1 \in Nat /\ NewQueue(epoch + 1) \in [id : Nat, frames : Seq(Frame), notified : BOOLEAN]
    BY <1>1 DEF NewQueue
  <2>2. events' \in Seq(Events)
    BY <1>1, <1>9, <2>1, EventTypes, Sent DEF Flush
  <2>3. ProducerTypes'
    BY <1>9, Constants DEF Flush, ProducerTypes
  <2> QED
    BY <1>1, <1>3, <1>9, <2>1, <2>2, <2>3 DEF Flush, runtime
<1>10. CASE End
  <2>1. events' \in Seq(Events)
    BY <1>1, <1>10, EventTypes, Sent DEF End
  <2>2. queue' \in [id : Nat, frames : Seq(Frame), notified : BOOLEAN]
    BY <1>1, <1>10, NoFrames DEF End
  <2>3. ProducerTypes'
    BY <1>1, <1>10, Constants DEF End, ProducerTypes
  <2> QED
    BY <1>1, <1>3, <1>10, <2>1, <2>2, <2>3 DEF End, runtime
<1>11. CASE BeginBatch
  <2>1. events' \in Seq(Events) /\ Event
    BY <1>1, <1>11, Handled DEF BeginBatch
  <2>2. /\ queue' \in [id : Nat, frames : Seq(Frame), notified : BOOLEAN]
        /\ (batch # Nothing => batch \in Batches)'
    <3>1. CASE Head(events).id # queue.id
      BY <1>1, <1>11, <3>1 DEF BeginBatch
    <3>2. CASE Head(events).id = queue.id
      <4>1. PICK k \in Expired(queue.frames) :
               /\ queue' = [queue EXCEPT !.frames = Without(@, k), !.notified = FALSE]
               /\ batch' = IF queue'.frames = <<>> THEN Nothing
                           ELSE [id |-> queue.id, left |-> Len(queue'.frames)]
        BY <1>11, <3>2 DEF BeginBatch
      <4>2. queue' \in [id : Nat, frames : Seq(Frame), notified : BOOLEAN]
        BY <1>1, <4>1, Fetches
      <4>3. queue'.frames # <<>> => Len(queue'.frames) \in Nat \ {0}
        BY <4>2
      <4> QED
        BY <1>1, <4>1, <4>2, <4>3 DEF Batches
    <3> QED
      BY <3>1, <3>2
  <2> QED
    BY <1>1, <1>2, <1>3, <1>11, <2>1, <2>2 DEF BeginBatch, producer
<1>12. CASE Pop
  <2>1. queue' \in [id : Nat, frames : Seq(Frame), notified : BOOLEAN]
    <3>1. ASSUME NEW k \in 0..Len(queue.frames), Pops(k)
          PROVE  queue' \in [id : Nat, frames : Seq(Frame), notified : BOOLEAN]
      BY <1>1, <3>1, WithoutSome, TailOf DEF Pops
    <3>2. CASE EndsBatch
      BY <1>1, <3>2, NoFrames DEF EndsBatch
    <3> QED
      BY <1>12, <3>1, <3>2, PopDoes
  <2>2. (batch # Nothing => batch \in Batches)'
    <3>1. ASSUME NEW k \in 0..Len(queue.frames), Pops(k), batch.left # 1
          PROVE  batch' \in Batches
      <4>1. batch \in Batches /\ batch.left - 1 \in Nat \ {0}
        BY <1>1, <3>1 DEF Pops, Batches
      <4> QED
        BY <3>1, <4>1 DEF Pops, Batches
    <3> QED
      BY <1>12, <3>1, PopDoes DEF Pops, EndsBatch
  <2> QED
    BY <1>1, <1>2, <1>12, <2>1, <2>2, PopDoes
<1>13. CASE Flushed
  <2>1. events' \in Seq(Events) /\ seen' \in Nat
    BY <1>1, <1>13, Handled, EventTypes DEF Flushed
  <2>2. EncoderTypes'
    BY <1>13, <2>1, NewEncoderTypes DEF Flushed, EncoderTypes
  <2> QED
    BY <1>1, <1>2, <1>13, <2>1, <2>2, RetireTypes DEF Flushed, producer
<1>14. CASE Stopped
  <2>1. events' \in Seq(Events) /\ EncoderTypes'
    BY <1>1, <1>14, Handled DEF Stopped, EncoderTypes
  <2> QED
    BY <1>1, <1>2, <1>14, <2>1, RetireTypes DEF Stopped, producer, runtime
<1>15. CASE EndedWhilePaused
  <2>1. events' \in Seq(Events)
    BY <1>1, <1>15, Handled DEF EndedWhilePaused
  <2> QED
    BY <1>1, <1>2, <1>3, <1>15, <2>1 DEF EndedWhilePaused, producer, runtime
<1>16. CASE Replace
  <2>1. EncoderTypes'
    BY <1>1, <1>16, NewEncoderTypes DEF Replace, EncoderTypes
  <2> QED
    BY <1>1, <1>2, <1>16, <2>1, RetireTypes DEF Replace, producer, runtime
<1>17. CASE Release
  <2>1. EncoderTypes'
    BY <1>1, <1>17 DEF Release, EncoderTypes, Encoders
  <2> QED
    BY <1>1, <1>2, <1>17, <2>1 DEF Release, producer, runtime
<1>18. CASE Receive
  <2>1. PICK k \in Expired(encoder.input) :
           /\ Without(encoder.input, k) # <<>>
           /\ encoder' = [encoder EXCEPT !.input = Tail(Without(encoder.input, k)),
                                         !.frame = <<Head(Without(encoder.input, k))>>]
    BY <1>18 DEF Receive
  <2>2. encoder # Nothing /\ encoder \in Encoders
    BY <1>1, <1>18 DEF Receive, EncoderTypes
  <2>3. /\ Tail(Without(encoder.input, k)) \in Seq(Frame)
        /\ <<Head(Without(encoder.input, k))>> \in Seq(Frame)
        /\ Len(<<Head(Without(encoder.input, k))>>) = 1
    BY <2>1, <2>2, Takes, TailOf
  <2>4. EncoderTypes'
    BY <2>1, <2>2, <2>3 DEF EncoderTypes, Encoders
  <2> QED
    BY <1>1, <1>2, <1>18, <2>4 DEF Receive, producer, runtime
<1>19. CASE Encode
  <2>1. /\ encoder # Nothing /\ encoder \in Encoders /\ encoder.frame # <<>>
        /\ Head(encoder.frame) \in Frame
    BY <1>1, <1>19, TailOf DEF Encode, EncoderTypes, Encoders
  <2>2. Head(encoder.frame).at + Head(encoder.frame).size \in Nat
    BY <2>1, FrameTypes DEF End1
  <2>3. \/ encoder' = [encoder EXCEPT !.frame = <<>>]
        \/ encoder' = [encoder EXCEPT !.frame = <<>>,
                                      !.next = Head(encoder.frame).at + Head(encoder.frame).size]
    BY <1>19 DEF Encode
  <2>4. encoder' \in Encoders /\ encoder'.frame = <<>>
    BY <2>1, <2>2, <2>3, NoFrames DEF Encoders
  <2>5. EncoderTypes'
    BY <2>4, NoFrames DEF EncoderTypes
  <2> QED
    BY <1>1, <1>2, <1>19, <2>5 DEF Encode, producer, runtime
<1>20. CASE RetiredEnds
  <2>1. retired' \in Seq(Frame)
    BY <1>1, <1>20, RemoveFrom DEF RetiredEnds
  <2> QED
    BY <1>1, <1>2, <1>3, <1>20, <2>1 DEF RetiredEnds, producer, runtime
<1>21. CASE UNCHANGED vars
  BY <1>1, <1>2, <1>3, <1>21 DEF vars
<1> QED
  BY <1>5, <1>6, <1>7, <1>8, <1>9, <1>10, <1>11, <1>12, <1>13, <1>14, <1>15, <1>16, <1>17,
     <1>18, <1>19, <1>20, <1>21
  DEF Next, Producer, Runtime, Encoder

----------------------------------------------------------------------------
(* Epochs.                                                                 *)

LEMMA ChannelKept ==
    ASSUME ChannelInv, UNCHANGED <<events, seen, epoch>>, queue'.id = queue.id
    PROVE  ChannelInv' /\ Announcements' = Announcements
  BY DEF ChannelInv, Flushes, Announcements

LEMMA ChannelSends ==
    ASSUME TypeInv, ChannelInv, NEW e \in Events, events' = Append(events, e),
           UNCHANGED <<seen, epoch>>, queue'.id = queue.id,
           e.type = "Pcm" => e.id <= epoch, e.type # "Flushed"
    PROVE  /\ ChannelInv'
           /\ Announcements \subseteq Announcements'
           /\ e = [type |-> "Pcm", id |-> queue.id] => Len(events) + 1 \in Announcements'
<1>1. /\ Len(events) + 1 \in Nat
      /\ DOMAIN events' = DOMAIN events \cup {Len(events) + 1}
      /\ \A i \in DOMAIN events : i < Len(events) + 1 /\ events'[i] = events[i]
      /\ events'[Len(events) + 1] = e
  BY Sent DEF TypeInv
<1>2. Flushes' = Flushes /\ \A i \in Flushes : i < Len(events) + 1 /\ events'[i] = events[i]
  BY <1>1 DEF Flushes
<1>3. /\ Announcements \subseteq Announcements'
      /\ Announcements' \subseteq Announcements \cup {Len(events) + 1}
      /\ e = [type |-> "Pcm", id |-> queue.id] => Len(events) + 1 \in Announcements'
  BY <1>1 DEF Announcements
<1> QED
  BY <1>1, <1>2, <1>3 DEF ChannelInv

LEMMA ChannelHandles ==
    ASSUME TypeInv, ChannelInv, Event, UNCHANGED epoch, queue'.id = queue.id,
           seen' = IF Head(events).type = "Flushed" THEN Head(events).epoch ELSE seen
    PROVE  /\ ChannelInv'
           /\ Head(events) # [type |-> "Pcm", id |-> queue.id] /\ Announcements # {}
                 => Announcements' # {}
           /\ Head(events) = [type |-> "Pcm", id |-> queue.id] => Flushes = {}
<1>1. /\ Head(events) = events[1] /\ 1 \in DOMAIN events
      /\ \A i \in DOMAIN events : i \in Nat /\ i >= 1
      /\ \A i \in DOMAIN events' : i \in Nat /\ i >= 1 /\ i + 1 \in DOMAIN events
                                      /\ events'[i] = events[i + 1]
      /\ \A i \in DOMAIN events : i # 1 => i - 1 \in DOMAIN events'
  BY Handled DEF TypeInv
<1>2. /\ \A i \in Flushes : i \in Nat /\ i >= 1
      /\ \A i \in Flushes' : i \in Nat /\ i + 1 \in Flushes
      /\ \A i \in Flushes : i # 1 => i - 1 \in Flushes'
      /\ 1 \in Flushes <=> Head(events).type = "Flushed"
  <2>1. ASSUME NEW i \in Flushes, i # 1
        PROVE  i - 1 \in Flushes'
    <3>1. i \in Nat /\ i - 1 \in DOMAIN events' /\ events'[i - 1] = events[(i - 1) + 1]
      BY <1>1, <2>1 DEF Flushes
    <3>2. (i - 1) + 1 = i
      BY <3>1
    <3> QED
      BY <3>1, <3>2 DEF Flushes
  <2> QED
    BY <1>1, <2>1 DEF Flushes
<1>3. /\ \A i \in Announcements : i \in Nat /\ i >= 1
      /\ \A i \in Announcements' : i + 1 \in Announcements
      /\ \A i \in Announcements : i # 1 => i - 1 \in Announcements'
      /\ 1 \in Announcements <=> Head(events) = [type |-> "Pcm", id |-> queue.id]
  <2>1. ASSUME NEW i \in Announcements, i # 1
        PROVE  i - 1 \in Announcements'
    <3>1. i \in Nat /\ i - 1 \in DOMAIN events' /\ events'[i - 1] = events[(i - 1) + 1]
      BY <1>1, <2>1 DEF Announcements
    <3>2. (i - 1) + 1 = i
      BY <3>1
    <3> QED
      BY <3>1, <3>2 DEF Announcements
  <2> QED
    BY <1>1, <2>1 DEF Announcements
<1>4. /\ seen' <= epoch
      /\ \A i \in DOMAIN events' : /\ events'[i].type = "Pcm" => events'[i].id <= epoch
                                   /\ events'[i].type = "Flushed" => events'[i].epoch <= epoch
  BY <1>1 DEF ChannelInv
<1>5. ASSUME NEW i \in Flushes', \A j \in Flushes' : j <= i
      PROVE  events'[i].epoch = epoch
  <2>1. \A j \in Flushes : j <= i + 1
    BY <1>2, <1>5
  <2>2. i \in DOMAIN events'
    BY DEF Flushes
  <2> QED
    BY <1>1, <1>2, <2>1, <2>2 DEF ChannelInv
<1>6. ASSUME Flushes' = {}
      PROVE  seen' = epoch
  <2>1. \A j \in Flushes : j <= 1
    BY <1>2, <1>6
  <2>2. CASE 1 \in Flushes
    BY <1>1, <1>2, <2>1, <2>2 DEF ChannelInv
  <2>3. CASE 1 \notin Flushes
    <3>1. Flushes = {}
      BY <1>2, <1>6, <2>3
    <3> QED
      BY <1>2, <2>3, <3>1 DEF ChannelInv
  <2> QED
    BY <2>2, <2>3
<1>7. ASSUME NEW i \in Announcements', NEW j \in Flushes'
      PROVE  j < i
  <2>1. i + 1 \in Announcements /\ j + 1 \in Flushes /\ i \in Nat /\ j \in Nat
    BY <1>1, <1>2, <1>3 DEF Announcements
  <2> QED
    BY <2>1 DEF ChannelInv
<1>8. ChannelInv'
  BY <1>4, <1>5, <1>6, <1>7 DEF ChannelInv
<1>9. Head(events) = [type |-> "Pcm", id |-> queue.id] => Flushes = {}
  <2>1. ASSUME 1 \in Announcements, NEW j \in Flushes
        PROVE  FALSE
    <3>1. j < 1 /\ j \in Nat /\ j >= 1
      BY <1>2, <2>1 DEF ChannelInv
    <3> QED
      BY <3>1
  <2> QED
    BY <1>3, <2>1
<1>10. Head(events) # [type |-> "Pcm", id |-> queue.id] /\ Announcements # {} => Announcements' # {}
  BY <1>3
<1> QED
  BY <1>8, <1>9, <1>10

LEMMA ChannelFlushes ==
    ASSUME TypeInv, ChannelInv, Flush
    PROVE  ChannelInv'
<1> DEFINE e == [type |-> "Flushed", epoch |-> epoch + 1]
<1>1. /\ events' = Append(events, e) /\ epoch' = epoch + 1 /\ seen' = seen
      /\ queue'.id = epoch + 1
  BY DEF Flush, runtime, NewQueue
<1>2. e \in Events /\ e.type = "Flushed" /\ e.epoch = epoch + 1 /\ epoch \in Nat
  BY EventTypes DEF TypeInv
<1> HIDE DEF e
<1>3. /\ events' \in Seq(Events)
      /\ Len(events) + 1 \in Nat
      /\ DOMAIN events' = DOMAIN events \cup {Len(events) + 1}
      /\ \A i \in DOMAIN events : i < Len(events) + 1 /\ events'[i] = events[i]
      /\ events'[Len(events) + 1] = e
  BY <1>1, <1>2, Sent DEF TypeInv
<1>4. Flushes' = Flushes \cup {Len(events) + 1} /\ \A i \in Flushes : i < Len(events) + 1
  BY <1>2, <1>3 DEF Flushes
<1>5. /\ \A i \in DOMAIN events : /\ events[i].type = "Pcm" => events[i].id <= epoch /\ events[i].id \in Nat
                                  /\ events[i].type = "Flushed" => events[i].epoch <= epoch /\ events[i].epoch \in Nat
      /\ seen <= epoch /\ seen \in Nat
  BY EventTypes DEF ChannelInv, TypeInv
<1>6. Announcements' = {}
  <2>1. ASSUME NEW i \in DOMAIN events', events'[i] = [type |-> "Pcm", id |-> epoch + 1]
        PROVE  FALSE
    <3>1. events'[i].type = "Pcm" /\ events'[i].id = epoch + 1
      BY <2>1
    <3>2. i \in DOMAIN events
      BY <1>2, <1>3, <3>1
    <3>3. events[i].type = "Pcm" /\ events[i].id = epoch + 1
      BY <1>3, <3>1, <3>2
    <3>4. events[i].id <= epoch
      BY <1>5, <3>2, <3>3
    <3> QED
      BY <1>2, <3>3, <3>4
  <2> QED
    BY <1>1, <2>1 DEF Announcements
<1>7. \A i \in Flushes' : (\A j \in Flushes' : j <= i) => i = Len(events) + 1
  BY <1>3, <1>4 DEF Flushes
<1>8. \A i \in DOMAIN events' : /\ events'[i].type = "Pcm" => events'[i].id <= epoch + 1
                                /\ events'[i].type = "Flushed" => events'[i].epoch <= epoch + 1
  BY <1>2, <1>3, <1>5
<1> QED
  BY <1>1, <1>2, <1>3, <1>4, <1>5, <1>6, <1>7, <1>8 DEF ChannelInv

EpochInv == ChannelInv /\ FramesInv /\ QueueInv

LEMMA QueueKept ==
    ASSUME QueueInv, UNCHANGED <<queue, unsent, ended, batch>>,
           Announcements # {} => Announcements' # {}
    PROVE  QueueInv'
  BY DEF QueueInv, NoFrameForgotten

LEMMA AdmitsEpoch ==
    ASSUME TypeInv, EpochInv, NEW f \in Frame, NEW k \in 0..Len(queue.frames), Admits(f, k)
    PROVE  EpochInv'
<1> USE DEF EpochInv
<1>1. /\ queue'.id = queue.id /\ queue'.notified = TRUE
      /\ queue'.frames = Append(Without(queue.frames, k), f)
      /\ Without(queue.frames, k) \in Seq(Frame) /\ queue.frames \in Seq(Frame)
  BY QueueFilled DEF TypeInv
<1>2. ChannelInv' /\ Announcements' = Announcements
  BY <1>1, ChannelKept DEF Admits
<1>3. \A i \in DOMAIN queue'.frames : queue'.frames[i].epoch = epoch
  BY <1>1, WithoutSome, AppendTo DEF Admits, FramesInv
<1>4. FramesInv'
  BY <1>1, <1>3 DEF Admits, FramesInv
<1>5. QueueInv'
  BY <1>1, <1>2 DEF Admits, QueueInv, NoFrameForgotten
<1> QED
  BY <1>2, <1>4, <1>5

LEMMA SendEventEpoch ==
    ASSUME TypeInv, EpochInv, SendEvent
    PROVE  EpochInv'
<1> USE DEF EpochInv
<1>1. queue.id \in Nat /\ queue.id <= epoch
  BY DEF TypeInv, FramesInv
<1>2. [type |-> "Pcm", id |-> queue.id] \in Events
  BY <1>1, EventTypes
<1>3. ChannelInv' /\ Announcements' # {}
  BY <1>1, <1>2, ChannelSends DEF SendEvent, producer, runtime
<1>4. FramesInv'
  BY DEF SendEvent, producer, runtime, FramesInv
<1>5. QueueInv'
  BY <1>3 DEF SendEvent, runtime, QueueInv, NoFrameForgotten
<1> QED
  BY <1>3, <1>4, <1>5

LEMMA FlushEpoch ==
    ASSUME TypeInv, EpochInv, Flush
    PROVE  EpochInv'
<1> USE DEF EpochInv
<1>1. /\ epoch' = epoch + 1 /\ epoch \in Nat /\ seen \in Nat
      /\ queue' = NewQueue(epoch + 1) /\ ended' = ended /\ ~ended
      /\ UNCHANGED <<seen, batch, encoder, retired>>
  BY DEF Flush, Delivering, runtime, TypeInv
<1>2. ChannelInv'
  BY ChannelFlushes
<1>3. /\ batch # Nothing => batch.id \in Nat /\ batch.id < epoch + 1
      /\ \A i \in DOMAIN retired : retired[i].epoch <= epoch + 1
  BY <1>1, FrameTypes DEF TypeInv, FramesInv, Batches
<1>4. queue'.id = epoch + 1 /\ queue'.frames = <<>> /\ queue'.notified = FALSE
  BY <1>1 DEF NewQueue
<1>5. FramesInv'
  BY <1>1, <1>3, <1>4 DEF FramesInv
<1>6. QueueInv'
  BY <1>1, <1>4 DEF QueueInv, NoFrameForgotten
<1> QED
  BY <1>2, <1>5, <1>6

LEMMA EndEpoch ==
    ASSUME TypeInv, EpochInv, End
    PROVE  EpochInv'
<1> USE DEF EpochInv
<1>1. PICK t \in {"SessionStopped", "StreamEndedWhilePaused"} : events' = Append(events, [type |-> t])
  BY DEF End
<1>2. /\ ~unsent /\ ended' /\ queue' = [queue EXCEPT !.frames = <<>>]
      /\ UNCHANGED <<epoch, unsent, seen, batch, encoder, retired>>
  BY DEF End, Delivering, runtime
<1>3. queue'.id = queue.id /\ queue'.frames = <<>> /\ queue'.notified = queue.notified
  BY <1>2 DEF TypeInv
<1>4. [type |-> t] \in Events /\ [type |-> t].type \notin {"Pcm", "Flushed"}
  BY EventTypes
<1>5. ChannelInv' /\ Announcements \subseteq Announcements'
  BY <1>1, <1>2, <1>3, <1>4, ChannelSends
<1>6. FramesInv'
  BY <1>2, <1>3 DEF FramesInv
<1>7. QueueInv'
  BY <1>2, <1>3, <1>5 DEF QueueInv, NoFrameForgotten
<1> QED
  BY <1>5, <1>6, <1>7

LEMMA BeginBatchEpoch ==
    ASSUME TypeInv, EpochInv, BeginBatch
    PROVE  EpochInv'
<1> USE DEF EpochInv
<1>1. /\ Event /\ Head(events).type = "Pcm" /\ batch = Nothing
      /\ UNCHANGED <<epoch, unsent, ended, seen, encoder, retired>>
  BY DEF BeginBatch, Event, producer
<1>2. Head(events) \in [type : {"Pcm"}, id : Nat]
  BY <1>1, Handled, EventTypes DEF TypeInv
<1>3. CASE Head(events).id # queue.id
  <2>1. UNCHANGED <<batch, queue>>
    BY <1>3 DEF BeginBatch
  <2>2. ChannelInv' /\ (Announcements # {} => Announcements' # {})
    BY <1>1, <1>3, <2>1, ChannelHandles
  <2>3. FramesInv'
    BY <1>1, <2>1 DEF FramesInv
  <2> QED
    BY <1>1, <2>1, <2>2, <2>3, QueueKept
<1>4. CASE Head(events).id = queue.id
  <2>1. PICK k \in Expired(queue.frames) :
           /\ queue' = [queue EXCEPT !.frames = Without(@, k), !.notified = FALSE]
           /\ batch' = IF queue'.frames = <<>> THEN Nothing
                       ELSE [id |-> queue.id, left |-> Len(queue'.frames)]
    BY <1>4 DEF BeginBatch
  <2>2. /\ queue'.id = queue.id /\ queue'.notified = FALSE
        /\ queue'.frames = Without(queue.frames, k)
    BY <2>1 DEF TypeInv
  <2>3. /\ k \in 0..Len(queue.frames) /\ queue.frames \in Seq(Frame)
        /\ Without(queue.frames, k) \in Seq(Frame)
        /\ Len(Without(queue.frames, k)) = Len(queue.frames) - k
        /\ \A i \in DOMAIN Without(queue.frames, k) :
              i + k \in DOMAIN queue.frames /\ Without(queue.frames, k)[i] = queue.frames[i + k]
    BY Fetches, WithoutSome DEF TypeInv
  <2>4. Head(events) = [type |-> "Pcm", id |-> queue.id]
    BY <1>2, <1>4
  <2>5. ChannelInv' /\ Flushes = {}
    BY <1>1, <2>2, <2>4, ChannelHandles
  <2>6. seen = epoch
    BY <2>5 DEF ChannelInv
  <2>7. batch' # Nothing => batch'.id = queue.id /\ batch'.left = Len(queue'.frames)
    BY <2>1
  <2>8. \A i \in DOMAIN queue'.frames : queue'.frames[i].epoch = epoch
    BY <2>2, <2>3 DEF FramesInv
  <2>9. queue.id = epoch /\ epoch \in Nat
    BY DEF FramesInv, TypeInv
  <2>10. FramesInv'
    BY <1>1, <2>2, <2>6, <2>7, <2>8, <2>9 DEF FramesInv
  <2>11. queue'.frames # <<>> => batch' # Nothing
    BY <2>1, <2>2, <2>3, <2>9, NothingAssumption
  <2>12. /\ ended' => queue'.frames = <<>>
         /\ Len(queue'.frames) \in Nat
    BY <1>1, <2>2, <2>3 DEF QueueInv
  <2>13. QueueInv'
    BY <2>2, <2>7, <2>11, <2>12 DEF QueueInv, NoFrameForgotten
  <2> QED
    BY <2>5, <2>10, <2>13
<1> QED
  BY <1>3, <1>4

LEMMA PopEpoch ==
    ASSUME TypeInv, EpochInv, Pop
    PROVE  EpochInv'
<1> USE DEF EpochInv
<1>1. UNCHANGED <<epoch, unsent, ended, events, seen, retired>> /\ batch # Nothing
  BY PopDoes DEF Pop
<1>2. queue'.id = queue.id
  BY PopDoes DEF EndsBatch, Pops, TypeInv
<1>3. ChannelInv' /\ Announcements' = Announcements
  BY <1>1, <1>2, ChannelKept
<1>4. CASE EndsBatch
  <2>1. batch' = Nothing /\ UNCHANGED encoder
    BY <1>4 DEF EndsBatch
  <2>2. CASE batch.id # queue.id /\ UNCHANGED queue
    <3>1. FramesInv'
      BY <1>1, <2>1, <2>2 DEF FramesInv
    <3>2. QueueInv'
      BY <1>1, <1>3, <2>1, <2>2 DEF QueueInv, NoFrameForgotten
    <3> QED
      BY <1>3, <3>1, <3>2
  <2>3. CASE queue' = [queue EXCEPT !.frames = <<>>, !.notified = FALSE]
    <3>1. queue'.frames = <<>> /\ queue'.notified = FALSE
      BY <2>3 DEF TypeInv
    <3>2. FramesInv'
      BY <1>1, <1>2, <2>1, <3>1 DEF FramesInv
    <3>3. QueueInv'
      BY <1>1, <3>1 DEF QueueInv, NoFrameForgotten
    <3> QED
      BY <1>3, <3>2, <3>3
  <2> QED
    BY <1>4, <2>2, <2>3 DEF EndsBatch
<1>5. ASSUME NEW k \in 0..Len(queue.frames), Pops(k)
      PROVE  EpochInv'
  <2> DEFINE frames == Without(queue.frames, k)
             f == Head(frames)
  <2>1. /\ frames \in Seq(Frame) /\ Len(frames) = Len(queue.frames) - k
        /\ queue.frames \in Seq(Frame) /\ frames # <<>> /\ f \in Frame
        /\ Tail(frames) \in Seq(Frame) /\ Len(Tail(frames)) = Len(frames) - 1
        /\ \A i \in DOMAIN frames : i + k \in DOMAIN queue.frames /\ frames[i] = queue.frames[i + k]
        /\ \A i \in DOMAIN Tail(frames) : i + 1 \in DOMAIN frames /\ Tail(frames)[i] = frames[i + 1]
    BY <1>5, WithoutSome, TailOf DEF Pops, TypeInv
  <2>2. queue'.frames = Tail(frames) /\ queue'.notified = queue.notified
    BY <1>5 DEF Pops, TypeInv
  <2>3. /\ batch.id = queue.id /\ batch \in Batches
        /\ batch' = IF batch.left = 1 THEN Nothing ELSE [batch EXCEPT !.left = @ - 1]
        /\ Drops(f) \/ \E n \in 0..Len(encoder.input) : Writes(f, n)
    BY <1>1, <1>5 DEF Pops, TypeInv
  <2> HIDE DEF frames, f
  <2>4. \A i \in DOMAIN queue'.frames : queue'.frames[i].epoch = epoch
    BY <2>1, <2>2 DEF FramesInv
  <2>5. batch.left # 1 => batch' \in Batches /\ batch'.id = batch.id /\ batch'.left = batch.left - 1
    <3>1. batch.left # 1 => batch.left - 1 \in Nat \ {0}
      BY <2>3 DEF Batches
    <3> QED
      BY <2>3, <3>1 DEF Batches
  <2>6. encoder' # Nothing =>
           /\ encoder'.epoch = seen
           /\ \A i \in DOMAIN encoder'.input : encoder'.input[i].epoch = seen
           /\ \A i \in DOMAIN encoder'.frame : encoder'.frame[i].epoch = seen
    <3>1. CASE Drops(f)
      BY <3>1 DEF Drops, FramesInv
    <3>2. ASSUME NEW n \in 0..Len(encoder.input), Writes(f, n)
          PROVE  <2>6!:
      <4>1. encoder # Nothing /\ encoder \in Encoders /\ encoder.input \in Seq(Frame) /\ f.epoch = seen
        BY <3>2 DEF Writes, TypeInv, Encoders
      <4>2. /\ encoder'.input = Append(Without(encoder.input, n), f)
            /\ encoder'.epoch = encoder.epoch /\ encoder'.frame = encoder.frame
        BY <3>2, <4>1 DEF Writes, Encoders
      <4>3. \A i \in DOMAIN encoder'.input : encoder'.input[i].epoch = seen
        <5> DEFINE t == Without(encoder.input, n)
        <5>1. /\ t \in Seq(Frame)
              /\ \A i \in DOMAIN t : i + n \in DOMAIN encoder.input /\ t[i] = encoder.input[i + n]
          BY <4>1, WithoutSome
        <5> HIDE DEF t
        <5>2. \A i \in DOMAIN t : t[i].epoch = seen
          BY <4>1, <5>1 DEF FramesInv
        <5>3. /\ DOMAIN Append(t, f) = DOMAIN t \cup {Len(t) + 1}
              /\ \A i \in DOMAIN t : Append(t, f)[i] = t[i]
              /\ Append(t, f)[Len(t) + 1] = f
          BY <2>1, <5>1, AppendTo
        <5>4. encoder'.input = Append(t, f)
          BY <4>2 DEF t
        <5> QED
          BY <4>1, <5>2, <5>3, <5>4
      <4> QED
        BY <4>1, <4>2, <4>3 DEF FramesInv
    <3> QED
      BY <2>3, <3>1, <3>2
  <2>7. FramesInv'
    <3>1. batch' # Nothing => batch'.id = queue.id
      BY <2>3, <2>5
    <3> QED
      BY <1>1, <1>2, <2>3, <2>4, <2>6, <3>1 DEF FramesInv
  <2>8. queue'.frames # <<>> => queue.frames # <<>>
    BY <2>1, <2>2
  <2>9. batch.left >= Len(queue.frames) /\ queue'.frames # <<>> =>
           batch' # Nothing /\ batch'.id = queue.id /\ batch'.left >= Len(queue'.frames)
    <3>1. /\ k \in Nat /\ Len(queue.frames) \in Nat /\ batch.left \in Nat
          /\ Len(queue'.frames) = Len(queue.frames) - k - 1
          /\ queue'.frames # <<>> => Len(queue'.frames) \in Nat \ {0}
      BY <2>1, <2>2, <2>3 DEF Batches
    <3>2. batch.left >= Len(queue.frames) /\ queue'.frames # <<>> => batch.left # 1
      BY <3>1
    <3>3. Batches \subseteq [id : Nat, left : Nat]
      BY DEF Batches
    <3> QED
      BY <2>3, <2>5, <3>1, <3>2, <3>3, NothingAssumption
  <2>10. QueueInv'
    BY <1>1, <1>2, <1>3, <2>2, <2>8, <2>9 DEF QueueInv, NoFrameForgotten
  <2> QED
    BY <1>3, <2>7, <2>10
<1> QED
  BY <1>4, <1>5, PopDoes

(* The epoch of what an encoder leaves behind.                             *)
LEMMA RetireEpoch ==
    ASSUME TypeInv, ChannelInv, FramesInv, Retire
    PROVE  \A i \in DOMAIN retired' : retired'[i].epoch <= epoch
<1>1. CASE retired' = retired
  BY <1>1 DEF FramesInv
<1>2. CASE /\ encoder # Nothing /\ encoder.frame # <<>> /\ encoder.frame[1] \in Frame
           /\ encoder.frame = <<encoder.frame[1]>>
           /\ retired' = Append(retired, encoder.frame[1])
  <2>1. 1 \in DOMAIN encoder.frame
    BY <1>2
  <2>2. encoder.frame[1].epoch <= epoch
    BY <1>2, <2>1 DEF FramesInv, ChannelInv
  <2> QED
    BY <1>2, <2>2, AppendTo DEF FramesInv, TypeInv
<1> QED
  BY <1>1, <1>2, RetireTypes

LEMMA OtherEventEpoch ==
    ASSUME TypeInv, EpochInv, Flushed \/ Stopped \/ EndedWhilePaused
    PROVE  EpochInv'
<1> USE DEF EpochInv
<1>1. /\ Event /\ Head(events).type # "Pcm" /\ batch = Nothing
      /\ UNCHANGED <<epoch, queue, unsent, ended, batch>>
  BY DEF Flushed, Stopped, EndedWhilePaused, Event, producer, runtime
<1>2. /\ seen' = IF Head(events).type = "Flushed" THEN Head(events).epoch ELSE seen
      /\ seen' \in Nat
  BY <1>1, Handled, EventTypes DEF Flushed, Stopped, EndedWhilePaused, runtime, TypeInv
<1>3. ChannelInv' /\ (Announcements # {} => Announcements' # {})
  BY <1>1, <1>2, ChannelHandles
<1>4. \A i \in DOMAIN retired' : retired'[i].epoch <= epoch
  BY RetireEpoch DEF Flushed, Stopped, EndedWhilePaused, FramesInv
<1>5. encoder' # Nothing =>
         /\ encoder'.epoch = seen'
         /\ \A i \in DOMAIN encoder'.input : encoder'.input[i].epoch = seen'
         /\ \A i \in DOMAIN encoder'.frame : encoder'.frame[i].epoch = seen'
  <2>1. CASE Flushed
    BY <1>2, <2>1, NewEncoderTypes DEF Flushed
  <2>2. CASE Stopped
    BY <2>2 DEF Stopped
  <2>3. CASE EndedWhilePaused
    BY <2>3 DEF EndedWhilePaused, runtime, FramesInv
  <2> QED
    BY <2>1, <2>2, <2>3
<1>6. FramesInv'
  BY <1>1, <1>4, <1>5 DEF FramesInv
<1>7. QueueInv'
  BY <1>1, <1>3, QueueKept
<1> QED
  BY <1>3, <1>6, <1>7

(* Steps that touch no more than the encoder.                              *)
OwnEpoch(e) ==
    /\ e.epoch = seen
    /\ \A i \in DOMAIN e.input : e.input[i].epoch = seen
    /\ \A i \in DOMAIN e.frame : e.frame[i].epoch = seen

LEMMA EncoderEpoch ==
    ASSUME TypeInv, EpochInv,
           UNCHANGED <<epoch, queue, unsent, ended, events, batch, seen>>,
           encoder' # Nothing => OwnEpoch(encoder)',
           \A i \in DOMAIN retired' : retired'[i].epoch <= epoch
    PROVE  EpochInv'
<1>1. ChannelInv' /\ Announcements' = Announcements
  BY ChannelKept DEF EpochInv
<1>2. QueueInv'
  BY <1>1, QueueKept DEF EpochInv
<1>3. FramesInv'
  BY DEF FramesInv, EpochInv, OwnEpoch
<1> QED
  BY <1>1, <1>2, <1>3 DEF EpochInv

LEMMA EncoderStepEpoch ==
    ASSUME TypeInv, EpochInv, Replace \/ Release \/ Receive \/ Encode \/ RetiredEnds
    PROVE  EpochInv'
<1>1. UNCHANGED <<epoch, queue, unsent, ended, events, batch, seen>>
  BY DEF Replace, Release, Receive, Encode, RetiredEnds, producer, runtime
<1>2. /\ encoder # Nothing => encoder \in Encoders /\ OwnEpoch(encoder)
      /\ \A i \in DOMAIN retired : retired[i].epoch <= epoch
  BY DEF EpochInv, FramesInv, TypeInv, OwnEpoch
<1>3. CASE Replace
  <2>1. encoder' # Nothing => OwnEpoch(encoder)'
    BY <1>1, <1>3, NewEncoderTypes DEF Replace, OwnEpoch, TypeInv
  <2>2. \A i \in DOMAIN retired' : retired'[i].epoch <= epoch
    BY <1>3, RetireEpoch DEF Replace, EpochInv
  <2> QED
    BY <1>1, <2>1, <2>2, EncoderEpoch
<1>4. CASE Release
  <2>1. /\ encoder # Nothing /\ encoder' = [encoder EXCEPT !.released = TRUE]
        /\ UNCHANGED retired
    BY <1>4 DEF Release
  <2>2. OwnEpoch(encoder)'
    BY <1>1, <1>2, <2>1 DEF OwnEpoch, Encoders
  <2> QED
    BY <1>1, <1>2, <2>1, <2>2, EncoderEpoch
<1>5. CASE Receive
  <2>1. PICK k \in Expired(encoder.input) :
           /\ Without(encoder.input, k) # <<>>
           /\ encoder' = [encoder EXCEPT !.input = Tail(Without(encoder.input, k)),
                                         !.frame = <<Head(Without(encoder.input, k))>>]
    BY <1>5 DEF Receive
  <2>2. encoder # Nothing /\ UNCHANGED retired
    BY <1>5 DEF Receive
  <2> DEFINE t == Without(encoder.input, k)
  <2>3. /\ t \in Seq(Frame) /\ encoder.input \in Seq(Frame) /\ k \in 0..Len(encoder.input)
        /\ \A i \in DOMAIN t : i + k \in DOMAIN encoder.input /\ t[i] = encoder.input[i + k]
    BY <1>2, <2>2, Takes, WithoutSome DEF Encoders
  <2>4. encoder'.epoch = encoder.epoch /\ encoder'.input = Tail(t) /\ encoder'.frame = <<Head(t)>>
    BY <1>2, <2>1, <2>2 DEF Encoders
  <2>5. t # <<>>
    BY <2>1
  <2> HIDE DEF t
  <2>6. \A i \in DOMAIN t : t[i].epoch = seen
    BY <1>2, <2>2, <2>3 DEF OwnEpoch
  <2>7. /\ Head(t) = t[1] /\ 1 \in DOMAIN t
        /\ \A i \in DOMAIN Tail(t) : i + 1 \in DOMAIN t /\ Tail(t)[i] = t[i + 1]
    BY <2>3, <2>5, TailOf
  <2>8. OwnEpoch(encoder)'
    BY <1>1, <1>2, <2>2, <2>4, <2>6, <2>7 DEF OwnEpoch
  <2> QED
    BY <1>1, <1>2, <2>2, <2>8, EncoderEpoch
<1>6. CASE Encode
  <2>1. /\ encoder # Nothing /\ UNCHANGED retired
        /\ \/ encoder' = [encoder EXCEPT !.frame = <<>>]
           \/ encoder' = [encoder EXCEPT !.frame = <<>>,
                                         !.next = Head(encoder.frame).at + Head(encoder.frame).size]
    BY <1>6 DEF Encode
  <2>2. encoder'.epoch = encoder.epoch /\ encoder'.input = encoder.input /\ encoder'.frame = <<>>
    BY <1>2, <2>1 DEF Encoders
  <2>3. OwnEpoch(encoder)'
    BY <1>1, <1>2, <2>1, <2>2 DEF OwnEpoch
  <2> QED
    BY <1>1, <1>2, <2>1, <2>3, EncoderEpoch
<1>7. CASE RetiredEnds
  <2>1. PICK i \in DOMAIN retired : retired' = RemoveAt(retired, i)
    BY <1>7 DEF RetiredEnds
  <2>2. /\ retired' \in Seq(Frame) /\ Len(retired') = Len(retired) - 1 /\ retired \in Seq(Frame)
        /\ \A j \in DOMAIN retired' :
              retired'[j] = IF j < i THEN retired[j] ELSE retired[j + 1]
    BY <2>1, RemoveFrom DEF TypeInv
  <2>3. \A j \in DOMAIN retired' : j \in DOMAIN retired /\ j + 1 \in DOMAIN retired
    BY <2>2
  <2>4. \A j \in DOMAIN retired' : retired'[j].epoch <= epoch
    BY <1>2, <2>2, <2>3
  <2>5. encoder' # Nothing => OwnEpoch(encoder)'
    BY <1>1, <1>2, <1>7 DEF RetiredEnds, OwnEpoch
  <2> QED
    BY <1>1, <2>4, <2>5, EncoderEpoch
<1> QED
  BY <1>3, <1>4, <1>5, <1>6, <1>7

LEMMA EpochStep ==
    ASSUME TypeInv, EpochInv, [Next]_vars
    PROVE  EpochInv'
<1>1. CASE UNCHANGED <<epoch, queue, unsent, ended, events, batch, seen, encoder, retired>>
  BY <1>1, EncoderEpoch DEF EpochInv, FramesInv, OwnEpoch
<1>2. CASE Chunk
  BY <1>2, ChunkAdmits, AdmitsEpoch
<1>3. CASE Realtime
  BY <1>1, <1>3, RealtimeAdmits, AdmitsEpoch DEF Skips
<1>4. CASE Packet
  BY <1>1, <1>4 DEF Packet, runtime
<1>5. CASE UNCHANGED vars
  BY <1>1, <1>5 DEF vars
<1> QED
  BY <1>2, <1>3, <1>4, <1>5, SendEventEpoch, FlushEpoch, EndEpoch, BeginBatchEpoch, PopEpoch,
     OtherEventEpoch, EncoderStepEpoch
  DEF Next, Producer, Runtime, Encoder

----------------------------------------------------------------------------
(* No step but an admission raises the credits in use.                     *)

LEMMA FewCredits ==
    ASSUME NEW e
    PROVE  /\ Credits(<<>>, e) = 0
           /\ \A f \in Frame : /\ Credits(<<f>>, e) = CreditOf(f, e) /\ CreditOf(f, e) \in Nat
                               /\ f.epoch = e => CreditOf(f, e) = f.size
<1>1. Credits(<<>>, e) = 0
  <2>1. ASSUME NEW s \in Seq(Frame), s = <<>>
        PROVE  Credits(s, e) = 0
    <3>1. \A i \in DOMAIN s : s[i].epoch # e
      BY <2>1
    <3> QED
      BY <3>1, NoCredits
  <2> QED
    BY <2>1, NoFrames
<1>2. ASSUME NEW f \in Frame
      PROVE  Credits(<<f>>, e) = CreditOf(f, e) /\ CreditOf(f, e) \in Nat
  <2>1. <<f>> = Append(<<>>, f)
    OBVIOUS
  <2>2. Credits(Append(<<>>, f), e) = Credits(<<>>, e) + CreditOf(f, e)
    BY NoFrames, AppendCredits
  <2>3. CreditOf(f, e) \in Nat
    BY FrameTypes, Constants DEF CreditOf
  <2> QED
    BY <1>1, <2>1, <2>2, <2>3
<1> QED
  BY <1>1, <1>2 DEF CreditOf

EncoderCredits(e) ==
    IF encoder = Nothing THEN 0 ELSE Credits(encoder.input, e) + Credits(encoder.frame, e)

LEMMA InUseTypes ==
    ASSUME TypeInv, NEW e
    PROVE  /\ Credits(queue.frames, e) \in Nat /\ Credits(retired, e) \in Nat
           /\ EncoderCredits(e) \in Nat
           /\ InUse = Credits(queue.frames, epoch) + Credits(retired, epoch) + EncoderCredits(epoch)
           /\ encoder # Nothing => /\ Credits(encoder.input, e) \in Nat
                                   /\ Credits(encoder.frame, e) \in Nat
<1>1. queue.frames \in Seq(Frame) /\ retired \in Seq(Frame)
  BY DEF TypeInv
<1>2. encoder # Nothing => encoder.input \in Seq(Frame) /\ encoder.frame \in Seq(Frame)
  BY DEF TypeInv, Encoders
<1> QED
  BY <1>1, <1>2, SoundFinite DEF EncoderCredits, InUse

LEMMA RetireCredits ==
    ASSUME TypeInv, Retire, NEW e, encoder' = Nothing \/ \E n \in Nat : encoder' = NewEncoder(n)
    PROVE  Credits(retired', e) + EncoderCredits(e)' <= Credits(retired, e) + EncoderCredits(e)
<1> DEFINE AfterCredits == IF encoder' = Nothing THEN 0
                           ELSE Credits(encoder'.input, e) + Credits(encoder'.frame, e)
<1>1. EncoderCredits(e)' = AfterCredits
  BY DEF EncoderCredits
<1>2. AfterCredits = 0
  <2>1. ASSUME NEW n \in Nat, encoder' = NewEncoder(n)
        PROVE  Credits(encoder'.input, e) = 0 /\ Credits(encoder'.frame, e) = 0
    BY <2>1, NewEncoderTypes, FewCredits
  <2> QED
    BY <2>1
<1>3. /\ Credits(retired, e) \in Nat /\ EncoderCredits(e) \in Nat
      /\ encoder # Nothing => /\ Credits(encoder.input, e) \in Nat
                              /\ Credits(encoder.frame, e) \in Nat
                              /\ EncoderCredits(e) = Credits(encoder.input, e) + Credits(encoder.frame, e)
  BY InUseTypes DEF EncoderCredits
<1> HIDE DEF AfterCredits
<1>4. CASE retired' = retired
  BY <1>1, <1>2, <1>3, <1>4
<1>5. CASE /\ encoder # Nothing /\ encoder.frame # <<>> /\ encoder.frame[1] \in Frame
           /\ encoder.frame = <<encoder.frame[1]>>
           /\ retired' = Append(retired, encoder.frame[1])
  <2>1. Credits(retired', e) = Credits(retired, e) + CreditOf(encoder.frame[1], e)
    BY <1>5, AppendCredits DEF TypeInv
  <2>2. Credits(encoder.frame, e) = CreditOf(encoder.frame[1], e)
    BY <1>5, FewCredits
  <2> QED
    BY <1>1, <1>2, <1>3, <1>5, <2>1, <2>2
<1> QED
  BY <1>4, <1>5, RetireTypes

(* The room in the encoder's input is always enough for buffered sound.    *)
LEMMA InputHasRoom ==
    ASSUME TypeInv, FramesInv, CreditInv, buffered, encoder # Nothing, seen = epoch,
           NEW f \in Frame, f.epoch = epoch, queue.frames # <<>>, f = Head(queue.frames)
    PROVE  RoomFor(encoder.input, f, InputSamples) # {}
<1>1. encoder.input \in Seq(Frame) /\ queue.frames \in Seq(Frame)
  BY DEF TypeInv, Encoders
<1>2. Samples(encoder.input) = Credits(encoder.input, epoch)
  BY <1>1, AllCredits DEF FramesInv
<1>3. CreditOf(f, epoch) = f.size /\ f.size \in Nat
  BY FrameTypes, Constants DEF CreditOf
<1>4. Tail(queue.frames) \in Seq(Frame)
  BY <1>1, TailOf
<1>5. /\ Credits(Tail(queue.frames), epoch) \in Nat
      /\ Credits(Tail(queue.frames), epoch) + f.size <= Credits(queue.frames, epoch)
  BY <1>1, <1>3, <1>4, TailCredits, SoundFinite
<1>6. /\ Credits(queue.frames, epoch) \in Nat /\ Credits(retired, epoch) \in Nat
      /\ Credits(encoder.input, epoch) \in Nat /\ Credits(encoder.frame, epoch) \in Nat
      /\ Credits(queue.frames, epoch) + Credits(retired, epoch) +
            (Credits(encoder.input, epoch) + Credits(encoder.frame, epoch)) <= QueueSamples
  BY InUseTypes DEF CreditInv, EncoderCredits
<1>7. QueueSamples \in Nat /\ InputSamples \in Nat /\ QueueSamples <= InputSamples
  BY CapacityAssumption
<1>8. Samples(encoder.input) + f.size <= InputSamples
  BY <1>2, <1>3, <1>5, <1>6, <1>7
<1> QED
  BY <1>1, <1>7, <1>8, RoomIsInFront

LEMMA CreditStep ==
    ASSUME TypeInv, TypeInv', EpochInv, CreditInv, [Next]_vars
    PROVE  CreditInv'
<1> SUFFICES ASSUME buffered' PROVE InUse' <= QueueSamples
  BY DEF CreditInv
<1>1. buffered /\ InUse <= QueueSamples
  BY DEF CreditInv, Next, vars, Producer, Runtime, Encoder, Chunk, SendEvent, Realtime, Packet,
         Flush, End, BeginBatch, Pop, Flushed, Stopped, EndedWhilePaused, Replace, Release, Receive,
         Encode, RetiredEnds, producer
<1>2. /\ Credits(queue.frames, epoch) \in Nat /\ Credits(retired, epoch) \in Nat
      /\ EncoderCredits(epoch) \in Nat
      /\ InUse = Credits(queue.frames, epoch) + Credits(retired, epoch) + EncoderCredits(epoch)
      /\ encoder # Nothing => /\ Credits(encoder.input, epoch) \in Nat
                              /\ Credits(encoder.frame, epoch) \in Nat
                              /\ EncoderCredits(epoch) =
                                    Credits(encoder.input, epoch) + Credits(encoder.frame, epoch)
  BY InUseTypes DEF EncoderCredits
<1>3. /\ InUse' = Credits(queue'.frames, epoch') + Credits(retired', epoch') + EncoderCredits(epoch)'
      /\ Credits(queue'.frames, epoch') \in Nat /\ Credits(retired', epoch') \in Nat
      /\ EncoderCredits(epoch)' \in Nat
      /\ encoder' # Nothing =>
            EncoderCredits(epoch)' =
                Credits(encoder'.input, epoch') + Credits(encoder'.frame, epoch')
      /\ encoder' = Nothing => EncoderCredits(epoch)' = 0
  <2>1. /\ queue'.frames \in Seq(Frame) /\ retired' \in Seq(Frame)
        /\ encoder' # Nothing => encoder'.input \in Seq(Frame) /\ encoder'.frame \in Seq(Frame)
    BY DEF TypeInv, Encoders
  <2> QED
    BY <2>1, SoundFinite DEF EncoderCredits, InUse
<1>4. QueueSamples \in Nat /\ epoch \in Nat
  BY Constants DEF TypeInv
<1>5. ASSUME epoch' = epoch, Credits(queue'.frames, epoch) <= Credits(queue.frames, epoch),
             Credits(retired', epoch) + EncoderCredits(epoch)' <=
                 Credits(retired, epoch) + EncoderCredits(epoch)
      PROVE  InUse' <= QueueSamples
  BY <1>1, <1>2, <1>3, <1>4, <1>5
<1>6. ASSUME UNCHANGED <<epoch, retired, encoder>>,
             queue'.frames = queue.frames \/ queue'.frames = <<>>
      PROVE  InUse' <= QueueSamples
  <2>1. EncoderCredits(epoch)' = EncoderCredits(epoch)
    BY <1>6 DEF EncoderCredits
  <2>2. Credits(queue'.frames, epoch) <= Credits(queue.frames, epoch)
    BY <1>2, <1>6, FewCredits
  <2> QED
    BY <1>2, <1>5, <1>6, <2>1, <2>2
<1>7. CASE Chunk
  <2>1. PICK f \in Frame, k \in 0..Len(queue.frames) : Admits(f, k)
    BY <1>7, ChunkAdmits
  <2>2. /\ k = 0 /\ InUse + f.size <= QueueSamples /\ f.epoch = epoch
        /\ UNCHANGED <<epoch, retired, encoder>>
    BY <1>1, <2>1 DEF Admits
  <2>3. queue'.frames = Append(queue.frames, f) /\ queue.frames \in Seq(Frame)
    BY <2>1, <2>2, QueueFilled, WithoutSome DEF TypeInv
  <2>4. Credits(queue'.frames, epoch) = Credits(queue.frames, epoch) + f.size /\ f.size \in Nat
    <3>1. CreditOf(f, epoch) = f.size /\ CreditOf(f, epoch) \in Nat
      BY <2>2, FewCredits
    <3>2. Credits(Append(queue.frames, f), epoch) =
              Credits(queue.frames, epoch) + CreditOf(f, epoch)
      BY <2>3, AppendCredits
    <3> QED
      BY <2>3, <3>1, <3>2
  <2>5. EncoderCredits(epoch)' = EncoderCredits(epoch)
    BY <2>2 DEF EncoderCredits
  <2> QED
    BY <1>2, <1>3, <1>4, <2>2, <2>4, <2>5
<1>8. CASE Flush
  <2>1. epoch' = epoch + 1 /\ queue'.frames = <<>> /\ UNCHANGED <<retired, encoder>>
    BY <1>8 DEF Flush, NewQueue
  <2>2. Credits(retired', epoch') = 0
    <3>1. retired \in Seq(Frame) /\ \A i \in DOMAIN retired : retired[i].epoch # epoch + 1
      BY <1>4, FrameTypes DEF EpochInv, FramesInv, TypeInv
    <3> QED
      BY <2>1, <3>1, NoCredits
  <2>3. encoder' # Nothing =>
           Credits(encoder'.input, epoch') = 0 /\ Credits(encoder'.frame, epoch') = 0
    <3>1. seen # epoch + 1
      BY <1>4 DEF EpochInv, ChannelInv, TypeInv
    <3>2. encoder # Nothing =>
             /\ encoder.input \in Seq(Frame) /\ encoder.frame \in Seq(Frame)
             /\ \A i \in DOMAIN encoder.input : encoder.input[i].epoch # epoch + 1
             /\ \A i \in DOMAIN encoder.frame : encoder.frame[i].epoch # epoch + 1
      BY <3>1 DEF EpochInv, FramesInv, TypeInv, Encoders
    <3> QED
      BY <2>1, <3>2, NoCredits
  <2>4. Credits(queue'.frames, epoch') = 0
    BY <2>1, FewCredits
  <2>5. EncoderCredits(epoch)' = 0
    BY <1>3, <2>3
  <2> QED
    BY <1>3, <1>4, <2>2, <2>4, <2>5
<1>9. CASE BeginBatch
  <2>1. queue'.frames = queue.frames
    <3>1. ASSUME NEW k \in Expired(queue.frames),
                 queue' = [queue EXCEPT !.frames = Without(@, k), !.notified = FALSE]
          PROVE  queue'.frames = queue.frames
      BY <1>1, <3>1, Fetches, WithoutSome DEF TypeInv
    <3> QED
      BY <1>9, <3>1 DEF BeginBatch
  <2> QED
    BY <1>6, <1>9, <2>1 DEF BeginBatch, producer
<1>10. CASE Pop
  <2>1. UNCHANGED <<epoch, retired>>
    BY <1>10, PopDoes
  <2>2. CASE EndsBatch
    BY <1>6, <2>1, <2>2 DEF EndsBatch, TypeInv
  <2>3. ASSUME NEW k \in 0..Len(queue.frames), k = 0, Pops(k)
        PROVE  InUse' <= QueueSamples
    <3> DEFINE f == Head(queue.frames)
    <3>1. queue.frames \in Seq(Frame) /\ Without(queue.frames, k) = queue.frames
      BY <2>3, WithoutSome DEF TypeInv
    <3>2. /\ queue.frames # <<>> /\ queue'.frames = Tail(queue.frames)
          /\ Drops(f) \/ \E n \in 0..Len(encoder.input) : Writes(f, n)
      BY <2>3, <3>1 DEF Pops, TypeInv
    <3>3. /\ f \in Frame /\ CreditOf(f, epoch) \in Nat
          /\ Credits(queue'.frames, epoch) + CreditOf(f, epoch) <= Credits(queue.frames, epoch)
      BY <3>1, <3>2, TailOf, TailCredits, FewCredits
    <3> HIDE DEF f
    <3>4. CASE Drops(f)
      <4>1. EncoderCredits(epoch)' = EncoderCredits(epoch)
        BY <2>1, <3>4 DEF EncoderCredits, Drops
      <4> QED
        BY <1>1, <1>2, <1>3, <1>4, <2>1, <3>3, <4>1
    <3>5. ASSUME NEW n \in 0..Len(encoder.input), Writes(f, n)
          PROVE  InUse' <= QueueSamples
      <4>1. encoder # Nothing /\ encoder \in Encoders /\ encoder.input \in Seq(Frame)
        BY <3>5 DEF Writes, TypeInv, Encoders
      <4>2. n = 0 /\ Without(encoder.input, n) = encoder.input
        BY <1>1, <3>5, <4>1, WithoutSome DEF Writes
      <4>3. encoder'.input = Append(encoder.input, f) /\ encoder'.frame = encoder.frame
        BY <3>5, <4>1, <4>2 DEF Writes, Encoders
      <4>4. Credits(encoder'.input, epoch) = Credits(encoder.input, epoch) + CreditOf(f, epoch)
        BY <3>3, <4>1, <4>3, AppendCredits
      <4>5. EncoderCredits(epoch)' <= EncoderCredits(epoch) + CreditOf(f, epoch)
        <5>1. CASE encoder' = Nothing
          BY <1>2, <1>3, <3>3, <5>1
        <5>2. CASE encoder' # Nothing
          <6>1. EncoderCredits(epoch)' =
                    Credits(encoder.input, epoch) + CreditOf(f, epoch) + Credits(encoder.frame, epoch)
            BY <1>3, <2>1, <4>3, <4>4, <5>2
          <6> QED
            BY <1>2, <3>3, <4>1, <6>1
        <5> QED
          BY <5>1, <5>2
      <4> QED
        BY <1>1, <1>2, <1>3, <1>4, <2>1, <3>3, <4>5
    <3> QED
      BY <3>2, <3>4, <3>5
  <2> QED
    BY <1>1, <1>10, <2>2, <2>3, PopDoes
<1>11. ASSUME Retire, encoder' = Nothing \/ \E n \in Nat : encoder' = NewEncoder(n),
              UNCHANGED <<epoch, queue>>
       PROVE  InUse' <= QueueSamples
  <2>1. Credits(retired', epoch) + EncoderCredits(epoch)' <=
            Credits(retired, epoch) + EncoderCredits(epoch)
    BY <1>4, <1>11, RetireCredits DEF EncoderCredits
  <2> QED
    BY <1>2, <1>5, <1>11, <2>1
<1>12. CASE Flushed \/ Stopped \/ Replace
  <2>1. seen \in Nat /\ seen' \in Nat
    BY DEF TypeInv
  <2> QED
    BY <1>11, <1>12, <2>1 DEF Flushed, Stopped, Replace, producer
<1>13. ASSUME UNCHANGED <<epoch, queue, retired>>, encoder # Nothing, encoder' # Nothing,
              Credits(encoder'.input, epoch) + Credits(encoder'.frame, epoch) <=
                  Credits(encoder.input, epoch) + Credits(encoder.frame, epoch)
       PROVE  InUse' <= QueueSamples
  BY <1>2, <1>3, <1>5, <1>13
<1>14. CASE Release \/ Receive \/ Encode
  <2>1. UNCHANGED <<epoch, queue, retired>> /\ encoder # Nothing
    BY <1>14 DEF Release, Receive, Encode, producer
  <2>2. CASE encoder' = Nothing
    BY <1>2, <1>3, <1>5, <2>1, <2>2
  <2>3. CASE encoder' # Nothing
    <3>1. encoder \in Encoders /\ encoder.input \in Seq(Frame) /\ encoder.frame \in Seq(Frame)
      BY <2>1 DEF TypeInv, Encoders
    <3>2. CASE Release
      <4>1. encoder'.input = encoder.input /\ encoder'.frame = encoder.frame
        BY <3>1, <3>2 DEF Release, Encoders
      <4> QED
        BY <1>2, <1>13, <2>1, <2>3, <4>1
    <3>3. CASE Receive
      <4>1. PICK k \in Expired(encoder.input) :
               /\ Without(encoder.input, k) # <<>>
               /\ encoder' = [encoder EXCEPT !.input = Tail(Without(encoder.input, k)),
                                             !.frame = <<Head(Without(encoder.input, k))>>]
        BY <3>3 DEF Receive
      <4>2. Without(encoder.input, k) = encoder.input /\ encoder.frame = <<>>
        BY <1>1, <2>1, <3>1, <3>3, Takes, WithoutSome DEF Receive
      <4>3. /\ encoder'.input = Tail(encoder.input) /\ encoder'.frame = <<Head(encoder.input)>>
            /\ encoder.input # <<>>
        BY <3>1, <4>1, <4>2 DEF Encoders
      <4>4. /\ Head(encoder.input) \in Frame
            /\ Credits(encoder'.frame, epoch) = CreditOf(Head(encoder.input), epoch)
            /\ Credits(encoder'.input, epoch) + CreditOf(Head(encoder.input), epoch) <=
                  Credits(encoder.input, epoch)
            /\ Credits(encoder.frame, epoch) = 0
        BY <3>1, <4>2, <4>3, TailOf, TailCredits, FewCredits
      <4> QED
        BY <1>2, <1>13, <2>1, <2>3, <4>4
    <3>4. CASE Encode
      <4>1. encoder'.input = encoder.input /\ encoder'.frame = <<>>
        BY <3>1, <3>4 DEF Encode, Encoders
      <4> QED
        BY <1>2, <1>13, <2>1, <2>3, <4>1, FewCredits
    <3> QED
      BY <1>14, <3>2, <3>3, <3>4
  <2> QED
    BY <2>2, <2>3
<1>15. CASE RetiredEnds
  <2>1. UNCHANGED <<epoch, queue, encoder>> /\ Credits(retired', epoch) <= Credits(retired, epoch)
    BY <1>15, RemoveCredits DEF RetiredEnds, producer, TypeInv
  <2>2. EncoderCredits(epoch)' = EncoderCredits(epoch)
    BY <2>1 DEF EncoderCredits
  <2> QED
    BY <1>1, <1>2, <1>3, <1>4, <2>1, <2>2
<1>16. CASE SendEvent \/ Packet \/ End \/ EndedWhilePaused \/ UNCHANGED vars
  BY <1>6, <1>16 DEF SendEvent, Packet, End, EndedWhilePaused, vars, producer, TypeInv
<1> QED
  BY <1>1, <1>7, <1>8, <1>9, <1>10, <1>12, <1>14, <1>15, <1>16
  DEF Next, Producer, Runtime, Encoder, Realtime

----------------------------------------------------------------------------
(* Sound stays in line.                                                    *)

Live == encoder # Nothing /\ encoder.epoch = epoch /\ ~ended

LEMMA LineNone ==
    ASSUME NEW b \in BOOLEAN, NEW to \in Nat
    PROVE  /\ InLine(b, <<>>, to) /\ StartOf(<<>>, to) = to
           /\ \A s \in Seq(Frame) :
                 InLine(b, s, to) /\ (b => s = <<>>) => Reaches(b, StartOf(s, to), to)
<1>1. InLine(b, <<>>, to) /\ StartOf(<<>>, to) = to
  BY DEF InLine, StartOf
<1>2. ASSUME NEW s \in Seq(Frame), InLine(b, s, to), b => s = <<>>
      PROVE  Reaches(b, StartOf(s, to), to)
  <2>1. CASE s = <<>>
    BY <2>1 DEF StartOf, Reaches
  <2>2. CASE s # <<>>
    <3>1. s[1] \in Frame /\ 1 \in DOMAIN s /\ ~b
      BY <1>2, <2>2
    <3>2. End1(s[1]) <= to
      BY <1>2, <3>1 DEF InLine, Reaches
    <3> QED
      BY <2>2, <3>1, <3>2, FrameTypes DEF StartOf, Reaches
  <2> QED
    BY <2>1, <2>2
<1> QED
  BY <1>1, <1>2

LEMMA ProducerIsAt ==
    ASSUME TypeInv
    PROVE  position + progress \in Nat
<1>1. position \in Nat /\ progress \in Nat
  BY DEF TypeInv
<1> QED
  BY <1>1

LEMMA ProducerGetsTo ==
    ASSUME TypeInv'
    PROVE  position' + progress' \in Nat
<1>1. position' \in Nat /\ progress' \in Nat
  BY DEF TypeInv
<1>2. \A m, n \in Nat : m + n \in Nat
  OBVIOUS
<1> QED
  BY <1>1, <1>2, Zenon

(* The adapter queue and the producer move on, the encoder stays.          *)
LEMMA LineAdvances ==
    ASSUME TypeInv, TypeInv', LineInv, UNCHANGED <<buffered, encoder>>,
           InLine(buffered, queue'.frames, position' + progress'),
           Live' => /\ Live
                    /\ Reaches(buffered, StartOf(queue.frames, position + progress),
                                         StartOf(queue'.frames, position' + progress'))
    PROVE  LineInv'
<1> DEFINE at == position + progress
           to1 == StartOf(queue.frames, at)
           at1 == position' + progress'
           to2 == StartOf(queue'.frames, at1)
<1>1. /\ at \in Nat /\ at1 \in Nat /\ buffered \in BOOLEAN
      /\ queue.frames \in Seq(Frame) /\ queue'.frames \in Seq(Frame)
  <2>1. buffered \in BOOLEAN /\ queue.frames \in Seq(Frame) /\ queue'.frames \in Seq(Frame)
    BY DEF TypeInv
  <2> QED
    BY <2>1, ProducerIsAt, ProducerGetsTo
<1>2. to1 \in Nat /\ to2 \in Nat
  BY <1>1, StartIsNat
<1>3. ASSUME encoder # Nothing
      PROVE  \E to \in Nat : /\ encoder.epoch = epoch' /\ ~ended' => to = to2
                             /\ EncoderInLine(buffered, encoder, to)
  <2>1. PICK to \in Nat : /\ encoder.epoch = epoch /\ ~ended => to = to1
                          /\ EncoderInLine(buffered, encoder, to)
    BY <1>3 DEF LineInv
  <2> HIDE DEF to1, to2
  <2>2. CASE Live'
    <3>1. to = to1 /\ Reaches(buffered, to, to2)
      BY <2>1, <2>2 DEF Live, to1, to2
    <3>2. EncoderInLine(buffered, encoder, to2)
      BY <1>1, <1>2, <1>3, <2>1, <3>1, EncoderLater DEF TypeInv
    <3> QED
      BY <1>2, <3>2
  <2>3. CASE ~Live'
    BY <1>3, <2>1, <2>3 DEF Live
  <2> QED
    BY <2>2, <2>3
<1>4. InLine(buffered', queue'.frames, at1)
  OBVIOUS
<1> QED
  BY <1>3, <1>4 DEF LineInv

(* The encoder works, the rest stays.                                      *)
LEMMA LineEncoder ==
    ASSUME LineInv, UNCHANGED <<buffered, queue, position, progress, epoch, ended>>,
           encoder # Nothing,
           encoder' # Nothing =>
              /\ encoder'.epoch = encoder.epoch
              /\ \A to \in Nat : EncoderInLine(buffered, encoder, to) =>
                                    EncoderInLine(buffered, encoder', to)
    PROVE  LineInv'
  BY DEF LineInv

(* An encoder is replaced.                                                 *)
LEMMA LineFresh ==
    ASSUME TypeInv, LineInv, UNCHANGED <<buffered, queue, position, progress, epoch, ended>>,
           encoder' = Nothing \/ \E n \in Nat : encoder' = NewEncoder(n)
    PROVE  LineInv'
<1>1. /\ position + progress \in Nat /\ buffered \in BOOLEAN /\ queue.frames \in Seq(Frame)
      /\ StartOf(queue.frames, position + progress) \in Nat
  <2>1. position + progress \in Nat /\ buffered \in BOOLEAN /\ queue.frames \in Seq(Frame)
    BY DEF TypeInv
  <2> QED
    BY <2>1, StartIsNat
<1>2. encoder' # Nothing =>
         EncoderInLine(buffered, encoder', StartOf(queue.frames, position + progress))
  BY <1>1, EncoderFresh
<1> QED
  BY <1>1, <1>2 DEF LineInv

LEMMA AdmitsLine ==
    ASSUME TypeInv, TypeInv', LineInv, NEW f \in Frame, NEW k \in 0..Len(queue.frames), Admits(f, k)
    PROVE  LineInv'
<1> DEFINE s == Without(queue.frames, k)
<1>1. /\ queue.frames \in Seq(Frame) /\ buffered \in BOOLEAN /\ (buffered => k = 0)
      /\ f.at = position + progress /\ f.at \in Nat /\ position' + progress' = End1(f)
      /\ queue'.frames = Append(s, f) /\ s \in Seq(Frame)
  BY QueueFilled, FrameTypes DEF TypeInv, Admits
<1>2. InLine(buffered, queue.frames, f.at)
  BY <1>1 DEF LineInv
<1>3. InLine(buffered, s, f.at) /\ Reaches(buffered, StartOf(queue.frames, f.at), StartOf(s, f.at))
  BY <1>1, <1>2, LineWithout
<1> HIDE DEF s
<1>4. /\ InLine(buffered, Append(s, f), End1(f))
      /\ StartOf(Append(s, f), End1(f)) = StartOf(s, f.at)
  BY <1>1, <1>3, LineAppend
<1>5. Live' => Live
  BY DEF Live, Admits
<1> QED
  BY <1>1, <1>3, <1>4, <1>5, LineAdvances DEF Admits

LEMMA PopLine ==
    ASSUME TypeInv, TypeInv', EpochInv, CreditInv, LineInv, Pop
    PROVE  LineInv'
<1> DEFINE at == position + progress
           to1 == StartOf(queue.frames, at)
<1>1. /\ UNCHANGED <<buffered, position, progress, epoch, ended, seen>>
      /\ position' + progress' = at
      /\ \/ EndsBatch
         \/ \E k \in 0..Len(queue.frames) : (buffered => k = 0) /\ Pops(k)
  BY PopDoes
<1>2. /\ at \in Nat /\ buffered \in BOOLEAN /\ queue.frames \in Seq(Frame)
      /\ InLine(buffered, queue.frames, at) /\ to1 \in Nat
  BY StartIsNat DEF TypeInv, LineInv
<1>3. ASSUME UNCHANGED encoder PROVE Live' => Live
  BY <1>1, <1>3 DEF Live
<1>4. CASE EndsBatch
  <2>1. CASE UNCHANGED queue
    BY <1>1, <1>2, <1>3, <1>4, <2>1, LineAdvances DEF EndsBatch, Reaches
  <2>2. CASE queue'.frames = <<>> /\ (buffered => queue.frames = <<>>)
    <3>1. InLine(buffered, queue'.frames, at) /\ Reaches(buffered, to1, StartOf(queue'.frames, at))
      BY <1>2, <2>2, LineNone
    <3> QED
      BY <1>1, <1>3, <1>4, <3>1, LineAdvances DEF EndsBatch
  <2> QED
    BY <1>4, <2>1, <2>2 DEF EndsBatch, TypeInv
<1>5. ASSUME NEW k \in 0..Len(queue.frames), buffered => k = 0, Pops(k)
      PROVE  LineInv'
  <2> DEFINE s == Without(queue.frames, k)
             f == Head(s)
             to2 == StartOf(Tail(s), at)
  <2>1. /\ s \in Seq(Frame) /\ s # <<>> /\ queue'.frames = Tail(s) /\ queue.frames # <<>>
        /\ buffered => s = queue.frames
        /\ f \in Frame /\ f = s[1] /\ f.at \in Nat /\ End1(f) \in Nat /\ f.at <= End1(f)
        /\ Tail(s) \in Seq(Frame) /\ 1 + k \in DOMAIN queue.frames /\ f = queue.frames[1 + k]
        /\ batch # Nothing /\ batch.id = queue.id
        /\ Drops(f) \/ \E n \in 0..Len(encoder.input) : Writes(f, n)
    <3>1. /\ s \in Seq(Frame) /\ s # <<>> /\ queue'.frames = Tail(s)
          /\ Len(s) = Len(queue.frames) - k /\ (k = 0 => s = queue.frames)
          /\ \A i \in DOMAIN s : i + k \in DOMAIN queue.frames /\ s[i] = queue.frames[i + k]
          /\ batch # Nothing /\ batch.id = queue.id
          /\ Drops(f) \/ \E n \in 0..Len(encoder.input) : Writes(f, n)
      BY <1>2, <1>5, WithoutSome DEF Pops, TypeInv
    <3> HIDE DEF s
    <3>2. f \in Frame /\ f = s[1] /\ Tail(s) \in Seq(Frame) /\ 1 \in DOMAIN s
      BY <3>1, TailOf
    <3>3. f.at \in Nat /\ End1(f) \in Nat /\ f.at <= End1(f)
      BY <3>2, FrameTypes
    <3>4. queue.frames # <<>>
      BY <3>1, <3>2
    <3> QED
      BY <1>5, <3>1, <3>2, <3>3, <3>4
  <2>2. /\ InLine(buffered, s, at) /\ Reaches(buffered, to1, StartOf(s, at))
        /\ StartOf(s, at) = f.at
    BY <1>2, <1>5, <2>1, LineWithout DEF StartOf
  <2>3. InLine(buffered, Tail(s), at) /\ Reaches(buffered, End1(f), to2) /\ to2 \in Nat
    BY <1>2, <2>1, <2>2, LineTail, StartIsNat
  <2>4. seen = epoch /\ f.epoch = epoch /\ ~ended
    BY <2>1 DEF EpochInv, FramesInv, QueueInv
  <2> HIDE DEF s, f, to2, at, to1
  <2>5. CASE Drops(f)
    <3>1. UNCHANGED encoder
      BY <2>5 DEF Drops
    <3>2. CASE encoder = Nothing
      BY <1>1, <2>1, <2>3, <3>1, <3>2, LineAdvances DEF Live, at
    <3>3. CASE buffered /\ encoder # Nothing
      <4>1. f = Head(queue.frames)
        BY <2>1, <3>3 DEF f
      <4>2. RoomFor(encoder.input, f, InputSamples) # {}
        BY <2>1, <2>4, <3>3, <4>1, InputHasRoom DEF EpochInv
      <4> QED
        BY <2>4, <2>5, <3>3, <4>2 DEF Drops
    <3>4. CASE ~buffered
      <4>1. Reaches(buffered, to1, to2)
        BY <1>2, <2>1, <2>2, <2>3, <3>4 DEF Reaches
      <4> QED
        BY <1>1, <1>3, <2>1, <2>3, <3>1, <4>1, LineAdvances DEF at, to1, to2
    <3> QED
      BY <3>2, <3>3, <3>4
  <2>6. ASSUME NEW n \in 0..Len(encoder.input), Writes(f, n)
        PROVE  LineInv'
    <3> DEFINE w == [encoder EXCEPT !.input = Append(Without(@, n), f)]
    <3>1. encoder # Nothing /\ encoder' = w /\ (buffered => n = 0) /\ encoder \in Encoders
      BY <2>6 DEF Writes, TypeInv
    <3>2. encoder.epoch = epoch
      BY <2>4, <3>1 DEF EpochInv, FramesInv
    <3>3. EncoderInLine(buffered, encoder, to1)
      BY <2>4, <3>1, <3>2 DEF LineInv, at, to1
    <3>4. EncoderInLine(buffered, encoder, f.at)
      BY <1>2, <2>1, <2>2, <3>1, <3>3, EncoderLater
    <3>5. EncoderInLine(buffered, w, End1(f))
      BY <1>2, <2>1, <3>1, <3>4, EncoderWritten
    <3>6. EncoderInLine(buffered, w, to2)
      <4>1. Append(Without(encoder.input, n), f) \in Seq(Frame)
        BY <2>1, <3>1, WithoutSome, AppendTo DEF Encoders
      <4>2. w \in Encoders
        BY <3>1, <4>1 DEF Encoders
      <4> HIDE DEF w
      <4> QED
        BY <1>2, <2>1, <2>3, <3>5, <4>2, EncoderLater
    <3> HIDE DEF w
    <3> QED
      BY <1>1, <2>1, <2>3, <3>1, <3>6 DEF LineInv, at, to2
  <2> QED
    BY <2>1, <2>5, <2>6
<1> QED
  BY <1>1, <1>4, <1>5

LEMMA LineStep ==
    ASSUME TypeInv, TypeInv', EpochInv, CreditInv, LineInv, [Next]_vars
    PROVE  LineInv'
<1> DEFINE at == position + progress
<1>1. /\ at \in Nat /\ buffered \in BOOLEAN /\ queue.frames \in Seq(Frame) /\ seen \in Nat
      /\ seen' \in Nat
      /\ encoder # Nothing => encoder \in Encoders
  BY DEF TypeInv
<1>2. InLine(buffered, queue.frames, at) /\ StartOf(queue.frames, at) \in Nat
  BY <1>1, StartIsNat DEF LineInv
<1>3. ASSUME NEW f \in Frame, NEW k \in 0..Len(queue.frames), Admits(f, k)
      PROVE  LineInv'
  BY <1>3, AdmitsLine
<1>4. CASE Chunk
  BY <1>3, <1>4, ChunkAdmits
<1>5. ASSUME UNCHANGED <<buffered, encoder, epoch, ended>>, queue'.frames = queue.frames,
             position' + progress' \in Nat, Reaches(buffered, at, position' + progress')
      PROVE  LineInv'
  <2>1. /\ InLine(buffered, queue.frames, position' + progress')
        /\ Reaches(buffered, StartOf(queue.frames, at),
                             StartOf(queue.frames, position' + progress'))
    BY <1>1, <1>2, <1>5, LineLater
  <2>2. Live' => Live
    BY <1>5 DEF Live
  <2> HIDE DEF at
  <2> QED
    BY <1>5, <2>1, <2>2, LineAdvances DEF at
<1>6. CASE Realtime
  <2>1. CASE Skips
    <3>1. position' + progress' \in Nat
      BY ProducerGetsTo
    <3>2. Reaches(buffered, at, position' + progress')
      BY <1>1, <2>1, <3>1 DEF Skips, Reaches
    <3> QED
      BY <1>5, <2>1, <3>1, <3>2 DEF Skips
  <2> QED
    BY <1>3, <1>6, <2>1, RealtimeAdmits
<1>7. CASE SendEvent \/ Packet \/ EndedWhilePaused \/ RetiredEnds \/ UNCHANGED vars
  BY <1>1, <1>5, <1>7 DEF SendEvent, Packet, EndedWhilePaused, RetiredEnds, vars, producer, runtime,
                          Reaches
<1>8. CASE Flush \/ End
  <2>1. queue'.frames = <<>> /\ UNCHANGED <<buffered, encoder>>
    BY <1>8 DEF Flush, End, NewQueue, TypeInv
  <2>2. ~Live'
    BY <1>8 DEF Flush, End, Live, EpochInv, ChannelInv, FramesInv, TypeInv
  <2>3. position' + progress' \in Nat
    BY ProducerGetsTo
  <2>4. InLine(buffered, queue'.frames, position' + progress')
    BY <1>1, <2>1, <2>3, LineNone
  <2> QED
    BY <2>1, <2>2, <2>4, LineAdvances
<1>9. CASE BeginBatch
  <2>1. /\ UNCHANGED <<buffered, encoder, epoch, ended>> /\ position' + progress' = at
        /\ Live' => Live
    BY <1>9 DEF BeginBatch, producer, Live
  <2>2. CASE UNCHANGED queue
    BY <1>1, <1>5, <2>1, <2>2 DEF Reaches
  <2>3. ASSUME NEW k \in Expired(queue.frames),
               queue' = [queue EXCEPT !.frames = Without(@, k), !.notified = FALSE]
        PROVE  LineInv'
    <3>1. queue'.frames = Without(queue.frames, k)
      BY <2>3 DEF TypeInv
    <3>2. k \in 0..Len(queue.frames) /\ (buffered => k = 0)
      BY Fetches
    <3>3. /\ InLine(buffered, queue'.frames, at)
          /\ Reaches(buffered, StartOf(queue.frames, at), StartOf(queue'.frames, at))
      BY <1>1, <1>2, <3>1, <3>2, LineWithout
    <3> QED
      BY <2>1, <3>3, LineAdvances
  <2> QED
    BY <1>9, <2>2, <2>3 DEF BeginBatch
<1>10. CASE Pop
  BY <1>10, PopLine
<1>11. CASE Flushed \/ Stopped \/ Replace
  BY <1>1, <1>11, LineFresh DEF Flushed, Stopped, Replace, producer
<1>12. CASE Release \/ Receive \/ Encode
  <2>1. /\ encoder # Nothing /\ encoder \in Encoders
        /\ UNCHANGED <<buffered, queue, position, progress, epoch, ended>>
    BY <1>1, <1>12 DEF Release, Receive, Encode, producer
  <2>2. CASE Release
    BY <2>1, <2>2, LineEncoder DEF Release, Encoders, EncoderInLine
  <2>3. CASE Receive
    <3>1. PICK k \in Expired(encoder.input) :
             /\ Without(encoder.input, k) # <<>>
             /\ encoder' = [encoder EXCEPT !.input = Tail(Without(encoder.input, k)),
                                           !.frame = <<Head(Without(encoder.input, k))>>]
      BY <2>3 DEF Receive
    <3>2. encoder.frame = <<>> /\ k \in 0..Len(encoder.input) /\ (buffered => k = 0)
      BY <2>1, <2>3, Takes DEF Receive
    <3>3. ASSUME NEW to \in Nat, EncoderInLine(buffered, encoder, to)
          PROVE  EncoderInLine(buffered, encoder', to)
      BY <1>1, <2>1, <3>1, <3>2, <3>3, EncoderReceives
    <3>4. encoder'.epoch = encoder.epoch
      BY <2>1, <3>1 DEF Encoders
    <3> QED
      BY <2>1, <3>3, <3>4, LineEncoder
  <2>4. CASE Encode
    <3>1. encoder.frame # <<>> /\ Head(encoder.frame) = encoder.frame[1] /\ 1 \in DOMAIN encoder.frame
      BY <2>1, <2>4, TailOf DEF Encode, Encoders
    <3>2. Head(encoder.frame).epoch = encoder.epoch
      BY <2>1, <3>1 DEF EpochInv, FramesInv
    <3>3. \/ encoder' = [encoder EXCEPT !.frame = <<>>,
                                        !.next = Head(encoder.frame).at + Head(encoder.frame).size]
          \/ encoder.next = Nothing /\ encoder' = [encoder EXCEPT !.frame = <<>>]
      BY <2>4, <3>2 DEF Encode
    <3>4. ASSUME NEW to \in Nat, EncoderInLine(buffered, encoder, to)
          PROVE  EncoderInLine(buffered, encoder', to)
      BY <1>1, <2>1, <3>1, <3>3, <3>4, EncoderEncodes
    <3>5. encoder'.epoch = encoder.epoch
      BY <2>1, <3>3 DEF Encoders
    <3> QED
      BY <2>1, <3>4, <3>5, LineEncoder
  <2> QED
    BY <1>12, <2>2, <2>3, <2>4
<1> QED
  BY <1>4, <1>6, <1>7, <1>8, <1>9, <1>10, <1>11, <1>12 DEF Next, Producer, Runtime, Encoder

----------------------------------------------------------------------------
(* The theorems.                                                           *)

LEMMA Begins == Init => IInv
<1> SUFFICES ASSUME Init PROVE IInv
  OBVIOUS
<1>1. /\ queue = [id |-> 0, frames |-> <<>>, notified |-> FALSE] /\ events = <<>> /\ retired = <<>>
      /\ encoder = NewEncoder(0) /\ batch = Nothing /\ epoch = 0 /\ seen = 0
      /\ packet = 0 /\ progress = 0 /\ position = 0 /\ buffered \in BOOLEAN
      /\ unsent = FALSE /\ ended = FALSE
  BY DEF Init, NewQueue, NewEncoder
<1>2. TypeInv
  <2>1. queue \in [id : Nat, frames : Seq(Frame), notified : BOOLEAN] /\ retired \in Seq(Frame)
    BY <1>1, NoFrames
  <2>2. events \in Seq(Events)
    BY <1>1
  <2>3. encoder \in Encoders /\ Len(encoder.frame) \in {0, 1}
    BY <1>1, NewEncoderTypes
  <2>4. packet \in 0..PacketSamples
    BY <1>1, Constants
  <2> QED
    BY <1>1, <2>1, <2>2, <2>3, <2>4 DEF TypeInv
<1>3. ChannelInv /\ FramesInv /\ QueueInv
  BY <1>1, NewEncoderTypes DEF ChannelInv, FramesInv, QueueInv, Flushes, Announcements,
                               NoFrameForgotten
<1>4. CreditInv
  <2>1. InUse = 0
    <3>1. /\ Credits(queue.frames, epoch) = 0 /\ Credits(retired, epoch) = 0
          /\ EncoderCredits(epoch) = 0
      BY <1>1, NewEncoderTypes, FewCredits DEF EncoderCredits
    <3> QED
      BY <1>2, <3>1, InUseTypes
  <2> QED
    BY <2>1, Constants DEF CreditInv
<1>5. LineInv
  <2>1. InLine(buffered, queue.frames, 0) /\ StartOf(queue.frames, 0) = 0
    BY <1>1, LineNone
  <2>2. EncoderInLine(buffered, encoder, 0)
    BY <1>1, EncoderFresh
  <2>3. position + progress = 0 /\ 0 \in Nat
    BY <1>1
  <2> QED
    BY <2>1, <2>2, <2>3 DEF LineInv
<1> QED
  BY <1>2, <1>3, <1>4, <1>5 DEF IInv

LEMMA Keeps == IInv /\ [Next]_vars => IInv'
<1> SUFFICES ASSUME IInv, [Next]_vars PROVE IInv'
  OBVIOUS
<1>1. TypeInv /\ EpochInv /\ CreditInv /\ LineInv
  BY DEF IInv, EpochInv
<1>2. TypeInv'
  BY <1>1, TypeStep
<1>3. EpochInv' /\ CreditInv' /\ LineInv'
  BY <1>1, <1>2, EpochStep, CreditStep, LineStep
<1> QED
  BY <1>2, <1>3 DEF IInv, EpochInv

(* The invariant: the types, the channel to the runtime, whose sound is    *)
(* where, the announcements, the credits and the line of the sound.        *)
THEOREM Invariant == Spec => []IInv
  BY Begins, Keeps, PTL DEF Spec

(* Coalesced events never leave a frame in the adapter queue that neither  *)
(* an event nor the batch being drained will fetch.                        *)
THEOREM NoFrameForgottenHolds == Spec => []NoFrameForgotten
<1>1. IInv => NoFrameForgotten
  BY DEF IInv, QueueInv
<1> QED
  BY <1>1, Invariant, PTL

(* A drained queue holds sound of the runtime's epoch only, and an encoder *)
(* holds sound of its own epoch only.                                      *)
THEOREM EpochsAgreeHolds == Spec => []EpochsAgree
<1>1. IInv => EpochsAgree
  BY DEF IInv, FramesInv, EpochsAgree
<1> QED
  BY <1>1, Invariant, PTL

(* Buffered sound reaches the encoder without a gap or a repeat, realtime  *)
(* sound never out of order.                                               *)
THEOREM SoundInOrderHolds == Spec => []SoundInOrder
<1>1. IInv => SoundInOrder
  <2> SUFFICES ASSUME TypeInv, LineInv, encoder # Nothing, encoder.frame # <<>>, encoder.next # Nothing
               PROVE  IF buffered THEN Head(encoder.frame).at = encoder.next
                                  ELSE Head(encoder.frame).at >= encoder.next
    BY DEF IInv, SoundInOrder
  <2>1. Reaches(buffered, encoder.next, encoder.frame[1].at)
    BY DEF LineInv, EncoderInLine
  <2>2. encoder \in Encoders
    BY DEF TypeInv
  <2>3. encoder.next \in Nat /\ encoder.frame \in Seq(Frame)
    BY <2>2 DEF Encoders
  <2>4. Head(encoder.frame) = encoder.frame[1] /\ Head(encoder.frame) \in Frame
    BY <2>3, TailOf
  <2>5. Head(encoder.frame).at \in Nat
    BY <2>4, FrameTypes
  <2> QED
    BY <2>1, <2>3, <2>4, <2>5 DEF Reaches
<1> QED
  BY <1>1, Invariant, PTL
=============================================================================
