----------------------------- MODULE WireProofs -----------------------------
(***************************************************************************)
(* Proofs about Wire for fields and heads of any size, any number of       *)
(* messages, and bytes that are sent and received in pieces of any length. *)
(***************************************************************************)
EXTENDS Wire, SequenceTheorems, TLAPS

(* All that can be on the wire.                                            *)
Octet == (Fields \cup {"head"}) \X Nat \X Nat

(* s holds the fields in S that m does not leave at their default, each of *)
(* them once, from its first byte to its last.                             *)
Encodes(s, S, m) ==
    /\ s \in Seq(Octet)
    /\ \A i \in 1..Len(s) :
          /\ s[i][1] \in S /\ m[s[i][1]] # 0
          /\ s[i][3] \in 1..SizeOf(s[i][1], m[s[i][1]])
          /\ s[i] = <<s[i][1], m[s[i][1]], s[i][3]>>
    /\ \A i \in 1..Len(s) :
          /\ s[i][3] > 1 => i > 1 /\ s[i - 1] = <<s[i][1], s[i][2], s[i][3] - 1>>
          /\ s[i][3] < SizeOf(s[i][1], s[i][2])
                => i < Len(s) /\ s[i + 1] = <<s[i][1], s[i][2], s[i][3] + 1>>
    /\ \A f \in S : m[f] # 0 =>
          \E i \in 1..Len(s) : s[i][1] = f /\ \A j \in 1..Len(s) : s[j][1] = f => i >= j

-----------------------------------------------------------------------------
(* Fields and their encoding.                                              *)

(* Constants in the form the lemmas use them.                              *)
LEMMA Sizes ==
    /\ HeadSize \in Nat \ {0} /\ MaxSend \in Nat
    /\ \A m \in Message, f \in Fields :
          m[f] \in Nat /\ (m[f] # 0 => SizeOf(f, m[f]) \in Nat \ {0})
  <1>1. HeadSize \in Nat \ {0} /\ MaxSend \in Nat
    BY WireAssumption
  <1>2. ASSUME NEW m \in Message, NEW f \in Fields
        PROVE  m[f] \in Nat /\ (m[f] # 0 => SizeOf(f, m[f]) \in Nat \ {0})
    <2>1. m[f] \in 1..MaxSend \cup Ids \cup Methods \cup Contents \cup Errors \cup {0}
      BY DEF Message
    <2>2. m[f] \in Nat
      <3>1. 1..MaxSend \subseteq Nat
        BY <1>1
      <3>2. Ids \subseteq Nat /\ Methods \subseteq Nat /\ Contents \subseteq Nat /\ Errors \subseteq Nat
        BY WireAssumption
      <3>3. \A v \in 1..MaxSend \cup Ids \cup Methods \cup Contents \cup Errors \cup {0} : v \in Nat
        BY <3>1, <3>2
      <3> QED
        BY <2>1, <3>3
    <2>3. f \in {"id", "method", "content", "returnCode", "returnMsg"}
      BY DEF Fields
    <2>4. m[f] # 0 => SizeOf(f, m[f]) \in Nat \ {0}
      BY <2>1, <2>3, SizeAssumption
    <2> QED
      BY <2>2, <2>4
  <1> QED
    BY <1>1, <1>2

(* The bytes of one value.                                                 *)
LEMMA BytesFacts ==
    ASSUME NEW f \in Fields \cup {"head"}, NEW v \in Nat, NEW n \in Nat
    PROVE  /\ Bytes(f, v, n) \in Seq(Octet) /\ Len(Bytes(f, v, n)) = n
           /\ \A k \in 1..n : Bytes(f, v, n)[k] = <<f, v, k>>
  <1>1. \A k \in 1..n : <<f, v, k>> \in Octet
    BY DEF Octet
  <1> QED
    BY <1>1 DEF Bytes

LEMMA FieldFacts ==
    ASSUME NEW m \in Message, NEW f \in Fields
    PROVE  /\ m[f] \in Nat /\ FieldSize(f, m) \in Nat
           /\ m[f] # 0 => FieldSize(f, m) = SizeOf(f, m[f]) /\ FieldSize(f, m) > 0
           /\ m[f] = 0 => FieldSize(f, m) = 0 /\ Field(f, m) = <<>>
           /\ Field(f, m) \in Seq(Octet) /\ Len(Field(f, m)) = FieldSize(f, m)
           /\ \A k \in 1..FieldSize(f, m) : Field(f, m)[k] = <<f, m[f], k>>
  <1>1. m[f] \in Nat /\ (m[f] # 0 => SizeOf(f, m[f]) \in Nat \ {0})
    BY Sizes
  <1>2. CASE m[f] = 0
    BY <1>1, <1>2, EmptySeq DEF FieldSize, Field
  <1>3. CASE m[f] # 0
    <2>0. f \in Fields \cup {"head"}
      OBVIOUS
    <2>1. Field(f, m) = Bytes(f, m[f], SizeOf(f, m[f])) /\ FieldSize(f, m) = SizeOf(f, m[f])
      BY <1>3 DEF Field, FieldSize
    <2>2. SizeOf(f, m[f]) \in Nat /\ SizeOf(f, m[f]) > 0
      BY <1>1, <1>3
    <2> DEFINE t == Bytes(f, m[f], SizeOf(f, m[f]))
    <2>3. /\ t \in Seq(Octet) /\ Len(t) = SizeOf(f, m[f])
          /\ \A k \in 1..SizeOf(f, m[f]) : t[k] = <<f, m[f], k>>
      BY <1>1, <2>0, <2>2, BytesFacts
    <2> HIDE DEF t
    <2>4. Field(f, m) = t
      BY <2>1 DEF t
    <2> QED
      BY <1>1, <1>3, <2>1, <2>2, <2>3, <2>4
  <1> QED
    BY <1>2, <1>3

(* One more field behind the others.                                       *)
LEMMA EncodesMore ==
    ASSUME NEW m \in Message, NEW S \in SUBSET Fields, NEW s, Encodes(s, S, m),
           NEW f \in Fields \ S
    PROVE  Encodes(s \o Field(f, m), S \cup {f}, m)
  <1> DEFINE t == Field(f, m)
             u == s \o t
  <1>1. /\ m[f] \in Nat /\ t \in Seq(Octet) /\ Len(t) = FieldSize(f, m) /\ Len(t) \in Nat
        /\ \A k \in 1..Len(t) : t[k] = <<f, m[f], k>>
        /\ m[f] # 0 => Len(t) = SizeOf(f, m[f]) /\ Len(t) > 0
        /\ m[f] = 0 => Len(t) = 0
    BY FieldFacts
  <1>2. s \in Seq(Octet) /\ Len(s) \in Nat
    BY LenProperties DEF Encodes
  <1>3. /\ u \in Seq(Octet) /\ Len(u) = Len(s) + Len(t)
        /\ \A i \in 1..Len(s) : u[i] = s[i]
        /\ \A i \in 1..Len(t) : u[Len(s) + i] = <<f, m[f], i>>
    <2> HIDE DEF t
    <2>1. /\ u \in Seq(Octet) /\ Len(u) = Len(s) + Len(t)
          /\ \A i \in 1..(Len(s) + Len(t)) :
                u[i] = IF i <= Len(s) THEN s[i] ELSE t[i - Len(s)]
      BY <1>1, <1>2, ConcatProperties
    <2> HIDE DEF u
    <2>2. ASSUME NEW i \in 1..Len(t) PROVE u[Len(s) + i] = <<f, m[f], i>>
      <3>1. Len(s) + i \in 1..(Len(s) + Len(t)) /\ ~(Len(s) + i <= Len(s))
            /\ (Len(s) + i) - Len(s) = i
        BY <1>1, <1>2
      <3> QED
        BY <1>1, <2>1, <3>1
    <2>3. \A i \in 1..Len(s) : u[i] = s[i]
      BY <1>1, <1>2, <2>1
    <2> QED
      BY <2>1, <2>2, <2>3
  <1> HIDE DEF t, u
  <1>4. \A i \in 1..Len(u) : i \in 1..Len(s) \/ \E k \in 1..Len(t) : i = Len(s) + k
    <2> SUFFICES ASSUME NEW i \in 1..Len(u), i \notin 1..Len(s)
                 PROVE  \E k \in 1..Len(t) : i = Len(s) + k
      OBVIOUS
    <2>1. i - Len(s) \in 1..Len(t) /\ i = Len(s) + (i - Len(s))
      BY <1>1, <1>2, <1>3
    <2> QED
      BY <2>1
  <1>5. \A i \in 1..Len(u) :
          /\ u[i][1] \in S \cup {f} /\ m[u[i][1]] # 0
          /\ u[i][3] \in 1..SizeOf(u[i][1], m[u[i][1]])
          /\ u[i] = <<u[i][1], m[u[i][1]], u[i][3]>>
    <2> SUFFICES ASSUME NEW i \in 1..Len(u)
                 PROVE  /\ u[i][1] \in S \cup {f} /\ m[u[i][1]] # 0
                        /\ u[i][3] \in 1..SizeOf(u[i][1], m[u[i][1]])
                        /\ u[i] = <<u[i][1], m[u[i][1]], u[i][3]>>
      OBVIOUS
    <2>1. CASE i \in 1..Len(s)
      BY <1>3, <2>1 DEF Encodes
    <2>2. ASSUME NEW k \in 1..Len(t), i = Len(s) + k
          PROVE  /\ u[i][1] \in S \cup {f} /\ m[u[i][1]] # 0
                 /\ u[i][3] \in 1..SizeOf(u[i][1], m[u[i][1]])
                 /\ u[i] = <<u[i][1], m[u[i][1]], u[i][3]>>
      <3>1. u[i] = <<f, m[f], k>>
        BY <1>3, <2>2
      <3>2. u[i][1] = f /\ u[i][3] = k
        BY <3>1
      <3>3. m[f] # 0 /\ k \in 1..SizeOf(f, m[f])
        BY <1>1
      <3> QED
        BY <3>1, <3>2, <3>3
    <2> QED
      BY <1>4, <2>1, <2>2
  <1>6. \A i \in 1..Len(u) :
          /\ u[i][3] > 1 => i > 1 /\ u[i - 1] = <<u[i][1], u[i][2], u[i][3] - 1>>
          /\ u[i][3] < SizeOf(u[i][1], u[i][2])
                => i < Len(u) /\ u[i + 1] = <<u[i][1], u[i][2], u[i][3] + 1>>
    <2> SUFFICES ASSUME NEW i \in 1..Len(u)
                 PROVE  /\ u[i][3] > 1 => i > 1 /\ u[i - 1] = <<u[i][1], u[i][2], u[i][3] - 1>>
                        /\ u[i][3] < SizeOf(u[i][1], u[i][2])
                              => i < Len(u) /\ u[i + 1] = <<u[i][1], u[i][2], u[i][3] + 1>>
      OBVIOUS
    <2>1. CASE i \in 1..Len(s)
      <3>1. u[i] = s[i]
        BY <1>3, <2>1
      <3>2. /\ s[i][3] > 1 => i > 1 /\ s[i - 1] = <<s[i][1], s[i][2], s[i][3] - 1>>
            /\ s[i][3] < SizeOf(s[i][1], s[i][2])
                  => i < Len(s) /\ s[i + 1] = <<s[i][1], s[i][2], s[i][3] + 1>>
        BY <2>1 DEF Encodes
      <3>3. i > 1 => u[i - 1] = s[i - 1]
        BY <1>2, <1>3, <2>1
      <3>4. i < Len(s) => i < Len(u) /\ u[i + 1] = s[i + 1]
        BY <1>1, <1>2, <1>3, <2>1
      <3> QED
        BY <3>1, <3>2, <3>3, <3>4
    <2>2. ASSUME NEW k \in 1..Len(t), i = Len(s) + k
          PROVE  /\ u[i][3] > 1 => i > 1 /\ u[i - 1] = <<u[i][1], u[i][2], u[i][3] - 1>>
                 /\ u[i][3] < SizeOf(u[i][1], u[i][2])
                       => i < Len(u) /\ u[i + 1] = <<u[i][1], u[i][2], u[i][3] + 1>>
      <3>1. u[i] = <<f, m[f], k>>
        BY <1>3, <2>2
      <3>2. u[i][1] = f /\ u[i][2] = m[f] /\ u[i][3] = k /\ Len(t) = SizeOf(f, m[f])
        BY <1>1, <3>1
      <3>3. k > 1 => i > 1 /\ u[i - 1] = <<f, m[f], k - 1>>
        <4> HAVE k > 1
        <4>1. k - 1 \in 1..Len(t) /\ i - 1 = Len(s) + (k - 1) /\ i > 1
          BY <1>1, <1>2, <2>2
        <4> QED
          BY <1>3, <4>1
      <3>4. k < Len(t) => i < Len(u) /\ u[i + 1] = <<f, m[f], k + 1>>
        <4> HAVE k < Len(t)
        <4>1. k + 1 \in 1..Len(t) /\ i + 1 = Len(s) + (k + 1) /\ i < Len(u)
          BY <1>1, <1>2, <1>3, <2>2
        <4> QED
          BY <1>3, <4>1
      <3> QED
        BY <3>2, <3>3, <3>4
    <2> QED
      BY <1>4, <2>1, <2>2
  <1>7. \A g \in S \cup {f} : m[g] # 0 =>
          \E i \in 1..Len(u) : u[i][1] = g /\ \A j \in 1..Len(u) : u[j][1] = g => i >= j
    <2> SUFFICES ASSUME NEW g \in S \cup {f}, m[g] # 0
                 PROVE  \E i \in 1..Len(u) :
                            u[i][1] = g /\ \A j \in 1..Len(u) : u[j][1] = g => i >= j
      OBVIOUS
    <2>1. CASE g = f
      <3>1. Len(u) \in 1..Len(u) /\ Len(u) = Len(s) + Len(t) /\ Len(t) \in 1..Len(t)
        BY <1>1, <1>2, <1>3, <2>1
      <3>2. u[Len(u)][1] = g
        BY <1>3, <2>1, <3>1
      <3>3. \A j \in 1..Len(u) : Len(u) >= j
        BY <3>1
      <3> QED
        BY <3>1, <3>2, <3>3
    <2>2. CASE g \in S
      <3>1. PICK i \in 1..Len(s) : s[i][1] = g /\ \A j \in 1..Len(s) : s[j][1] = g => i >= j
        BY <2>2 DEF Encodes
      <3>2. i \in 1..Len(u) /\ u[i][1] = g
        <4>1. i \in 1..Len(u)
          BY <1>1, <1>2, <1>3
        <4>2. u[i] = s[i]
          BY <1>3
        <4> QED
          BY <3>1, <4>1, <4>2
      <3>3. ASSUME NEW j \in 1..Len(u), u[j][1] = g PROVE i >= j
        <4>1. ASSUME NEW k \in 1..Len(t), j = Len(s) + k PROVE FALSE
          <5>1. u[j][1] = f
            BY <1>3, <4>1
          <5> QED
            BY <2>2, <3>3, <5>1
        <4>2. j \in 1..Len(s) /\ s[j][1] = g
          BY <1>3, <1>4, <3>3, <4>1
        <4> QED
          BY <3>1, <4>2
      <3> QED
        BY <3>2, <3>3
    <2> QED
      BY <2>1, <2>2
  <1>8. Encodes(u, S \cup {f}, m)
    BY <1>3, <1>5, <1>6, <1>7 DEF Encodes
  <1> QED
    BY <1>8 DEF u, t

(* The encoding of a whole message.                                        *)
LEMMA SerializeFacts ==
    ASSUME NEW m \in Message
    PROVE  /\ Encodes(Serialize(m), Fields, m)
           /\ Serialize(m) \in Seq(Octet)
           /\ ByteSize(m) \in Nat /\ Len(Serialize(m)) = ByteSize(m)
  <1> DEFINE a == Field("id", m)
             b == a \o Field("method", m)
             c == b \o Field("content", m)
             d == c \o Field("returnCode", m)
             e == d \o Field("returnMsg", m)
  <1>1. /\ "id" \in Fields /\ "method" \in Fields /\ "content" \in Fields
        /\ "returnCode" \in Fields /\ "returnMsg" \in Fields
    BY DEF Fields
  <1>2. Serialize(m) = e
    BY DEF Serialize
  <1>3. Encodes(<<>>, {}, m)
    BY EmptySeq DEF Encodes
  <1>4. <<>> \o a = a
    BY <1>1, FieldFacts, ConcatEmptySeq
  <1>5. Encodes(a, {"id"}, m)
    <2>1. Encodes(<<>> \o Field("id", m), {} \cup {"id"}, m)
      BY <1>1, <1>3, EncodesMore
    <2> QED
      BY <1>4, <2>1
  <1>6. Encodes(b, {"id", "method"}, m)
    <2>1. Encodes(b, {"id"} \cup {"method"}, m)
      BY <1>1, <1>5, EncodesMore
    <2>2. {"id"} \cup {"method"} = {"id", "method"}
      OBVIOUS
    <2> QED
      BY <2>1, <2>2
  <1>7. Encodes(c, {"id", "method", "content"}, m)
    <2>1. Encodes(c, {"id", "method"} \cup {"content"}, m)
      BY <1>1, <1>6, EncodesMore
    <2>2. {"id", "method"} \cup {"content"} = {"id", "method", "content"}
      OBVIOUS
    <2> QED
      BY <2>1, <2>2
  <1>8. Encodes(d, {"id", "method", "content", "returnCode"}, m)
    <2>1. Encodes(d, {"id", "method", "content"} \cup {"returnCode"}, m)
      BY <1>1, <1>7, EncodesMore
    <2>2. {"id", "method", "content"} \cup {"returnCode"}
          = {"id", "method", "content", "returnCode"}
      OBVIOUS
    <2> QED
      BY <2>1, <2>2
  <1>9. Encodes(e, Fields, m)
    <2>1. Encodes(e, {"id", "method", "content", "returnCode"} \cup {"returnMsg"}, m)
      BY <1>1, <1>8, EncodesMore
    <2>2. {"id", "method", "content", "returnCode"} \cup {"returnMsg"} = Fields
      BY DEF Fields
    <2> QED
      BY <2>1, <2>2
  <1>10. ByteSize(m) \in Nat /\ Len(e) = ByteSize(m)
    <2>1. ASSUME NEW s \in Seq(Octet), NEW f \in Fields
          PROVE  s \o Field(f, m) \in Seq(Octet) /\ Len(s \o Field(f, m)) = Len(s) + FieldSize(f, m)
      <3>1. Field(f, m) \in Seq(Octet) /\ Len(Field(f, m)) = FieldSize(f, m)
        BY FieldFacts
      <3> QED
        BY <3>1, ConcatProperties
    <2>2. a \in Seq(Octet) /\ Len(a) = FieldSize("id", m)
      BY <1>1, FieldFacts
    <2> HIDE DEF a
    <2>3. b \in Seq(Octet) /\ Len(b) = Len(a) + FieldSize("method", m)
      BY <1>1, <2>1, <2>2
    <2> HIDE DEF b
    <2>4. c \in Seq(Octet) /\ Len(c) = Len(b) + FieldSize("content", m)
      BY <1>1, <2>1, <2>3
    <2> HIDE DEF c
    <2>5. d \in Seq(Octet) /\ Len(d) = Len(c) + FieldSize("returnCode", m)
      BY <1>1, <2>1, <2>4
    <2> HIDE DEF d
    <2>6. Len(e) = Len(d) + FieldSize("returnMsg", m)
      BY <1>1, <2>1, <2>5
    <2> HIDE DEF e
    <2>7. /\ FieldSize("id", m) \in Nat /\ FieldSize("method", m) \in Nat
          /\ FieldSize("content", m) \in Nat /\ FieldSize("returnCode", m) \in Nat
          /\ FieldSize("returnMsg", m) \in Nat
      BY <1>1, FieldFacts
    <2>8. Len(c) = FieldSize("id", m) + FieldSize("method", m) + FieldSize("content", m)
      BY <2>2, <2>3, <2>4
    <2>9. Len(e) = Len(c) + (FieldSize("returnCode", m) + FieldSize("returnMsg", m))
      BY <2>5, <2>6, <2>7, <2>4
    <2>10. ByteSize(m) \in Nat
      BY <2>7 DEF ByteSize
    <2>11. ByteSize(m) = (FieldSize("id", m) + FieldSize("method", m) + FieldSize("content", m))
                        + (FieldSize("returnCode", m) + FieldSize("returnMsg", m))
      BY <2>7 DEF ByteSize
    <2> QED
      BY <2>8, <2>9, <2>10, <2>11
  <1> HIDE DEF e
  <1> QED
    BY <1>2, <1>9, <1>10 DEF Encodes

(* Parsing undoes it.                                                      *)
LEMMA ParsingFacts ==
    ASSUME NEW m \in Message, NEW s, Encodes(s, Fields, m)
    PROVE  Parses(s) /\ Parsed(s) = m
  <1>1. Parses(s)
    BY DEF Encodes, Parses
  <1>2. ASSUME NEW f \in Fields PROVE Parsed(s)[f] = m[f]
    <2> DEFINE at == {i \in 1..Len(s) : s[i][1] = f}
    <2>1. Parsed(s)[f] = IF at = {} THEN 0
                         ELSE s[CHOOSE i \in at : \A j \in at : i >= j][2]
      BY DEF Parsed
    <2>2. \A i \in at : m[f] # 0 /\ s[i][2] = m[f]
      BY DEF Encodes
    <2>3. CASE at = {}
      <3>1. m[f] = 0
        BY <2>3 DEF Encodes
      <3> QED
        BY <2>1, <2>3, <3>1
    <2>4. CASE at # {}
      <3>1. m[f] # 0
        BY <2>2, <2>4
      <3>2. \E i \in at : \A j \in at : i >= j
        BY <3>1 DEF Encodes
      <3>3. (CHOOSE i \in at : \A j \in at : i >= j) \in at
        BY <3>2
      <3> HIDE DEF at
      <3> QED
        BY <2>1, <2>2, <2>4, <3>3
    <2> QED
      BY <2>3, <2>4
  <1>3. Parsed(s) = [f \in Fields |-> Parsed(s)[f]]
    BY DEF Parsed
  <1>4. m = [f \in Fields |-> m[f]]
    BY DEF Message
  <1> QED
    BY <1>1, <1>2, <1>3, <1>4

-----------------------------------------------------------------------------
(* What a message is on the wire.                                          *)

Frame(m) == Head4(ByteSize(m)) \o Serialize(m)

Size(m) == HeadSize + ByteSize(m)

LEMMA HeadFacts ==
    ASSUME NEW n \in Nat
    PROVE  /\ Head4(n) \in Seq(Octet) /\ Len(Head4(n)) = HeadSize
           /\ \A k \in 1..HeadSize : Head4(n)[k] = <<"head", n, k>>
  <1>1. HeadSize \in Nat /\ "head" \in Fields \cup {"head"}
    BY Sizes
  <1> QED
    BY <1>1, BytesFacts DEF Head4

LEMMA FrameFacts ==
    ASSUME NEW m \in Message
    PROVE  /\ Frame(m) \in Seq(Octet) /\ Len(Frame(m)) = Size(m)
           /\ ByteSize(m) \in Nat /\ Size(m) \in Nat /\ Size(m) = HeadSize + ByteSize(m)
           /\ HeadSize \in Nat /\ HeadSize > 0
           /\ \A k \in 1..HeadSize : Frame(m)[k] = <<"head", ByteSize(m), k>>
           /\ \A k \in 1..ByteSize(m) : Frame(m)[HeadSize + k] = Serialize(m)[k]
  <1> DEFINE h == Head4(ByteSize(m))
             b == Serialize(m)
             n == ByteSize(m)
  <1>1. HeadSize \in Nat /\ HeadSize > 0
    BY Sizes
  <1>2. b \in Seq(Octet) /\ n \in Nat /\ Len(b) = n
    BY SerializeFacts
  <1>3. h \in Seq(Octet) /\ Len(h) = HeadSize /\ \A k \in 1..HeadSize : h[k] = <<"head", n, k>>
    BY <1>2, HeadFacts
  <1>4. Frame(m) = h \o b /\ Size(m) = HeadSize + n
    BY DEF Frame, Size
  <1> HIDE DEF h, b, n
  <1>5. /\ h \o b \in Seq(Octet) /\ Len(h \o b) = Len(h) + Len(b)
        /\ \A i \in 1..(Len(h) + Len(b)) : (h \o b)[i] = IF i <= Len(h) THEN h[i] ELSE b[i - Len(h)]
    BY <1>2, <1>3, ConcatProperties
  <1>6. ASSUME NEW k \in 1..HeadSize PROVE (h \o b)[k] = <<"head", n, k>>
    <2>1. k \in 1..(Len(h) + Len(b)) /\ k <= Len(h)
      BY <1>1, <1>2, <1>3
    <2> QED
      BY <1>3, <1>5, <2>1
  <1>7. ASSUME NEW k \in 1..n PROVE (h \o b)[HeadSize + k] = b[k]
    <2>1. /\ HeadSize + k \in 1..(Len(h) + Len(b)) /\ ~(HeadSize + k <= Len(h))
          /\ (HeadSize + k) - Len(h) = k
      BY <1>1, <1>2, <1>3
    <2> QED
      BY <1>5, <2>1
  <1>8. n = ByteSize(m) /\ b = Serialize(m)
    BY DEF n, b
  <1> QED
    BY <1>1, <1>2, <1>3, <1>4, <1>5, <1>6, <1>7, <1>8

(* Concatenation, with what is needed of it below.                         *)
Cat(s, t) == s \o t

LEMMA Regroup ==
    /\ \A s, t \in Seq(Octet) : Cat(s, t) \in Seq(Octet)
    /\ \A s, t, u \in Seq(Octet) : Cat(Cat(s, t), u) = Cat(s, Cat(t, u))
    /\ \A s \in Seq(Octet) : Cat(s, <<>>) = s /\ Cat(<<>>, s) = s
  <1>1. ASSUME NEW s \in Seq(Octet), NEW t \in Seq(Octet) PROVE Cat(s, t) \in Seq(Octet)
    BY ConcatProperties DEF Cat
  <1>2. ASSUME NEW s \in Seq(Octet), NEW t \in Seq(Octet), NEW u \in Seq(Octet)
        PROVE  Cat(Cat(s, t), u) = Cat(s, Cat(t, u))
    BY ConcatAssociative DEF Cat
  <1>3. ASSUME NEW s \in Seq(Octet) PROVE Cat(s, <<>>) = s /\ Cat(<<>>, s) = s
    BY ConcatEmptySeq DEF Cat
  <1> QED
    BY <1>1, <1>2, <1>3

OnlyId(id) == [Default EXCEPT !["id"] = id]

WithId(id, method, content, error) == [Answer(method, content, error) EXCEPT !["id"] = id]

(* An id in front of a kept answer is the answer with that id.             *)
LEMMA CachedFacts ==
    ASSUME NEW id \in Ids, NEW method \in Methods \cup {0}, NEW content \in Contents \cup {0},
           NEW error \in Errors \cup {0}
    PROVE  LET m    == OnlyId(id)
               data == Cached(method, content, error)
               full == WithId(id, method, content, error) IN
           /\ full \in Message /\ data \in Seq(Octet)
           /\ Head4(ByteSize(m) + Len(data)) \o Serialize(m) \in Seq(Octet)
           /\ (Head4(ByteSize(m) + Len(data)) \o Serialize(m)) \o data = Frame(full)
  <1> SUFFICES ASSUME NEW m, m = [Default EXCEPT !["id"] = id],
                      NEW data, data = Cached(method, content, error),
                      NEW full, full = [Answer(method, content, error) EXCEPT !["id"] = id]
               PROVE  /\ full \in Message /\ data \in Seq(Octet)
                      /\ Head4(ByteSize(m) + Len(data)) \o Serialize(m) \in Seq(Octet)
                      /\ (Head4(ByteSize(m) + Len(data)) \o Serialize(m)) \o data = Frame(full)
    BY DEF OnlyId, WithId
  <1> DEFINE ans == Answer(method, content, error)
             p == Field("id", m)
             a == Field("method", full)
             b == Field("content", full)
             c == Field("returnCode", full)
             d == Field("returnMsg", full)
             h == Head4(ByteSize(full))
  <1>1. /\ "id" \in Fields /\ "method" \in Fields /\ "content" \in Fields
        /\ "returnCode" \in Fields /\ "returnMsg" \in Fields
    BY DEF Fields
  <1>2. m \in Message /\ ans \in Message /\ full \in Message
    BY DEF Message, Default, Answer, Fields
  <1>3. /\ m["id"] = id /\ m["method"] = 0 /\ m["content"] = 0
        /\ m["returnCode"] = 0 /\ m["returnMsg"] = 0
    BY <1>1 DEF Default
  <1>4. /\ ans["id"] = 0 /\ full["id"] = id
        /\ \A f \in Fields \ {"id"} : full[f] = ans[f]
    BY <1>1 DEF Answer
  <1>5. \A f \in Fields \ {"id"} : /\ Field(f, full) = Field(f, ans)
                                   /\ FieldSize(f, full) = FieldSize(f, ans)
                                   /\ Field(f, m) = <<>> /\ FieldSize(f, m) = 0
    BY <1>3, <1>4 DEF Field, FieldSize, Fields
  <1>6. /\ Field("id", full) = p /\ FieldSize("id", full) = FieldSize("id", m)
        /\ Field("id", ans) = <<>> /\ FieldSize("id", ans) = 0
    BY <1>3, <1>4 DEF Field, FieldSize
  <1>7. /\ p \in Seq(Octet) /\ a \in Seq(Octet) /\ b \in Seq(Octet)
        /\ c \in Seq(Octet) /\ d \in Seq(Octet)
    BY <1>1, <1>2, FieldFacts
  <1>8. Serialize(full) = Cat(Cat(Cat(Cat(p, a), b), c), d)
    BY <1>6 DEF Serialize, Cat
  <1>9. data = Cat(Cat(Cat(Cat(<<>>, a), b), c), d)
    BY <1>1, <1>5, <1>6 DEF Serialize, Cached, Cat
  <1>10. Serialize(m) = Cat(Cat(Cat(Cat(p, <<>>), <<>>), <<>>), <<>>)
    BY <1>1, <1>5 DEF Serialize, Cat
  <1>11. ByteSize(full) = ByteSize(m) + ByteSize(ans)
    <2>1. \A f \in Fields : FieldSize(f, full) \in Nat
      BY <1>2, FieldFacts
    <2> DEFINE i == FieldSize("id", full)
               x == FieldSize("method", full)
               y == FieldSize("content", full)
               z == FieldSize("returnCode", full)
               w == FieldSize("returnMsg", full)
    <2>2. i \in Nat /\ x \in Nat /\ y \in Nat /\ z \in Nat /\ w \in Nat
      BY <1>1, <2>1
    <2>3. /\ FieldSize("method", ans) = x /\ FieldSize("content", ans) = y
          /\ FieldSize("returnCode", ans) = z /\ FieldSize("returnMsg", ans) = w
      BY <1>1, <1>5
    <2>4. /\ FieldSize("method", m) = 0 /\ FieldSize("content", m) = 0
          /\ FieldSize("returnCode", m) = 0 /\ FieldSize("returnMsg", m) = 0
      BY <1>1, <1>5
    <2>5. FieldSize("id", m) = i /\ FieldSize("id", ans) = 0
      BY <1>6
    <2>6. ByteSize(full) = x + y + w + i + z
      BY DEF ByteSize
    <2> HIDE DEF i, x, y, z, w
    <2>7. ByteSize(m) = i
      BY <2>2, <2>4, <2>5 DEF ByteSize
    <2>8. ByteSize(ans) = x + y + w + z
      BY <2>2, <2>3, <2>5 DEF ByteSize
    <2> QED
      BY <2>2, <2>6, <2>7, <2>8
  <1>12. Len(data) = ByteSize(ans)
    <2>1. data = Serialize(ans)
      BY DEF Cached
    <2> QED
      BY <1>2, <2>1, SerializeFacts
  <1>13. h \in Seq(Octet)
    BY <1>2, SerializeFacts, HeadFacts
  <1>14. Head4(ByteSize(m) + Len(data)) = h
    BY <1>11, <1>12
  <1> HIDE DEF p, a, b, c, d, h
  <1>15. Serialize(m) = p
    BY <1>7, <1>10, Regroup
  <1>16. data = Cat(Cat(Cat(a, b), c), d)
    BY <1>7, <1>9, Regroup
  <1>17. data \in Seq(Octet) /\ Cat(h, p) \in Seq(Octet)
    BY <1>7, <1>13, <1>16, Regroup
  <1>18. Serialize(full) = Cat(p, data)
    <2>1. Cat(a, b) \in Seq(Octet) /\ Cat(Cat(a, b), c) \in Seq(Octet)
      BY <1>7, Regroup
    <2>2. Cat(Cat(p, a), b) = Cat(p, Cat(a, b))
      BY <1>7, Regroup
    <2>3. Cat(Cat(p, Cat(a, b)), c) = Cat(p, Cat(Cat(a, b), c))
      BY <1>7, <2>1, Regroup
    <2>4. Cat(Cat(p, Cat(Cat(a, b), c)), d) = Cat(p, Cat(Cat(Cat(a, b), c), d))
      BY <1>7, <2>1, Regroup
    <2> QED
      BY <1>8, <1>16, <2>2, <2>3, <2>4
  <1>19. Cat(Cat(h, p), data) = Cat(h, Cat(p, data))
    BY <1>7, <1>13, <1>17, Regroup
  <1>20. Frame(full) = Cat(h, Serialize(full))
    BY DEF Frame, h, Cat
  <1>21. (Head4(ByteSize(m) + Len(data)) \o Serialize(m)) \o data = Cat(Cat(h, p), data)
    BY <1>14, <1>15 DEF Cat
  <1>22. Head4(ByteSize(m) + Len(data)) \o Serialize(m) \in Seq(Octet)
    BY <1>14, <1>15, <1>17 DEF Cat
  <1> QED
    BY <1>2, <1>17, <1>18, <1>19, <1>20, <1>21, <1>22

-----------------------------------------------------------------------------
(* The stream of bytes that the messages ms are.                           *)

(* The i-th message of ms begins behind the byte pos[i].                   *)
Places(pos, ms) ==
    /\ pos \in [1..(Len(ms) + 1) -> Nat] /\ pos[1] = 0
    /\ \A i \in 1..Len(ms) : pos[i + 1] = pos[i] + Size(ms[i])
    /\ \A i, j \in 1..(Len(ms) + 1) : i <= j => pos[i] <= pos[j]

(* The bytes of bs are those of the stream that come after the first n.    *)
Carries(pos, ms, n, bs) ==
    \A i \in 1..Len(ms) : \A k \in 1..Size(ms[i]) :
        n < pos[i] + k /\ pos[i] + k <= n + Len(bs)
            => bs[(pos[i] + k) - n] = Frame(ms[i])[k]

(* Another message begins where the stream has ended so far.               *)
LEMMA PlacesMore ==
    ASSUME NEW ms \in Seq(Message), NEW pos, Places(pos, ms), NEW m \in Message
    PROVE  \E q : Places(q, Append(ms, m)) /\ \A i \in 1..(Len(ms) + 1) : q[i] = pos[i]
  <1> DEFINE n == Len(ms)
             all == Append(ms, m)
             q == [i \in 1..(n + 2) |-> IF i <= n + 1 THEN pos[i] ELSE pos[n + 1] + Size(m)]
  <1>1. /\ n \in Nat /\ Size(m) \in Nat /\ Len(all) = n + 1
        /\ all[n + 1] = m /\ \A i \in 1..n : all[i] = ms[i]
    BY FrameFacts
  <1> HIDE DEF all
  <1>2. /\ \A i \in 1..(n + 1) : pos[i] \in Nat
        /\ \A i \in 1..n : pos[i + 1] = pos[i] + Size(ms[i])
        /\ \A i, j \in 1..(n + 1) : i <= j => pos[i] <= pos[j]
        /\ pos[1] = 0
    BY DEF Places
  <1> HIDE DEF n
  <1>3. \A i \in 1..(n + 1) : q[i] = pos[i]
    BY <1>1
  <1>4. q[n + 2] = pos[n + 1] + Size(m)
    BY <1>1
  <1>5. q \in [1..(Len(all) + 1) -> Nat]
    <2>1. \A i \in 1..(n + 2) : (IF i <= n + 1 THEN pos[i] ELSE pos[n + 1] + Size(m)) \in Nat
      BY <1>1, <1>2
    <2>2. Len(all) + 1 = n + 2
      BY <1>1
    <2> QED
      BY <2>1, <2>2
  <1> HIDE DEF q
  <1>6. q[1] = 0
    BY <1>1, <1>2, <1>3
  <1>7. ASSUME NEW i \in 1..Len(all) PROVE q[i + 1] = q[i] + Size(all[i])
    <2>1. CASE i = n + 1
      BY <1>1, <1>3, <1>4, <2>1
    <2>2. CASE i \in 1..n
      <3>1. i \in 1..(n + 1) /\ i + 1 \in 1..(n + 1)
        BY <1>1, <2>2
      <3> QED
        BY <1>1, <1>2, <1>3, <2>2, <3>1
    <2> QED
      BY <1>1, <2>1, <2>2
  <1>8. ASSUME NEW i \in 1..(Len(all) + 1), NEW j \in 1..(Len(all) + 1), i <= j
        PROVE  q[i] <= q[j]
    <2>1. CASE j = n + 2 /\ i # n + 2
      <3>1. i \in 1..(n + 1) /\ n + 1 \in 1..(n + 1) /\ i <= n + 1
        BY <1>1, <2>1
      <3>2. pos[i] <= pos[n + 1] /\ pos[i] \in Nat /\ pos[n + 1] \in Nat
        BY <1>2, <3>1
      <3> QED
        BY <1>1, <1>3, <1>4, <2>1, <3>1, <3>2
    <2>2. CASE i = n + 2 /\ j = n + 2
      <3>1. pos[n + 1] \in Nat
        BY <1>1, <1>2
      <3> QED
        BY <1>1, <1>4, <2>2, <3>1
    <2>3. CASE i \in 1..(n + 1) /\ j \in 1..(n + 1)
      BY <1>2, <1>3, <1>8, <2>3
    <2> QED
      BY <1>1, <1>8, <2>1, <2>2, <2>3
  <1>9. Places(q, all)
    BY <1>5, <1>6, <1>7, <1>8 DEF Places
  <1> QED
    BY <1>3, <1>9 DEF all, n

LEMMA PlaceFacts ==
    ASSUME NEW ms \in Seq(Message), NEW pos, Places(pos, ms), NEW i \in 1..Len(ms)
    PROVE  /\ ms[i] \in Message /\ Size(ms[i]) \in Nat /\ Size(ms[i]) > 0
           /\ pos[i] \in Nat /\ pos[i + 1] \in Nat /\ pos[i + 1] = pos[i] + Size(ms[i])
           /\ \A j \in 1..(Len(ms) + 1) : i < j => pos[i + 1] <= pos[j]
  <1>1. Len(ms) \in Nat /\ ms[i] \in Message
    OBVIOUS
  <1>2. i \in 1..(Len(ms) + 1) /\ i + 1 \in 1..(Len(ms) + 1)
    BY <1>1
  <1>3. /\ Size(ms[i]) \in Nat /\ Size(ms[i]) = HeadSize + ByteSize(ms[i])
        /\ HeadSize \in Nat /\ HeadSize > 0 /\ ByteSize(ms[i]) \in Nat
    BY <1>1, FrameFacts
  <1>4. Size(ms[i]) > 0
    BY <1>3
  <1>5. pos[i] \in Nat /\ pos[i + 1] \in Nat /\ pos[i + 1] = pos[i] + Size(ms[i])
    BY <1>2 DEF Places
  <1>6. ASSUME NEW j \in 1..(Len(ms) + 1), i < j PROVE pos[i + 1] <= pos[j]
    <2>1. i + 1 <= j
      BY <1>1, <1>6
    <2> QED
      BY <1>2, <2>1 DEF Places
  <1> QED
    BY <1>1, <1>3, <1>4, <1>5, <1>6

(* What is under way is none of it.                                        *)
LEMMA CarriesMore ==
    ASSUME NEW ms \in Seq(Message), NEW m \in Message, NEW pos, Places(pos, ms),
           NEW q, Places(q, Append(ms, m)), \A i \in 1..(Len(ms) + 1) : q[i] = pos[i],
           NEW n \in Nat, NEW bs \in Seq(Octet), Carries(pos, ms, n, bs),
           n + Len(bs) <= pos[Len(ms) + 1]
    PROVE  Carries(q, Append(ms, m), n, bs)
  <1> DEFINE l == Len(ms)
             all == Append(ms, m)
  <1>1. /\ l \in Nat /\ Len(all) = l + 1
        /\ all[l + 1] = m /\ \A i \in 1..l : all[i] = ms[i]
    OBVIOUS
  <1>2. l + 1 \in 1..(l + 1) /\ pos[l + 1] \in Nat /\ Len(bs) \in Nat
    BY <1>1 DEF Places
  <1> HIDE DEF all
  <1> SUFFICES ASSUME NEW i \in 1..Len(all), NEW k \in 1..Size(all[i]),
                      n < q[i] + k, q[i] + k <= n + Len(bs)
               PROVE  bs[(q[i] + k) - n] = Frame(all[i])[k]
    BY DEF Carries, all
  <1>3. CASE i = l + 1
    <2>1. q[i] = pos[l + 1] /\ Size(all[i]) \in Nat /\ k \in Nat /\ k > 0
      BY <1>1, <1>2, <1>3, FrameFacts
    <2> QED
      BY <1>2, <2>1
  <1>4. CASE i \in 1..l
    <2>1. q[i] = pos[i] /\ all[i] = ms[i]
      BY <1>1, <1>4
    <2> QED
      BY <1>4, <2>1 DEF Carries
  <1> QED
    BY <1>1, <1>3, <1>4

(* A byte has one place in one message.                                    *)
LEMMA OnePlace ==
    ASSUME NEW ms \in Seq(Message), NEW pos, Places(pos, ms),
           NEW i \in 1..Len(ms), NEW j \in 1..Len(ms), NEW k \in Nat, NEW l \in Nat,
           0 < k, k <= Size(ms[i]), 0 < l, l <= Size(ms[j]), pos[i] + k = pos[j] + l
    PROVE  i = j /\ k = l
  <1>1. Len(ms) \in Nat /\ i \in 1..(Len(ms) + 1) /\ j \in 1..(Len(ms) + 1)
    OBVIOUS
  <1>2. /\ pos[i] \in Nat /\ Size(ms[i]) \in Nat /\ pos[i + 1] = pos[i] + Size(ms[i])
        /\ i < j => pos[i + 1] <= pos[j]
    BY <1>1, PlaceFacts
  <1>3. /\ pos[j] \in Nat /\ Size(ms[j]) \in Nat /\ pos[j + 1] = pos[j] + Size(ms[j])
        /\ j < i => pos[j + 1] <= pos[i]
    BY <1>1, PlaceFacts
  <1>4. ~(i < j)
    BY <1>2, <1>3
  <1>5. ~(j < i)
    BY <1>2, <1>3
  <1>6. i = j
    BY <1>4, <1>5
  <1> QED
    BY <1>2, <1>6

(* Another piece of the message that is being written.                     *)
LEMMA CarriesWritten ==
    ASSUME NEW ms \in Seq(Message), NEW pos, Places(pos, ms), NEW n \in Nat,
           NEW bs \in Seq(Octet), Carries(pos, ms, n, bs),
           NEW j \in 1..Len(ms), NEW w \in Nat, NEW c \in Nat, w + c <= Size(ms[j]),
           n + Len(bs) = pos[j] + w
    PROVE  /\ SubSeq(Frame(ms[j]), w + 1, w + c) \in Seq(Octet)
           /\ Len(SubSeq(Frame(ms[j]), w + 1, w + c)) = c
           /\ Carries(pos, ms, n, bs \o SubSeq(Frame(ms[j]), w + 1, w + c))
  <1> DEFINE fr == Frame(ms[j])
             new == SubSeq(fr, w + 1, w + c)
             all == bs \o new
  <1>1. fr \in Seq(Octet) /\ Len(fr) = Size(ms[j]) /\ Size(ms[j]) \in Nat
    BY FrameFacts
  <1> HIDE DEF fr
  <1>2. /\ new \in Seq(Octet) /\ Len(new) = c
        /\ \A x \in 1..c : new[x] = fr[w + x]
    <2>1. \A x \in (w + 1)..(w + c) : fr[x] \in Octet
      BY <1>1, ElementOfSeq
    <2>2. /\ new \in Seq(Octet) /\ Len(new) = IF w + 1 <= w + c THEN (w + c) - (w + 1) + 1 ELSE 0
          /\ \A x \in 1..((w + c) - (w + 1) + 1) : new[x] = fr[(w + 1) + x - 1]
      BY <2>1, SubSeqProperties
    <2> HIDE DEF new
    <2>3. Len(new) = c
      BY <2>2
    <2>4. \A x \in 1..c : new[x] = fr[w + x]
      <3> SUFFICES ASSUME NEW x \in 1..c PROVE new[x] = fr[w + x]
        OBVIOUS
      <3>1. x \in 1..((w + c) - (w + 1) + 1) /\ (w + 1) + x - 1 = w + x
        OBVIOUS
      <3> QED
        BY <2>2, <3>1
    <2> QED
      BY <2>2, <2>3, <2>4
  <1> HIDE DEF new
  <1>3. /\ Len(all) = Len(bs) + c /\ Len(bs) \in Nat
        /\ \A x \in 1..(Len(bs) + c) : all[x] = IF x <= Len(bs) THEN bs[x] ELSE new[x - Len(bs)]
    <2>1. /\ Len(all) = Len(bs) + Len(new)
          /\ \A x \in 1..(Len(bs) + Len(new)) :
                all[x] = IF x <= Len(bs) THEN bs[x] ELSE new[x - Len(bs)]
      BY <1>2, ConcatProperties
    <2>2. Len(bs) \in Nat /\ Len(new) = c
      BY <1>2
    <2> HIDE DEF all
    <2> QED
      BY <2>1, <2>2
  <1> HIDE DEF all
  <1>4. ASSUME NEW i \in 1..Len(ms), NEW k \in 1..Size(ms[i]),
               n < pos[i] + k, pos[i] + k <= n + Len(all)
        PROVE  all[(pos[i] + k) - n] = Frame(ms[i])[k]
    <2>1. /\ pos[i] \in Nat /\ pos[j] \in Nat /\ Size(ms[i]) \in Nat /\ k \in Nat
          /\ 0 < k /\ k <= Size(ms[i])
      BY PlaceFacts
    <2>2. pos[i] + k \in Nat /\ Len(bs) \in Nat
      BY <1>3, <2>1
    <2>3. PICK p \in Nat, q \in Nat, l \in Nat : p = pos[i] + k /\ q = pos[j] /\ l = Len(bs)
      BY <2>1, <2>2
    <2>4. n < p /\ p <= n + (l + c) /\ n + l = q + w
      BY <1>3, <1>4, <2>3
    <2>5. p - n \in 1..(l + c)
      BY <2>4
    <2>6. CASE p <= n + l
      <3>1. p - n <= l
        BY <2>6
      <3>2. all[p - n] = bs[p - n]
        BY <1>3, <2>3, <2>5, <3>1
      <3>3. bs[p - n] = Frame(ms[i])[k]
        BY <1>4, <2>3, <2>6 DEF Carries
      <3> QED
        BY <2>3, <3>2, <3>3
    <2>7. CASE ~(p <= n + l)
      <3>1. PICK x \in Nat : x = p - (n + l)
        BY <2>7
      <3>2. /\ x \in 1..c /\ (p - n) - l = x /\ ~(p - n <= l)
            /\ p = q + (w + x)
        BY <2>4, <2>7, <3>1
      <3>3. all[p - n] = new[x]
        BY <1>3, <2>3, <2>5, <3>2
      <3>4. new[x] = fr[w + x]
        BY <1>2, <3>2
      <3>5. w + x \in Nat /\ 0 < w + x /\ w + x <= w + c
        BY <3>2
      <3>6. w + x <= Size(ms[j])
        BY <1>1, <3>5
      <3>7. pos[i] + k = pos[j] + (w + x)
        BY <2>3, <3>2
      <3>8. i = j /\ k = w + x
        BY <2>1, <3>5, <3>6, <3>7, OnePlace
      <3> QED
        BY <2>3, <3>3, <3>4, <3>8 DEF fr
    <2> QED
      BY <2>6, <2>7
  <1>5. Carries(pos, ms, n, all)
    BY <1>4 DEF Carries
  <1> QED
    BY <1>2, <1>5 DEF all, new, fr

(* The bytes in front are taken away.                                      *)
LEMMA CarriesRead ==
    ASSUME NEW ms \in Seq(Message), NEW pos, Places(pos, ms), NEW n \in Nat,
           NEW s \in Seq(Octet), NEW t \in Seq(Octet), Carries(pos, ms, n, s \o t)
    PROVE  Carries(pos, ms, n + Len(s), t)
  <1>1. /\ Len(s) \in Nat /\ Len(t) \in Nat /\ Len(s \o t) = Len(s) + Len(t)
        /\ \A x \in 1..(Len(s) + Len(t)) :
              (s \o t)[x] = IF x <= Len(s) THEN s[x] ELSE t[x - Len(s)]
    BY ConcatProperties, LenProperties
  <1> SUFFICES ASSUME NEW i \in 1..Len(ms), NEW k \in 1..Size(ms[i]),
                      n + Len(s) < pos[i] + k, pos[i] + k <= (n + Len(s)) + Len(t)
               PROVE  t[(pos[i] + k) - (n + Len(s))] = Frame(ms[i])[k]
    BY DEF Carries
  <1>2. pos[i] \in Nat /\ k \in Nat
    BY PlaceFacts
  <1> DEFINE x == (pos[i] + k) - n
             u == s \o t
  <1>3. /\ x \in 1..(Len(s) + Len(t)) /\ ~(x <= Len(s))
        /\ x - Len(s) = (pos[i] + k) - (n + Len(s))
        /\ n < pos[i] + k /\ pos[i] + k <= n + (Len(s) + Len(t))
    <2> DEFINE p == pos[i] + k
    <2>1. p \in Nat /\ n + Len(s) < p /\ p <= (n + Len(s)) + Len(t)
      BY <1>2
    <2>2. Len(s) \in Nat /\ Len(t) \in Nat
      BY <1>1
    <2>3. x = p - n /\ p = pos[i] + k
      OBVIOUS
    <2> HIDE DEF p, x
    <2>4. x \in 1..(Len(s) + Len(t)) /\ ~(x <= Len(s))
      BY <2>1, <2>2, <2>3
    <2>5. x - Len(s) = p - (n + Len(s))
      BY <2>1, <2>2, <2>3
    <2>6. n < p /\ p <= n + (Len(s) + Len(t))
      BY <2>1, <2>2
    <2> QED
      BY <2>3, <2>4, <2>5, <2>6
  <1>4. Len(u) = Len(s) + Len(t) /\ u[x] = t[(pos[i] + k) - (n + Len(s))]
    BY <1>1, <1>3
  <1>5. n < pos[i] + k /\ pos[i] + k <= n + Len(u)
    BY <1>3, <1>4
  <1> HIDE DEF u
  <1>6. u[x] = Frame(ms[i])[k]
    BY <1>5 DEF Carries, u
  <1> QED
    BY <1>4, <1>6

-----------------------------------------------------------------------------
(* The inductive invariant.                                                *)

(* The message that is being written, or the next one that will be.        *)
Current == Len(meant) - Len(msgQueue) + 1

SenderInv ==
    /\ msgID \in 1..(Len(meant) + 1)
    /\ meant \in Seq(Message) /\ Len(meant) <= MaxSend
    /\ msgQueue \in Seq(Seq(Octet) \X Seq(Octet)) /\ Len(msgQueue) <= Len(meant)
    /\ \A j \in 1..Len(msgQueue) :
          msgQueue[j][1] \o msgQueue[j][2] = Frame(meant[(Current + j) - 1])
    /\ writing = (msgQueue # <<>>) /\ written \in Nat
    /\ msgQueue = <<>> => written = 0
    /\ msgQueue # <<>> => written <= Size(meant[Current])

ReceiverInv ==
    /\ wire \in Seq(Octet) /\ recvBuf \in Seq(Octet)
    /\ received \in Seq(Message) /\ Len(received) <= Len(meant)
    /\ \A k \in 1..Len(received) : received[k] = meant[k]
    /\ reading \in [part : {"head", "body"}, size : Nat] /\ Len(recvBuf) <= reading.size
    /\ reading.part = "head" => reading.size = HeadSize
    /\ reading.part = "body" => /\ Len(received) < Len(meant)
                                /\ reading.size = ByteSize(meant[Len(received) + 1])

(* How much of the stream the receiver has made messages and lengths of.   *)
Taken(pos) == pos[Len(received) + 1] + (IF reading.part = "body" THEN HeadSize ELSE 0)

(* What is received and what is in the network is the next part of it, up  *)
(* to what has been written.                                               *)
StreamInv ==
    \E pos : /\ Places(pos, meant)
             /\ Taken(pos) + (Len(recvBuf) + Len(wire)) = pos[Current] + written
             /\ Carries(pos, meant, Taken(pos), recvBuf \o wire)

WireInv == SenderInv /\ ReceiverInv /\ StreamInv

(* The front of the queue.                                                 *)
LEMMA FrontFacts ==
    ASSUME SenderInv
    PROVE  /\ Len(meant) \in Nat /\ Len(msgQueue) \in Nat
           /\ Current \in 1..(Len(meant) + 1)
           /\ msgQueue = <<>> <=> Len(msgQueue) = 0
           /\ msgQueue = <<>> <=> Current = Len(meant) + 1
           /\ msgQueue # <<>> => /\ Current \in 1..Len(meant)
                                 /\ Buffers = Frame(meant[Current])
                                 /\ Len(Buffers) = Size(meant[Current])
                                 /\ Size(meant[Current]) \in Nat
  <1>1. Len(meant) \in Nat /\ Len(msgQueue) \in Nat /\ Len(msgQueue) <= Len(meant)
    BY DEF SenderInv
  <1>2. msgQueue = <<>> <=> Len(msgQueue) = 0
    BY EmptySeq DEF SenderInv
  <1>3. Current \in 1..(Len(meant) + 1) /\ (Len(msgQueue) = 0 <=> Current = Len(meant) + 1)
    BY <1>1 DEF Current
  <1>4. ASSUME msgQueue # <<>>
        PROVE  /\ Current \in 1..Len(meant) /\ Buffers = Frame(meant[Current])
               /\ Len(Buffers) = Size(meant[Current]) /\ Size(meant[Current]) \in Nat
    <2>1. Len(msgQueue) # 0
      BY <1>2, <1>4
    <2>2. Current \in 1..Len(meant) /\ 1 \in 1..Len(msgQueue) /\ (Current + 1) - 1 = Current
      BY <1>1, <1>3, <2>1
    <2>3. Head(msgQueue) = msgQueue[1]
      BY <1>4 DEF SenderInv
    <2>4. Buffers = Frame(meant[Current])
      BY <2>2, <2>3 DEF SenderInv, Buffers
    <2>5. meant[Current] \in Message
      BY <2>2 DEF SenderInv
    <2> QED
      BY <2>2, <2>4, <2>5, FrameFacts
  <1> QED
    BY <1>1, <1>2, <1>3, <1>4

(* Where the two ends of the stream are.                                   *)
LEMMA EndsFacts ==
    ASSUME SenderInv, ReceiverInv, NEW pos, Places(pos, meant)
    PROVE  /\ Len(received) \in Nat /\ Len(recvBuf) \in Nat /\ Len(wire) \in Nat
           /\ recvBuf \o wire \in Seq(Octet)
           /\ Len(recvBuf \o wire) = Len(recvBuf) + Len(wire)
           /\ pos[Len(received) + 1] \in Nat /\ Taken(pos) \in Nat
           /\ pos[Current] \in Nat /\ written \in Nat /\ pos[Len(meant) + 1] \in Nat
           /\ pos[Current] + written <= pos[Len(meant) + 1]
           /\ Len(received) < Len(meant) =>
                 /\ Len(received) + 1 \in 1..Len(meant)
                 /\ meant[Len(received) + 1] \in Message
                 /\ pos[Len(received) + 2] \in Nat
                 /\ pos[Len(received) + 2]
                    = pos[Len(received) + 1] + (HeadSize + ByteSize(meant[Len(received) + 1]))
  <1>1. Len(received) \in Nat /\ Len(recvBuf) \in Nat /\ Len(wire) \in Nat
    BY DEF ReceiverInv
  <1>2. recvBuf \o wire \in Seq(Octet) /\ Len(recvBuf \o wire) = Len(recvBuf) + Len(wire)
    BY ConcatProperties DEF ReceiverInv
  <1>3. Len(meant) \in Nat /\ Len(received) + 1 \in 1..(Len(meant) + 1)
    BY <1>1, FrontFacts DEF ReceiverInv
  <1>4. pos[Len(received) + 1] \in Nat /\ pos[Len(meant) + 1] \in Nat
    BY <1>3 DEF Places
  <1>5. Taken(pos) \in Nat
    BY <1>4, Sizes DEF Taken
  <1>6. Current \in 1..(Len(meant) + 1) /\ written \in Nat
    BY FrontFacts DEF SenderInv
  <1>7. pos[Current] \in Nat
    BY <1>6 DEF Places
  <1>8. pos[Current] + written <= pos[Len(meant) + 1]
    <2>1. CASE msgQueue = <<>>
      <3>1. Current = Len(meant) + 1 /\ written = 0
        BY <2>1, FrontFacts DEF SenderInv
      <3> QED
        BY <1>4, <3>1
    <2>2. CASE msgQueue # <<>>
      <3>1. Current \in 1..Len(meant) /\ written <= Size(meant[Current]) /\ meant \in Seq(Message)
        BY <2>2, FrontFacts DEF SenderInv
      <3>2. /\ Size(meant[Current]) \in Nat /\ pos[Current + 1] = pos[Current] + Size(meant[Current])
            /\ \A j \in 1..(Len(meant) + 1) : Current < j => pos[Current + 1] <= pos[j]
        BY <3>1, PlaceFacts
      <3>3. Len(meant) + 1 \in 1..(Len(meant) + 1) /\ Current < Len(meant) + 1
        BY <1>3, <3>1
      <3>4. pos[Current] + Size(meant[Current]) <= pos[Len(meant) + 1]
        BY <3>2, <3>3
      <3> QED
        BY <1>4, <1>6, <1>7, <3>1, <3>2, <3>4
    <2> QED
      BY <2>1, <2>2
  <1>9. ASSUME Len(received) < Len(meant)
        PROVE  /\ Len(received) + 1 \in 1..Len(meant)
               /\ meant[Len(received) + 1] \in Message
               /\ pos[Len(received) + 2] \in Nat
               /\ pos[Len(received) + 2]
                  = pos[Len(received) + 1] + (HeadSize + ByteSize(meant[Len(received) + 1]))
    <2>1. Len(received) + 1 \in 1..Len(meant) /\ (Len(received) + 1) + 1 = Len(received) + 2
      BY <1>1, <1>3, <1>9
    <2>2. meant \in Seq(Message)
      BY DEF SenderInv
    <2> QED
      BY <2>1, <2>2, PlaceFacts DEF Size
  <1> QED
    BY <1>1, <1>2, <1>4, <1>5, <1>6, <1>7, <1>8, <1>9

LEMMA WireInit == Init => WireInv
  <1> SUFFICES ASSUME Init PROVE WireInv
    OBVIOUS
  <1>1. /\ msgID = 1 /\ msgQueue = <<>> /\ meant = <<>> /\ writing = FALSE /\ written = 0
        /\ wire = <<>> /\ recvBuf = <<>> /\ received = <<>>
        /\ reading.part = "head" /\ reading.size = HeadSize
        /\ reading = [part |-> "head", size |-> HeadSize]
    BY DEF Init
  <1>2. Len(meant) = 0 /\ Len(msgQueue) = 0 /\ Len(received) = 0 /\ Len(recvBuf) = 0 /\ Len(wire) = 0
    BY <1>1
  <1>3. HeadSize \in Nat /\ MaxSend \in Nat
    BY Sizes
  <1>4. SenderInv
    <2>1. meant \in Seq(Message) /\ msgQueue \in Seq(Seq(Octet) \X Seq(Octet))
      BY <1>1, EmptySeq
    <2>2. msgID \in 1..(Len(meant) + 1) /\ Len(meant) <= MaxSend /\ Len(msgQueue) <= Len(meant)
      BY <1>1, <1>2, <1>3
    <2>3. ~(\E j \in 1..Len(msgQueue) : TRUE)
      BY <1>2
    <2> QED
      BY <1>1, <2>1, <2>2, <2>3 DEF SenderInv
  <1>5. ReceiverInv
    BY <1>1, <1>2, <1>3 DEF ReceiverInv
  <1>6. StreamInv
    <2> DEFINE pos == [i \in 1..1 |-> 0]
    <2>1. Places(pos, meant)
      BY <1>2 DEF Places
    <2>2. Current = 1
      BY <1>2 DEF Current
    <2>3. Taken(pos) = 0
      BY <1>1, <1>2 DEF Taken
    <2>4. Carries(pos, meant, 0, recvBuf \o wire)
      BY <1>2 DEF Carries
    <2>5. Taken(pos) + (Len(recvBuf) + Len(wire)) = pos[Current] + written
      BY <1>1, <1>2, <2>2, <2>3
    <2> HIDE DEF pos
    <2> QED
      BY <2>1, <2>3, <2>4, <2>5 DEF StreamInv
  <1> QED
    BY <1>4, <1>5, <1>6 DEF WireInv

-----------------------------------------------------------------------------
(* The steps of the sender.                                                *)

LEMMA QueueStep ==
    ASSUME WireInv, NEW first \in Seq(Octet), NEW second \in Seq(Octet), NEW m \in Message,
           first \o second = Frame(m), Queue(first, second, m),
           msgID' \in {msgID, msgID + 1}
    PROVE  WireInv'
  <1> DEFINE n == Len(meant)
             q == Len(msgQueue)
  <1>1. SenderInv /\ ReceiverInv /\ StreamInv
    BY DEF WireInv
  <1>2. /\ n < MaxSend /\ msgQueue' = Append(msgQueue, <<first, second>>)
        /\ writing' = (writing \/ msgQueue = <<>>) /\ meant' = Append(meant, m)
        /\ written' = written /\ wire' = wire /\ reading' = reading
        /\ recvBuf' = recvBuf /\ received' = received
    BY DEF Queue, receiver
  <1>3. /\ n \in Nat /\ q \in Nat /\ q <= n /\ MaxSend \in Nat
        /\ Current \in 1..(n + 1) /\ Current = n - q + 1
        /\ meant \in Seq(Message) /\ msgQueue \in Seq(Seq(Octet) \X Seq(Octet))
    BY <1>1, FrontFacts, Sizes DEF SenderInv, Current
  <1>4. /\ meant' \in Seq(Message) /\ Len(meant') = n + 1 /\ meant'[n + 1] = m
        /\ \A i \in 1..n : meant'[i] = meant[i]
    BY <1>2, <1>3, AppendProperties
  <1>5. /\ msgQueue' \in Seq(Seq(Octet) \X Seq(Octet)) /\ Len(msgQueue') = q + 1
        /\ msgQueue' # <<>> /\ msgQueue'[q + 1] = <<first, second>>
        /\ \A i \in 1..q : msgQueue'[i] = msgQueue[i]
    <2> DEFINE e == <<first, second>>
               T == Seq(Octet) \X Seq(Octet)
    <2>1. e \in T /\ msgQueue \in Seq(T) /\ msgQueue' = Append(msgQueue, e)
      BY <1>2, <1>3
    <2> HIDE DEF e, T
    <2>2. /\ msgQueue' \in Seq(T) /\ msgQueue' # <<>> /\ Len(msgQueue') = q + 1
          /\ msgQueue'[q + 1] = e /\ \A i \in 1..q : msgQueue'[i] = msgQueue[i]
      BY <2>1, AppendProperties
    <2> QED
      BY <2>2 DEF e, T
  <1> HIDE DEF n, q
  <1>6. Current' = Current
    BY <1>3, <1>4, <1>5 DEF Current
  <1>7. SenderInv'
    <2>1. msgID' \in 1..(Len(meant') + 1)
      <3>1. msgID \in 1..(n + 1)
        BY <1>1 DEF SenderInv, n
      <3> QED
        BY <1>3, <1>4, <3>1
    <2>2. Len(meant') <= MaxSend /\ Len(msgQueue') <= Len(meant')
      BY <1>2, <1>3, <1>4, <1>5
    <2>3. ASSUME NEW j \in 1..Len(msgQueue')
          PROVE  msgQueue'[j][1] \o msgQueue'[j][2] = Frame(meant'[(Current' + j) - 1])
      <3>1. CASE j = q + 1
        <4>1. (Current' + j) - 1 = n + 1
          BY <1>3, <1>6, <3>1
        <4>2. msgQueue'[j][1] = first /\ msgQueue'[j][2] = second
          BY <1>5, <3>1
        <4> QED
          BY <1>4, <4>1, <4>2
      <3>2. CASE j \in 1..q
        <4>1. (Current + j) - 1 \in 1..n
          BY <1>3, <3>2
        <4>2. msgQueue[j][1] \o msgQueue[j][2] = Frame(meant[(Current + j) - 1])
          BY <1>1, <3>2 DEF SenderInv, q
        <4> QED
          BY <1>4, <1>5, <1>6, <3>2, <4>1, <4>2
      <3>3. j = q + 1 \/ j \in 1..q
        BY <1>3, <1>5
      <3> QED
        BY <3>1, <3>2, <3>3
    <2>4. writing' = (msgQueue' # <<>>)
      BY <1>1, <1>2, <1>5 DEF SenderInv
    <2>5. written' \in Nat
      BY <1>1, <1>2 DEF SenderInv
    <2>6. written' <= Size(meant'[Current'])
      <3>1. CASE msgQueue = <<>>
        <4>1. written' = 0 /\ Current' = n + 1
          BY <1>1, <1>2, <1>6, <3>1, FrontFacts DEF SenderInv, n
        <4>2. Size(m) \in Nat
          BY FrameFacts
        <4> QED
          BY <1>4, <4>1, <4>2
      <3>2. CASE msgQueue # <<>>
        <4>1. Current \in 1..n /\ written <= Size(meant[Current])
          BY <1>1, <3>2, FrontFacts DEF SenderInv, n
        <4> QED
          BY <1>2, <1>4, <1>6, <4>1
      <3> QED
        BY <3>1, <3>2
    <2> QED
      BY <1>4, <1>5, <2>1, <2>2, <2>3, <2>4, <2>5, <2>6 DEF SenderInv
  <1>8. ReceiverInv'
    <2>1. /\ Len(received) <= n /\ Len(received) \in Nat
          /\ \A k \in 1..Len(received) : received[k] = meant[k]
          /\ reading.part = "body" => /\ Len(received) < n
                                      /\ reading.size = ByteSize(meant[Len(received) + 1])
      BY <1>1 DEF ReceiverInv, n
    <2>2. Len(received') <= Len(meant')
      BY <1>2, <1>3, <1>4, <2>1
    <2>3. \A k \in 1..Len(received') : received'[k] = meant'[k]
      BY <1>2, <1>3, <1>4, <2>1
    <2>4. reading'.part = "body" => /\ Len(received') < Len(meant')
                                    /\ reading'.size = ByteSize(meant'[Len(received') + 1])
      <3> HAVE reading'.part = "body"
      <3>1. Len(received) < n /\ reading.size = ByteSize(meant[Len(received) + 1])
        BY <1>2, <2>1
      <3>2. Len(received) + 1 \in 1..n
        BY <1>3, <2>1, <3>1
      <3> QED
        BY <1>2, <1>3, <1>4, <2>1, <3>1, <3>2
    <2> QED
      BY <1>1, <1>2, <2>2, <2>3, <2>4 DEF ReceiverInv
  <1>9. StreamInv'
    <2>1. PICK pos : /\ Places(pos, meant)
                     /\ Taken(pos) + (Len(recvBuf) + Len(wire)) = pos[Current] + written
                     /\ Carries(pos, meant, Taken(pos), recvBuf \o wire)
      BY <1>1 DEF StreamInv
    <2>2. PICK r : Places(r, meant') /\ \A i \in 1..(n + 1) : r[i] = pos[i]
      BY <1>2, <1>3, <2>1, PlacesMore DEF n
    <2>3. /\ Taken(pos) \in Nat /\ recvBuf \o wire \in Seq(Octet)
          /\ Len(recvBuf \o wire) = Len(recvBuf) + Len(wire)
          /\ pos[Current] + written <= pos[n + 1] /\ Len(received) \in Nat
      BY <1>1, <2>1, EndsFacts DEF n
    <2>4. Carries(r, meant', Taken(pos), recvBuf \o wire)
      <3>1. Taken(pos) + Len(recvBuf \o wire) <= pos[n + 1]
        BY <2>1, <2>3
      <3> QED
        BY <1>2, <1>3, <2>1, <2>2, <2>3, <3>1, CarriesMore DEF n
    <2>5. r[Current] = pos[Current]
      BY <1>3, <2>2
    <2>6. Len(received) + 1 \in 1..(n + 1)
      <3>1. Len(received) <= n
        BY <1>1 DEF ReceiverInv, n
      <3> QED
        BY <1>3, <2>3, <3>1
    <2>7. Taken(r)' = Taken(pos)
      BY <1>2, <2>2, <2>6 DEF Taken
    <2>8. Taken(r)' + (Len(recvBuf') + Len(wire')) = r[Current'] + written'
      BY <1>2, <1>6, <2>1, <2>5, <2>7
    <2>9. Carries(r, meant', Taken(r)', recvBuf' \o wire')
      BY <1>2, <2>4, <2>7
    <2> QED
      BY <2>2, <2>8, <2>9 DEF StreamInv
  <1> QED
    BY <1>7, <1>8, <1>9 DEF WireInv

(* The request with the next id.                                           *)
LEMMA RequestMessage ==
    ASSUME WireInv, Len(meant) < MaxSend, NEW method \in Methods, NEW content \in Contents
    PROVE  [Default EXCEPT !["id"] = msgID, !["method"] = method, !["content"] = content]
               \in Message
  <1>1. msgID \in 1..MaxSend
    <2>1. msgID \in 1..(Len(meant) + 1) /\ Len(meant) \in Nat
      BY FrontFacts DEF WireInv, SenderInv
    <2>2. MaxSend \in Nat
      BY Sizes
    <2> QED
      BY <2>1, <2>2
  <1> QED
    BY <1>1 DEF Message, Default, Fields

LEMMA RequestStep ==
    ASSUME WireInv, NEW method \in Methods, NEW content \in Contents,
           Request(method, content)
    PROVE  WireInv'
  <1> DEFINE m == [Default EXCEPT !["id"] = msgID, !["method"] = method, !["content"] = content]
             first == Head4(ByteSize(m)) \o Serialize(m)
  <1>1. msgID' = msgID + 1 /\ Queue(first, <<>>, m)
    BY DEF Request
  <1>2. m \in Message
    BY <1>1, RequestMessage DEF Queue
  <1>3. first = Frame(m) /\ first \in Seq(Octet)
    BY <1>2, FrameFacts DEF Frame
  <1> HIDE DEF m, first
  <1>4. <<>> \in Seq(Octet) /\ first \o <<>> = Frame(m)
    BY <1>3, EmptySeq, ConcatEmptySeq
  <1> QED
    BY <1>1, <1>2, <1>3, <1>4, QueueStep

LEMMA RespondErrorStep ==
    ASSUME WireInv, NEW id \in Ids, NEW method \in Methods, NEW content \in Contents,
           NEW error \in Errors, RespondError(id, method, content, error)
    PROVE  WireInv'
  <1> DEFINE m == [Answer(method, content, error) EXCEPT !["id"] = id]
             first == Head4(ByteSize(m)) \o Serialize(m)
  <1>1. msgID' = msgID /\ Queue(first, <<>>, m)
    BY DEF RespondError
  <1>2. m \in Message
    BY DEF Message, Answer, Fields
  <1>3. first = Frame(m) /\ first \in Seq(Octet)
    BY <1>2, FrameFacts DEF Frame
  <1> HIDE DEF m, first
  <1>4. <<>> \in Seq(Octet) /\ first \o <<>> = Frame(m)
    BY <1>3, EmptySeq, ConcatEmptySeq
  <1> QED
    BY <1>1, <1>2, <1>3, <1>4, QueueStep

LEMMA RespondCachedStep ==
    ASSUME WireInv, NEW id \in Ids, NEW method \in Methods, NEW content \in Contents \cup {0},
           NEW error \in Errors \cup {0}, RespondCached(id, method, content, error)
    PROVE  WireInv'
  <1> DEFINE m == OnlyId(id)
             data == Cached(method, content, error)
             full == WithId(id, method, content, error)
             first == Head4(ByteSize(m) + Len(data)) \o Serialize(m)
  <1>1. msgID' = msgID /\ Queue(first, data, full)
    BY DEF RespondCached, OnlyId, WithId
  <1>2. /\ full \in Message /\ data \in Seq(Octet) /\ first \in Seq(Octet)
        /\ first \o data = Frame(full)
    BY CachedFacts
  <1> HIDE DEF m, data, full, first
  <1> QED
    BY <1>1, <1>2, QueueStep

(* The whole of Send.                                                      *)
LEMMA SendStep ==
    ASSUME WireInv, Send
    PROVE  WireInv'
  <1>1. PICK method \in Methods :
            \/ \E content \in Contents :
                  \/ Request(method, content)
                  \/ \E id \in Ids : RespondCached(id, method, content, 0)
                  \/ \E id \in Ids, e \in Errors : RespondError(id, method, content, e)
            \/ \E id \in Ids, e \in Errors : RespondCached(id, method, 0, e)
    BY DEF Send
  <1>2. ASSUME NEW content \in Contents, Request(method, content) PROVE WireInv'
    BY <1>2, RequestStep
  <1>3. ASSUME NEW content \in Contents, NEW id \in Ids, RespondCached(id, method, content, 0)
        PROVE  WireInv'
    BY <1>3, RespondCachedStep
  <1>4. ASSUME NEW content \in Contents, NEW id \in Ids, NEW e \in Errors,
               RespondError(id, method, content, e)
        PROVE  WireInv'
    BY <1>4, RespondErrorStep
  <1>5. ASSUME NEW id \in Ids, NEW e \in Errors, RespondCached(id, method, 0, e)
        PROVE  WireInv'
    BY <1>5, RespondCachedStep
  <1> QED
    BY <1>1, <1>2, <1>3, <1>4, <1>5

LEMMA WriteSomeStep ==
    ASSUME WireInv, NEW c \in Nat, WriteSome(c)
    PROVE  WireInv'
  <1> DEFINE new == SubSeq(Buffers, written + 1, written + c)
  <1>1. SenderInv /\ ReceiverInv /\ StreamInv
    BY DEF WireInv
  <1>2. /\ writing /\ written + c <= Len(Buffers) /\ written' = written + c
        /\ wire' = wire \o new
        /\ msgID' = msgID /\ msgQueue' = msgQueue /\ meant' = meant /\ writing' = writing
        /\ reading' = reading /\ recvBuf' = recvBuf /\ received' = received
    BY DEF WriteSome, sender, receiver
  <1>3. /\ msgQueue # <<>> /\ Current \in 1..Len(meant) /\ Buffers = Frame(meant[Current])
        /\ Len(Buffers) = Size(meant[Current]) /\ Size(meant[Current]) \in Nat
        /\ written \in Nat /\ meant \in Seq(Message)
    BY <1>1, <1>2, FrontFacts DEF SenderInv
  <1>4. Current' = Current
    BY <1>2 DEF Current
  <1>5. SenderInv'
    <2>1. written' \in Nat /\ written' <= Size(meant[Current])
      BY <1>2, <1>3
    <2> QED
      BY <1>1, <1>2, <1>3, <1>4, <2>1 DEF SenderInv
  <1>6. PICK pos : /\ Places(pos, meant)
                   /\ Taken(pos) + (Len(recvBuf) + Len(wire)) = pos[Current] + written
                   /\ Carries(pos, meant, Taken(pos), recvBuf \o wire)
    BY <1>1 DEF StreamInv
  <1>7. /\ Taken(pos) \in Nat /\ recvBuf \o wire \in Seq(Octet) /\ pos[Current] \in Nat
        /\ Len(recvBuf \o wire) = Len(recvBuf) + Len(wire)
        /\ Len(recvBuf) \in Nat /\ Len(wire) \in Nat
    BY <1>1, <1>6, EndsFacts
  <1>8. /\ new \in Seq(Octet) /\ Len(new) = c
        /\ Carries(pos, meant, Taken(pos), (recvBuf \o wire) \o new)
    <2>1. /\ Taken(pos) + Len(recvBuf \o wire) = pos[Current] + written
          /\ written + c <= Size(meant[Current])
      BY <1>2, <1>3, <1>6, <1>7
    <2> HIDE DEF new
    <2>2. new = SubSeq(Frame(meant[Current]), written + 1, written + c)
      BY <1>3 DEF new
    <2> DEFINE bs == recvBuf \o wire
    <2>3. /\ bs \in Seq(Octet) /\ Taken(pos) + Len(bs) = pos[Current] + written
          /\ Carries(pos, meant, Taken(pos), bs)
      BY <1>6, <1>7, <2>1
    <2> HIDE DEF bs
    <2>4. new \in Seq(Octet) /\ Len(new) = c /\ Carries(pos, meant, Taken(pos), bs \o new)
      <3>1. PICK l \in Nat, w \in Nat, j \in 1..Len(meant) :
                l = Taken(pos) /\ w = written /\ j = Current
        BY <1>3, <1>7
      <3>2. /\ w + c <= Size(meant[j]) /\ l + Len(bs) = pos[j] + w
            /\ Carries(pos, meant, l, bs) /\ Places(pos, meant)
            /\ new = SubSeq(Frame(meant[j]), w + 1, w + c)
        BY <1>6, <2>1, <2>2, <2>3, <3>1
      <3>3. /\ SubSeq(Frame(meant[j]), w + 1, w + c) \in Seq(Octet)
            /\ Len(SubSeq(Frame(meant[j]), w + 1, w + c)) = c
            /\ Carries(pos, meant, l, bs \o SubSeq(Frame(meant[j]), w + 1, w + c))
        BY <1>3, <2>3, <3>2, CarriesWritten, Zenon
      <3> QED
        BY <3>1, <3>2, <3>3
    <2> QED
      BY <2>4 DEF bs
  <1> HIDE DEF new
  <1>9. wire \in Seq(Octet) /\ recvBuf \in Seq(Octet)
    BY <1>1 DEF ReceiverInv
  <1>10. wire' \in Seq(Octet) /\ Len(wire') = Len(wire) + c
    BY <1>2, <1>8, <1>9, ConcatProperties
  <1>11. ReceiverInv'
    BY <1>1, <1>2, <1>10 DEF ReceiverInv
  <1>12. StreamInv'
    <2>1. Taken(pos)' = Taken(pos)
      BY <1>2 DEF Taken
    <2>2. recvBuf' \o wire' = (recvBuf \o wire) \o new
      <3>1. Cat(Cat(recvBuf, wire), new) = Cat(recvBuf, Cat(wire, new))
        BY <1>8, <1>9, Regroup
      <3> QED
        BY <1>2, <3>1 DEF Cat
    <2>3. Taken(pos)' + (Len(recvBuf') + Len(wire')) = pos[Current'] + written'
      <3>1. /\ Len(recvBuf') = Len(recvBuf) /\ Len(wire') = Len(wire) + c
            /\ pos[Current'] = pos[Current] /\ written' = written + c
        BY <1>2, <1>4, <1>10
      <3>2. Taken(pos) + (Len(recvBuf) + (Len(wire) + c)) = pos[Current] + (written + c)
        <4>1. PICK a \in Nat, b \in Nat, l \in Nat, p \in Nat, w \in Nat :
                  /\ a = Taken(pos) /\ b = Len(recvBuf) /\ l = Len(wire)
                  /\ p = pos[Current] /\ w = written
          BY <1>3, <1>7
        <4>2. a + (b + l) = p + w
          BY <1>6, <4>1
        <4>3. a + (b + (l + c)) = p + (w + c)
          BY <4>2
        <4> QED
          BY <4>1, <4>3
      <3> QED
        BY <2>1, <3>1, <3>2
    <2> QED
      BY <1>2, <1>6, <1>8, <2>1, <2>2, <2>3 DEF StreamInv
  <1> QED
    BY <1>5, <1>11, <1>12 DEF WireInv

LEMMA WriteDoneStep ==
    ASSUME WireInv, WriteDone
    PROVE  WireInv'
  <1> DEFINE n == Len(meant)
             q == Len(msgQueue)
  <1>1. SenderInv /\ ReceiverInv /\ StreamInv
    BY DEF WireInv
  <1>2. /\ writing /\ written = Len(Buffers) /\ msgQueue' = Tail(msgQueue)
        /\ writing' = (Tail(msgQueue) # <<>>) /\ written' = 0
        /\ msgID' = msgID /\ meant' = meant /\ wire' = wire
        /\ reading' = reading /\ recvBuf' = recvBuf /\ received' = received
    BY DEF WriteDone, receiver
  <1>3. /\ msgQueue # <<>> /\ Current \in 1..n /\ written = Size(meant[Current])
        /\ Size(meant[Current]) \in Nat /\ n \in Nat /\ q \in Nat /\ q <= n /\ q # 0
        /\ Current = n - q + 1 /\ meant \in Seq(Message)
    BY <1>1, <1>2, FrontFacts DEF SenderInv, Current
  <1>4. /\ msgQueue' \in Seq(Seq(Octet) \X Seq(Octet)) /\ Len(msgQueue') = q - 1
        /\ \A i \in 1..(q - 1) : msgQueue'[i] = msgQueue[i + 1]
    <2> DEFINE T == Seq(Octet) \X Seq(Octet)
    <2>1. msgQueue \in Seq(T)
      BY <1>1 DEF SenderInv
    <2> HIDE DEF T
    <2>2. /\ Tail(msgQueue) \in Seq(T) /\ Len(Tail(msgQueue)) = q - 1
          /\ \A i \in 1..Len(Tail(msgQueue)) : Tail(msgQueue)[i] = msgQueue[i + 1]
      BY <1>3, <2>1, HeadTailProperties
    <2> QED
      BY <1>2, <2>2 DEF T
  <1> HIDE DEF n, q
  <1>5. Current' = Current + 1
    BY <1>2, <1>3, <1>4 DEF Current, n
  <1>6. SenderInv'
    <2>1. ASSUME NEW j \in 1..Len(msgQueue')
          PROVE  msgQueue'[j][1] \o msgQueue'[j][2] = Frame(meant'[(Current' + j) - 1])
      <3>1. j + 1 \in 1..q /\ (Current' + j) - 1 = (Current + (j + 1)) - 1 /\ j \in 1..(q - 1)
        BY <1>3, <1>4, <1>5
      <3>2. msgQueue[j + 1][1] \o msgQueue[j + 1][2] = Frame(meant[(Current + (j + 1)) - 1])
        BY <1>1, <3>1 DEF SenderInv, q
      <3> QED
        BY <1>2, <1>4, <3>1, <3>2
    <2>2. Len(msgQueue') <= Len(meant')
      BY <1>2, <1>3, <1>4 DEF n
    <2>3. msgQueue' # <<>> => written' <= Size(meant'[Current'])
      <3> HAVE msgQueue' # <<>>
      <3>1. Len(msgQueue') # 0
        BY <1>4, EmptySeq
      <3>2. Current' \in 1..n
        BY <1>3, <1>4, <1>5, <3>1
      <3>3. Size(meant'[Current']) \in Nat
        <4>1. meant'[Current'] \in Message
          BY <1>2, <1>3, <3>2 DEF n
        <4> QED
          BY <4>1, FrameFacts
      <3> QED
        BY <1>2, <3>3
    <2> QED
      BY <1>1, <1>2, <1>4, <2>1, <2>2, <2>3 DEF SenderInv
  <1>7. ReceiverInv'
    BY <1>1, <1>2 DEF ReceiverInv
  <1>8. StreamInv'
    <2>1. PICK pos : /\ Places(pos, meant)
                     /\ Taken(pos) + (Len(recvBuf) + Len(wire)) = pos[Current] + written
                     /\ Carries(pos, meant, Taken(pos), recvBuf \o wire)
      BY <1>1 DEF StreamInv
    <2>2. /\ pos[Current + 1] = pos[Current] + Size(meant[Current]) /\ pos[Current + 1] \in Nat
          /\ pos[Current] \in Nat
      BY <1>3, <2>1, PlaceFacts DEF n
    <2>3. Taken(pos)' = Taken(pos)
      BY <1>2 DEF Taken
    <2>4. pos[Current'] + written' = pos[Current] + written
      BY <1>2, <1>3, <1>5, <2>2
    <2> QED
      BY <1>2, <2>1, <2>3, <2>4 DEF StreamInv
  <1> QED
    BY <1>6, <1>7, <1>8 DEF WireInv

-----------------------------------------------------------------------------
(* The steps of the receiver.                                              *)

(* What is taken from the network is put behind what was received before.  *)
LEMMA Moved ==
    ASSUME NEW s \in Seq(Octet), NEW t \in Seq(Octet), NEW c \in 1..Len(t)
    PROVE  /\ s \o SubSeq(t, 1, c) \in Seq(Octet) /\ SubSeq(t, c + 1, Len(t)) \in Seq(Octet)
           /\ Len(s \o SubSeq(t, 1, c)) = Len(s) + c
           /\ Len(SubSeq(t, c + 1, Len(t))) = Len(t) - c
           /\ (s \o SubSeq(t, 1, c)) \o SubSeq(t, c + 1, Len(t)) = s \o t
  <1> DEFINE a == SubSeq(t, 1, c)
             b == SubSeq(t, c + 1, Len(t))
  <1>1. Len(t) \in Nat /\ c \in 1..(Len(t) + 1) /\ c \in 0..Len(t) /\ Len(t) \in c..Len(t)
    OBVIOUS
  <1>2. a \o b = t
    <2>1. SubSeq(t, 1, c) \o SubSeq(t, c + 1, Len(t)) = SubSeq(t, 1, Len(t))
      <3>1. 1 \in 1..(Len(t) + 1) /\ c \in (1 - 1)..Len(t)
        BY <1>1
      <3> QED
        BY <1>1, <3>1, ConcatAdjacentSubSeq
    <2> QED
      BY <2>1, SubSeqFull
  <1>3. a \in Seq(Octet) /\ Len(a) = c
    BY <1>1
  <1>4. b \in Seq(Octet) /\ Len(b) = Len(t) - c
    BY <1>1
  <1> HIDE DEF a, b
  <1>5. s \o a \in Seq(Octet) /\ Len(s \o a) = Len(s) + c
    BY <1>3, ConcatProperties
  <1>6. Cat(Cat(s, a), b) = Cat(s, Cat(a, b))
    BY <1>3, <1>4, Regroup
  <1>7. (s \o a) \o b = s \o t
    BY <1>2, <1>6 DEF Cat
  <1> QED
    BY <1>3, <1>4, <1>5, <1>7 DEF a, b

LEMMA ReadSomeStep ==
    ASSUME WireInv, NEW c \in 1..Len(wire), ReadSome(c)
    PROVE  WireInv'
  <1>1. SenderInv /\ ReceiverInv /\ StreamInv
    BY DEF WireInv
  <1>2. /\ Len(recvBuf) + c <= reading.size
        /\ recvBuf' = recvBuf \o SubSeq(wire, 1, c) /\ wire' = SubSeq(wire, c + 1, Len(wire))
        /\ msgID' = msgID /\ msgQueue' = msgQueue /\ meant' = meant /\ writing' = writing
        /\ written' = written /\ reading' = reading /\ received' = received
    BY DEF ReadSome, sender
  <1>3. /\ recvBuf' \in Seq(Octet) /\ wire' \in Seq(Octet)
        /\ Len(recvBuf') = Len(recvBuf) + c /\ Len(wire') = Len(wire) - c
        /\ recvBuf' \o wire' = recvBuf \o wire
    BY <1>1, <1>2, Moved DEF ReceiverInv
  <1>4. SenderInv'
    BY <1>1, <1>2 DEF SenderInv, Current
  <1>5. ReceiverInv'
    BY <1>1, <1>2, <1>3 DEF ReceiverInv
  <1>6. StreamInv'
    <2>1. PICK pos : /\ Places(pos, meant)
                     /\ Taken(pos) + (Len(recvBuf) + Len(wire)) = pos[Current] + written
                     /\ Carries(pos, meant, Taken(pos), recvBuf \o wire)
      BY <1>1 DEF StreamInv
    <2>2. Taken(pos)' = Taken(pos) /\ Current' = Current
      BY <1>2 DEF Taken, Current
    <2>3. Len(recvBuf') + Len(wire') = Len(recvBuf) + Len(wire)
      <3>1. Len(recvBuf) \in Nat /\ Len(wire) \in Nat /\ c \in Nat
        BY <1>1 DEF ReceiverInv
      <3> QED
        BY <1>3, <3>1
    <2> QED
      BY <1>2, <1>3, <2>1, <2>2, <2>3 DEF StreamInv
  <1> QED
    BY <1>4, <1>5, <1>6 DEF WireInv

(* What the reader has got is the beginning of the rest of the stream.     *)
LEMMA ReceivedPart ==
    ASSUME SenderInv, ReceiverInv, NEW pos, Places(pos, meant),
           Taken(pos) + (Len(recvBuf) + Len(wire)) = pos[Current] + written,
           Carries(pos, meant, Taken(pos), recvBuf \o wire)
    PROVE  /\ Len(recvBuf) > 0 \/ reading.part = "body" => Len(received) < Len(meant)
           /\ \A i \in 1..Len(meant) : \A k \in 1..Size(meant[i]) :
                 Taken(pos) < pos[i] + k /\ pos[i] + k <= Taken(pos) + Len(recvBuf)
                    => recvBuf[(pos[i] + k) - Taken(pos)] = Frame(meant[i])[k]
  <1> DEFINE bs == recvBuf \o wire
  <1>1. /\ Len(received) \in Nat /\ Len(recvBuf) \in Nat /\ Len(wire) \in Nat
        /\ Len(bs) = Len(recvBuf) + Len(wire)
        /\ pos[Len(received) + 1] \in Nat /\ Taken(pos) \in Nat
        /\ pos[Current] + written <= pos[Len(meant) + 1]
        /\ pos[Current] \in Nat /\ written \in Nat /\ pos[Len(meant) + 1] \in Nat
    BY EndsFacts
  <1>2. Len(recvBuf) > 0 \/ reading.part = "body" => Len(received) < Len(meant)
    <2>1. CASE reading.part = "body"
      BY <2>1 DEF ReceiverInv
    <2>2. CASE reading.part # "body" /\ Len(recvBuf) > 0
      <3>1. Taken(pos) = pos[Len(received) + 1]
        BY <1>1, <2>2 DEF Taken
      <3>2. Taken(pos) < pos[Len(meant) + 1]
        <4>1. PICK a \in Nat, b \in Nat, l \in Nat, x \in Nat, w \in Nat, y \in Nat :
                  /\ a = Taken(pos) /\ b = Len(recvBuf) /\ l = Len(wire)
                  /\ x = pos[Current] /\ w = written /\ y = pos[Len(meant) + 1]
          BY <1>1
        <4>2. a + (b + l) = x + w /\ x + w <= y /\ b > 0
          BY <1>1, <2>2, <4>1
        <4>3. a < y
          BY <4>2
        <4> QED
          BY <4>1, <4>3
      <3>3. Len(received) # Len(meant)
        BY <1>1, <3>1, <3>2
      <3> QED
        BY <1>1, <3>3, FrontFacts DEF ReceiverInv
    <2> QED
      BY <2>1, <2>2
  <1>3. ASSUME NEW i \in 1..Len(meant), NEW k \in 1..Size(meant[i]),
               Taken(pos) < pos[i] + k, pos[i] + k <= Taken(pos) + Len(recvBuf)
        PROVE  recvBuf[(pos[i] + k) - Taken(pos)] = Frame(meant[i])[k]
    <2>1. pos[i] \in Nat /\ Size(meant[i]) \in Nat
      BY PlaceFacts DEF SenderInv
    <2>8. pos[i] + k \in Nat
      BY <2>1
    <2>2. PICK p \in Nat, a \in Nat, b \in Nat, l \in Nat :
              /\ p = pos[i] + k /\ a = Taken(pos) /\ b = Len(recvBuf) /\ l = Len(wire)
      BY <1>1, <2>8
    <2>3. a < p /\ p <= a + b
      BY <1>3, <2>2
    <2>4. p - a \in 1..b /\ p <= a + (b + l)
      BY <2>3
    <2>5. bs[p - a] = recvBuf[p - a]
      <3>1. p - a \in 1..(Len(recvBuf) + Len(wire)) /\ p - a <= Len(recvBuf)
        BY <2>2, <2>4
      <3>2. recvBuf \in Seq(Octet) /\ wire \in Seq(Octet)
        BY DEF ReceiverInv
      <3> QED
        BY <3>1, <3>2, ConcatProperties
    <2> HIDE DEF bs
    <2>6. Taken(pos) < pos[i] + k /\ pos[i] + k <= Taken(pos) + Len(bs)
      BY <1>1, <1>3, <2>2, <2>4
    <2>7. bs[(pos[i] + k) - Taken(pos)] = Frame(meant[i])[k]
      BY <2>6 DEF Carries, bs
    <2> QED
      BY <2>2, <2>5, <2>7
  <1> QED
    BY <1>2, <1>3

(* The length that readHead finds is that of the next message.             *)
LEMMA ReadHeadEffect ==
    ASSUME WireInv, readHead
    PROVE  /\ Len(received) < Len(meant)
           /\ recvBuf[1][2] = ByteSize(meant[Len(received) + 1])
           /\ ByteSize(meant[Len(received) + 1]) \in Nat
  <1>1. SenderInv /\ ReceiverInv /\ StreamInv
    BY DEF WireInv
  <1>2. reading.part = "head" /\ Len(recvBuf) = HeadSize
    BY <1>1 DEF readHead, ReceiverInv
  <1>3. PICK pos : /\ Places(pos, meant)
                   /\ Taken(pos) + (Len(recvBuf) + Len(wire)) = pos[Current] + written
                   /\ Carries(pos, meant, Taken(pos), recvBuf \o wire)
    BY <1>1 DEF StreamInv
  <1>4. HeadSize \in Nat /\ HeadSize > 0
    BY Sizes
  <1>5. Len(received) < Len(meant)
    BY <1>1, <1>2, <1>3, <1>4, ReceivedPart
  <1> DEFINE i == Len(received) + 1
             m == meant[i]
  <1>6. i \in 1..Len(meant) /\ m \in Message /\ pos[i] \in Nat
    BY <1>1, <1>3, <1>5, EndsFacts
  <1>7. /\ ByteSize(m) \in Nat /\ 1 \in 1..Size(m) /\ 1 \in 1..HeadSize
        /\ Frame(m)[1] = <<"head", ByteSize(m), 1>>
    BY <1>4, <1>6, FrameFacts
  <1>8. Taken(pos) = pos[i]
    BY <1>2, <1>6 DEF Taken
  <1> HIDE DEF i
  <1>9. (pos[i] + 1) - Taken(pos) = 1 /\ Taken(pos) < pos[i] + 1
        /\ pos[i] + 1 <= Taken(pos) + Len(recvBuf)
    BY <1>2, <1>4, <1>6, <1>8
  <1>10. recvBuf[(pos[i] + 1) - Taken(pos)] = Frame(m)[1]
    BY <1>1, <1>3, <1>6, <1>7, <1>9, ReceivedPart
  <1>11. recvBuf[1] = <<"head", ByteSize(m), 1>>
    BY <1>7, <1>9, <1>10
  <1>12. recvBuf[1][2] = ByteSize(m)
    BY <1>11
  <1> QED
    BY <1>5, <1>7, <1>12 DEF i

LEMMA readHeadStep ==
    ASSUME WireInv, readHead
    PROVE  WireInv'
  <1>1. SenderInv /\ ReceiverInv /\ StreamInv
    BY DEF WireInv
  <1>2. /\ Len(received) < Len(meant)
        /\ recvBuf[1][2] = ByteSize(meant[Len(received) + 1])
        /\ ByteSize(meant[Len(received) + 1]) \in Nat
    BY ReadHeadEffect
  <1>3. /\ reading.part = "head" /\ Len(recvBuf) = HeadSize
        /\ reading' = [part |-> "body", size |-> recvBuf[1][2]] /\ recvBuf' = <<>>
        /\ msgID' = msgID /\ msgQueue' = msgQueue /\ meant' = meant /\ writing' = writing
        /\ written' = written /\ wire' = wire /\ received' = received
    BY <1>1 DEF readHead, sender, ReceiverInv
  <1>4. reading'.part = "body" /\ reading'.size = recvBuf[1][2] /\ Len(recvBuf') = 0
    BY <1>3
  <1>5. SenderInv'
    BY <1>1, <1>3 DEF SenderInv, Current
  <1>6. ReceiverInv'
    <2>1. recvBuf' \in Seq(Octet) /\ Len(recvBuf') <= reading'.size
      BY <1>2, <1>3, <1>4, EmptySeq
    <2>2. reading' \in [part : {"head", "body"}, size : Nat]
      BY <1>2, <1>3
    <2> QED
      BY <1>1, <1>2, <1>3, <1>4, <2>1, <2>2 DEF ReceiverInv
  <1>7. StreamInv'
    <2>1. PICK pos : /\ Places(pos, meant)
                     /\ Taken(pos) + (Len(recvBuf) + Len(wire)) = pos[Current] + written
                     /\ Carries(pos, meant, Taken(pos), recvBuf \o wire)
      BY <1>1 DEF StreamInv
    <2>2. /\ Taken(pos) \in Nat /\ Len(recvBuf) \in Nat /\ Len(wire) \in Nat
          /\ pos[Len(received) + 1] \in Nat
      BY <1>1, <2>1, EndsFacts
    <2>3. Taken(pos) = pos[Len(received) + 1]
      BY <1>3, <2>2 DEF Taken
    <2>4. Taken(pos)' = Taken(pos) + Len(recvBuf) /\ Current' = Current
      <3>1. Taken(pos)' = pos[Len(received) + 1] + HeadSize
        BY <1>3, <1>4 DEF Taken
      <3>2. Current' = Current
        BY <1>3 DEF Current
      <3> QED
        BY <1>3, <2>3, <3>1, <3>2
    <2>5. wire \in Seq(Octet) /\ recvBuf \in Seq(Octet) /\ meant \in Seq(Message)
      BY <1>1 DEF ReceiverInv, SenderInv
    <2>6. Carries(pos, meant, Taken(pos) + Len(recvBuf), wire)
      BY <2>1, <2>2, <2>5, CarriesRead
    <2>7. recvBuf' \o wire' = wire
      BY <1>3, <2>5, ConcatEmptySeq
    <2>8. Taken(pos)' + (Len(recvBuf') + Len(wire')) = pos[Current'] + written'
      <3>1. Len(wire') = Len(wire) /\ pos[Current'] = pos[Current] /\ written' = written
        BY <1>3, <2>4
      <3>2. (Taken(pos) + Len(recvBuf)) + (0 + Len(wire)) = Taken(pos) + (Len(recvBuf) + Len(wire))
        BY <2>2
      <3> QED
        BY <1>4, <2>1, <2>4, <3>1, <3>2
    <2> QED
      BY <1>3, <2>1, <2>4, <2>6, <2>7, <2>8 DEF StreamInv
  <1> QED
    BY <1>5, <1>6, <1>7 DEF WireInv

(* What readBody parses is the next message, as it was meant.              *)
LEMMA ReadBodyEffect ==
    ASSUME WireInv, readBody
    PROVE  /\ Len(received) < Len(meant)
           /\ received' = Append(received, meant[Len(received) + 1])
           /\ meant[Len(received) + 1] \in Message
           /\ Len(recvBuf) = ByteSize(meant[Len(received) + 1])
  <1>1. SenderInv /\ ReceiverInv /\ StreamInv
    BY DEF WireInv
  <1> DEFINE i == Len(received) + 1
             m == meant[i]
  <1>2. /\ reading.part = "body" /\ Len(recvBuf) = ByteSize(m) /\ Len(received) < Len(meant)
        /\ recvBuf \in Seq(Octet)
    BY <1>1 DEF readBody, ReceiverInv
  <1>3. PICK pos : /\ Places(pos, meant)
                   /\ Taken(pos) + (Len(recvBuf) + Len(wire)) = pos[Current] + written
                   /\ Carries(pos, meant, Taken(pos), recvBuf \o wire)
    BY <1>1 DEF StreamInv
  <1>4. i \in 1..Len(meant) /\ m \in Message /\ pos[i] \in Nat
    BY <1>1, <1>2, <1>3, EndsFacts
  <1>5. Taken(pos) = pos[i] + HeadSize
    BY <1>2 DEF Taken
  <1>6. /\ HeadSize \in Nat /\ HeadSize > 0 /\ ByteSize(m) \in Nat
        /\ Size(m) = HeadSize + ByteSize(m)
        /\ \A k \in 1..ByteSize(m) : Frame(m)[HeadSize + k] = Serialize(m)[k]
    BY <1>4, FrameFacts
  <1>7. Serialize(m) \in Seq(Octet) /\ Len(Serialize(m)) = ByteSize(m)
        /\ Encodes(Serialize(m), Fields, m)
    BY <1>4, SerializeFacts
  <1>8. ASSUME NEW k \in 1..Len(recvBuf) PROVE recvBuf[k] = Serialize(m)[k]
    <2>1. PICK p \in Nat, h \in Nat, b \in Nat :
              p = pos[i] /\ h = HeadSize /\ b = ByteSize(m)
      BY <1>4, <1>6
    <2>2. k \in 1..b /\ h > 0
      BY <1>2, <1>6, <1>8, <2>1
    <2>3. /\ (p + (h + k)) - (p + h) = k /\ p + h < p + (h + k)
          /\ p + (h + k) <= (p + h) + b /\ h + k \in 1..(h + b)
      BY <2>2
    <2>4. /\ (pos[i] + (HeadSize + k)) - Taken(pos) = k /\ Taken(pos) < pos[i] + (HeadSize + k)
          /\ pos[i] + (HeadSize + k) <= Taken(pos) + Len(recvBuf)
          /\ HeadSize + k \in 1..Size(meant[i])
      BY <1>2, <1>5, <1>6, <2>1, <2>3
    <2>5. recvBuf[(pos[i] + (HeadSize + k)) - Taken(pos)] = Frame(meant[i])[HeadSize + k]
      BY <1>1, <1>3, <1>4, <2>4, ReceivedPart
    <2> QED
      BY <1>2, <1>6, <2>4, <2>5
  <1> HIDE DEF m
  <1>9. recvBuf = Serialize(m)
    BY <1>2, <1>7, <1>8, SeqEqual
  <1>10. Parses(recvBuf) /\ Parsed(recvBuf) = m
    BY <1>4, <1>7, <1>9, ParsingFacts
  <1>11. received' = Append(received, m)
    BY <1>10 DEF readBody
  <1> QED
    BY <1>2, <1>4, <1>11 DEF m

LEMMA readBodyStep ==
    ASSUME WireInv, readBody
    PROVE  WireInv'
  <1>1. SenderInv /\ ReceiverInv /\ StreamInv
    BY DEF WireInv
  <1> DEFINE m == meant[Len(received) + 1]
             r == Len(received)
  <1>2. /\ r < Len(meant) /\ received' = Append(received, m) /\ m \in Message
        /\ Len(recvBuf) = ByteSize(m)
    BY ReadBodyEffect
  <1>3. /\ reading.part = "body"
        /\ reading' = [part |-> "head", size |-> HeadSize] /\ recvBuf' = <<>>
        /\ msgID' = msgID /\ msgQueue' = msgQueue /\ meant' = meant /\ writing' = writing
        /\ written' = written /\ wire' = wire
    BY DEF readBody, sender
  <1>4. reading'.part = "head" /\ reading'.size = HeadSize /\ Len(recvBuf') = 0
    BY <1>3
  <1>5. /\ r \in Nat /\ Len(meant) \in Nat /\ received \in Seq(Message)
        /\ \A k \in 1..r : received[k] = meant[k]
    BY <1>1, FrontFacts DEF ReceiverInv
  <1>6. /\ received' \in Seq(Message) /\ Len(received') = r + 1 /\ received'[r + 1] = m
        /\ \A k \in 1..r : received'[k] = received[k]
    BY <1>2, <1>5, AppendProperties
  <1>7. SenderInv'
    BY <1>1, <1>3 DEF SenderInv, Current
  <1>8. ReceiverInv'
    <2>1. HeadSize \in Nat
      BY Sizes
    <2>2. recvBuf' \in Seq(Octet) /\ Len(recvBuf') <= reading'.size
      BY <1>3, <1>4, <2>1, EmptySeq
    <2>3. reading' \in [part : {"head", "body"}, size : Nat]
      BY <1>3, <2>1
    <2>4. Len(received') <= Len(meant')
      BY <1>2, <1>3, <1>5, <1>6
    <2>5. ASSUME NEW k \in 1..Len(received') PROVE received'[k] = meant'[k]
      <3>1. CASE k = r + 1
        BY <1>3, <1>6, <3>1
      <3>2. CASE k \in 1..r
        BY <1>3, <1>5, <1>6, <3>2
      <3>3. k = r + 1 \/ k \in 1..r
        BY <1>5, <1>6
      <3> QED
        BY <3>1, <3>2, <3>3
    <2> QED
      BY <1>1, <1>3, <1>4, <1>6, <2>2, <2>3, <2>4, <2>5 DEF ReceiverInv
  <1>9. StreamInv'
    <2>1. PICK pos : /\ Places(pos, meant)
                     /\ Taken(pos) + (Len(recvBuf) + Len(wire)) = pos[Current] + written
                     /\ Carries(pos, meant, Taken(pos), recvBuf \o wire)
      BY <1>1 DEF StreamInv
    <2>2. /\ Taken(pos) \in Nat /\ Len(recvBuf) \in Nat /\ Len(wire) \in Nat
          /\ pos[r + 1] \in Nat /\ pos[r + 2] = pos[r + 1] + (HeadSize + ByteSize(m))
      BY <1>1, <1>2, <2>1, EndsFacts
    <2>3. Taken(pos) = pos[r + 1] + HeadSize
      BY <1>3 DEF Taken
    <2>4. Taken(pos)' = Taken(pos) + Len(recvBuf) /\ Current' = Current
      <3>1. Taken(pos)' = pos[Len(received') + 1] + 0
        BY <1>4 DEF Taken
      <3>2. Len(received') + 1 = r + 2
        BY <1>5, <1>6
      <3>3. pos[r + 2] = Taken(pos) + Len(recvBuf)
        <4>1. HeadSize \in Nat
          BY Sizes
        <4>2. pos[r + 1] + (HeadSize + ByteSize(m)) = (pos[r + 1] + HeadSize) + ByteSize(m)
          BY <1>2, <2>2, <4>1
        <4> QED
          BY <1>2, <2>2, <2>3, <4>2
      <3>4. pos[r + 2] \in Nat
        BY <2>2, <3>3
      <3>5. Current' = Current
        BY <1>3 DEF Current
      <3> QED
        BY <3>1, <3>2, <3>3, <3>4, <3>5
    <2>5. wire \in Seq(Octet) /\ recvBuf \in Seq(Octet) /\ meant \in Seq(Message)
      BY <1>1 DEF ReceiverInv, SenderInv
    <2>6. Carries(pos, meant, Taken(pos) + Len(recvBuf), wire)
      BY <2>1, <2>2, <2>5, CarriesRead
    <2>7. recvBuf' \o wire' = wire
      BY <1>3, <2>5, ConcatEmptySeq
    <2>8. Taken(pos)' + (Len(recvBuf') + Len(wire')) = pos[Current'] + written'
      <3>1. Len(wire') = Len(wire) /\ pos[Current'] = pos[Current] /\ written' = written
        BY <1>3, <2>4
      <3>2. (Taken(pos) + Len(recvBuf)) + (0 + Len(wire)) = Taken(pos) + (Len(recvBuf) + Len(wire))
        BY <2>2
      <3> QED
        BY <1>4, <2>1, <2>4, <3>1, <3>2
    <2> QED
      BY <1>3, <2>1, <2>4, <2>6, <2>7, <2>8 DEF StreamInv
  <1> QED
    BY <1>7, <1>8, <1>9 DEF WireInv

-----------------------------------------------------------------------------
(* The invariant, and what follows from it.                                *)

LEMMA WireStep == WireInv /\ [Next]_vars => WireInv'
  <1> SUFFICES ASSUME WireInv, [Next]_vars PROVE WireInv'
    OBVIOUS
  <1>1. CASE Send
    BY <1>1, SendStep
  <1>2. ASSUME Take PROVE WireInv'
    <2>1. PICK n \in 1..(IF writing THEN Len(Buffers) ELSE 0) : WriteSome(n)
      BY <1>2 DEF Take
    <2>2. n \in Nat
      <3>1. writing => Len(Buffers) \in Nat
        BY FrontFacts DEF WireInv, SenderInv
      <3> QED
        BY <2>1, <3>1
    <2> QED
      BY <2>1, <2>2, WriteSomeStep
  <1>3. CASE WriteDone
    BY <1>3, WriteDoneStep
  <1>4. ASSUME Give PROVE WireInv'
    BY <1>4, ReadSomeStep DEF Give
  <1>5. CASE readHead
    BY <1>5, readHeadStep
  <1>6. CASE readBody
    BY <1>6, readBodyStep
  <1>7. CASE UNCHANGED vars
    <2>1. /\ msgID' = msgID /\ msgQueue' = msgQueue /\ meant' = meant /\ writing' = writing
          /\ written' = written /\ wire' = wire /\ reading' = reading
          /\ recvBuf' = recvBuf /\ received' = received
      BY <1>7 DEF vars, sender, receiver
    <2>2. SenderInv' /\ Current' = Current
      BY <2>1 DEF WireInv, SenderInv, Current
    <2>3. ReceiverInv'
      BY <2>1 DEF WireInv, ReceiverInv
    <2>4. StreamInv'
      BY <2>1, <2>2 DEF WireInv, StreamInv, Taken
    <2> QED
      BY <2>2, <2>3, <2>4 DEF WireInv
  <1> QED
    BY <1>1, <1>2, <1>3, <1>4, <1>5, <1>6, <1>7 DEF Next

LEMMA WireInvariant == Spec => []WireInv
  BY WireInit, WireStep, PTL DEF Spec

(* The ids stay within what is sent, only what can be a message is queued  *)
(* or parsed, no more is written of the front of _msgQueue than there is,  *)
(* and async_read never fills _recvBuf beyond what was asked for.          *)
THEOREM WireTypes == Spec => []TypeOK
  <1>1. WireInv => TypeOK
    <2> SUFFICES ASSUME WireInv PROVE TypeOK
      OBVIOUS
    <2>1. SenderInv /\ ReceiverInv
      BY DEF WireInv
    <2>2. msgID \in 1..(MaxSend + 1)
      <3>1. /\ msgID \in 1..(Len(meant) + 1) /\ Len(meant) \in Nat /\ Len(meant) <= MaxSend
            /\ MaxSend \in Nat
        BY <2>1, FrontFacts, Sizes DEF SenderInv
      <3> QED
        BY <3>1
    <2>3. written \in 0..(IF writing THEN Len(Buffers) ELSE 0)
      <3>1. CASE msgQueue = <<>>
        <4>1. ~writing /\ written = 0
          BY <2>1, <3>1 DEF SenderInv
        <4> QED
          BY <4>1
      <3>2. CASE msgQueue # <<>>
        <4>1. writing /\ written \in Nat /\ written <= Size(meant[Current])
          BY <2>1, <3>2 DEF SenderInv
        <4>2. Len(Buffers) = Size(meant[Current]) /\ Size(meant[Current]) \in Nat
          BY <2>1, <3>2, FrontFacts
        <4> QED
          BY <4>1, <4>2
      <3> QED
        BY <3>1, <3>2
    <2>4. writing \in BOOLEAN /\ reading.part \in {"head", "body"}
      BY <2>1 DEF SenderInv, ReceiverInv
    <2> QED
      BY <2>1, <2>2, <2>3, <2>4 DEF TypeOK, SenderInv, ReceiverInv
  <1> QED
    BY <1>1, WireInvariant, PTL

(* However the bytes are cut into pieces, readBody parses the messages     *)
(* that were queued, unchanged and in their order, an answer that was kept *)
(* in serialized form under the id of its request.                         *)
THEOREM ReceivedInOrder == Spec => []ReceivedAsMeant
  <1>1. WireInv => ReceivedAsMeant
    <2> SUFFICES ASSUME WireInv PROVE ReceivedAsMeant
      OBVIOUS
    <2> DEFINE r == Len(received)
    <2>1. /\ received \in Seq(Message) /\ meant \in Seq(Message)
          /\ r \in Nat /\ Len(meant) \in Nat /\ r <= Len(meant)
          /\ \A k \in 1..r : received[k] = meant[k]
      BY FrontFacts DEF WireInv, SenderInv, ReceiverInv
    <2>2. /\ SubSeq(received, 1, r) = [k \in 1..r |-> received[k]]
          /\ SubSeq(meant, 1, r) = [k \in 1..r |-> meant[k]]
      BY <2>1
    <2>3. SubSeq(received, 1, r) = SubSeq(meant, 1, r)
      BY <2>1, <2>2
    <2> QED
      BY <2>1, <2>3 DEF ReceivedAsMeant, IsPrefix
  <1> QED
    BY <1>1, WireInvariant, PTL

(* A message that has not been parsed is on its way: it is being written,  *)
(* or bytes that the reader waits for are in the network, or the reader    *)
(* has all that it waits for.                                              *)
THEOREM NobodyStarves == Spec => []NeverStarved
  <1>1. WireInv => NeverStarved
    <2> SUFFICES ASSUME WireInv, Len(received) < Len(meant), ~writing,
                        Len(recvBuf) # reading.size
                 PROVE  wire # <<>> /\ Len(recvBuf) < reading.size
      BY DEF NeverStarved
    <2>1. SenderInv /\ ReceiverInv /\ StreamInv
      BY DEF WireInv
    <2>2. PICK pos : /\ Places(pos, meant)
                     /\ Taken(pos) + (Len(recvBuf) + Len(wire)) = pos[Current] + written
      BY <2>1 DEF StreamInv
    <2>3. Current = Len(meant) + 1 /\ written = 0
      BY <2>1, FrontFacts DEF SenderInv
    <2>4. /\ Len(received) \in Nat /\ Len(meant) \in Nat /\ Len(recvBuf) \in Nat /\ Len(wire) \in Nat
          /\ Len(received) + 1 \in 1..Len(meant) /\ meant[Len(received) + 1] \in Message
          /\ pos[Len(received) + 1] \in Nat /\ pos[Len(received) + 2] \in Nat
          /\ Taken(pos) \in Nat /\ pos[Len(meant) + 1] \in Nat
          /\ pos[Len(received) + 2]
             = pos[Len(received) + 1] + (HeadSize + ByteSize(meant[Len(received) + 1]))
      BY <2>1, <2>2, EndsFacts, FrontFacts
    <2>5. /\ HeadSize \in Nat /\ ByteSize(meant[Len(received) + 1]) \in Nat
          /\ reading.size \in Nat /\ Len(recvBuf) < reading.size
      <3>1. reading.size \in Nat /\ Len(recvBuf) <= reading.size
        BY <2>1 DEF ReceiverInv
      <3>2. HeadSize \in Nat /\ ByteSize(meant[Len(received) + 1]) \in Nat
        BY <2>4, FrameFacts
      <3> QED
        BY <2>4, <3>1, <3>2
    <2>6. pos[Len(received) + 2] <= pos[Len(meant) + 1]
      <3>1. /\ Len(received) + 2 \in 1..(Len(meant) + 1) /\ Len(meant) + 1 \in 1..(Len(meant) + 1)
            /\ Len(received) + 2 <= Len(meant) + 1
        BY <2>4
      <3> QED
        BY <2>2, <3>1 DEF Places
    <2>7. Taken(pos) + reading.size <= pos[Len(received) + 2]
      <3>1. CASE reading.part = "body"
        <4>1. Taken(pos) = pos[Len(received) + 1] + HeadSize
              /\ reading.size = ByteSize(meant[Len(received) + 1])
          BY <2>1, <3>1 DEF Taken, ReceiverInv
        <4> QED
          BY <2>4, <2>5, <4>1
      <3>2. CASE reading.part # "body"
        <4>1. Taken(pos) = pos[Len(received) + 1] /\ reading.size = HeadSize
          BY <2>1, <2>4, <3>2 DEF Taken, ReceiverInv
        <4> QED
          BY <2>4, <2>5, <4>1
      <3> QED
        BY <3>1, <3>2
    <2>8. Len(wire) > 0
      <3>1. PICK a \in Nat, b \in Nat, l \in Nat, s \in Nat, x \in Nat, y \in Nat :
                /\ a = Taken(pos) /\ b = Len(recvBuf) /\ l = Len(wire) /\ s = reading.size
                /\ x = pos[Len(received) + 2] /\ y = pos[Len(meant) + 1]
        BY <2>4, <2>5
      <3>2. a + (b + l) = y /\ b < s /\ a + s <= x /\ x <= y
        BY <2>2, <2>3, <2>4, <2>5, <2>6, <2>7, <3>1
      <3>3. l > 0
        BY <3>2
      <3> QED
        BY <3>1, <3>3
    <2> QED
      BY <2>5, <2>8
  <1> QED
    BY <1>1, WireInvariant, PTL

(* Whatever is queued is the serialized form of a message.                 *)
LEMMA SendEffect ==
    ASSUME WireInv, Send
    PROVE  /\ \E m \in Message : meant' = Append(meant, m)
           /\ received' = received
  <1>1. PICK method \in Methods :
            \/ \E content \in Contents :
                  \/ Request(method, content)
                  \/ \E id \in Ids : RespondCached(id, method, content, 0)
                  \/ \E id \in Ids, e \in Errors : RespondError(id, method, content, e)
            \/ \E id \in Ids, e \in Errors : RespondCached(id, method, 0, e)
    BY DEF Send
  <1>2. ASSUME NEW content \in Contents, Request(method, content)
        PROVE  \E m \in Message : meant' = Append(meant, m) /\ received' = received
    BY <1>2, RequestMessage DEF Request, Queue, receiver
  <1>3. ASSUME NEW content \in Contents \cup {0}, NEW id \in Ids, NEW e \in Errors \cup {0},
               RespondCached(id, method, content, e)
        PROVE  \E m \in Message : meant' = Append(meant, m) /\ received' = received
    BY <1>3, CachedFacts DEF RespondCached, WithId, Queue, receiver
  <1>4. ASSUME NEW content \in Contents, NEW id \in Ids, NEW e \in Errors,
               RespondError(id, method, content, e)
        PROVE  \E m \in Message : meant' = Append(meant, m) /\ received' = received
    <2>1. [Answer(method, content, e) EXCEPT !["id"] = id] \in Message
      BY DEF Message, Answer, Fields
    <2> QED
      BY <1>4, <2>1 DEF RespondError, Queue, receiver
  <1>5. \E m \in Message : meant' = Append(meant, m) /\ received' = received
    BY <1>1, <1>2, <1>3, <1>4
  <1> QED
    BY <1>5

(* Two connected sessions are a first-in first-out channel of messages:    *)
(* request() and both queueRspMsg hand a message over, readBody delivers   *)
(* the next one, and no other step shows.                                  *)
THEOREM WireIsAChannel == Spec => ImplementsChannel
  <1>1. Init => Abs!Init
    BY DEF Init, Abs!Init
  <1>2. WireInv /\ [Next]_vars => [Abs!Next]_<<meant, received>>
    <2> SUFFICES ASSUME WireInv, [Next]_vars PROVE [Abs!Next]_<<meant, received>>
      OBVIOUS
    <2>1. CASE Send
      <3>1. PICK m \in Message : meant' = Append(meant, m) /\ received' = received
        BY <2>1, SendEffect
      <3>2. Abs!Send(m)
        BY <3>1 DEF Abs!Send
      <3> QED
        BY <3>2 DEF Abs!Next
    <2>2. CASE readBody
      <3>1. Abs!Deliver
        BY <2>2, ReadBodyEffect DEF Abs!Deliver, readBody, sender
      <3> QED
        BY <3>1 DEF Abs!Next
    <2>3. CASE Take
      BY <2>3 DEF Take, WriteSome, sender, receiver
    <2>4. CASE WriteDone
      BY <2>4 DEF WriteDone, receiver
    <2>5. CASE Give
      BY <2>5 DEF Give, ReadSome, sender
    <2>6. CASE readHead
      BY <2>6 DEF readHead, sender
    <2>7. CASE UNCHANGED vars
      BY <2>7 DEF vars, sender, receiver
    <2> QED
      BY <2>1, <2>2, <2>3, <2>4, <2>5, <2>6, <2>7 DEF Next
  <1> QED
    BY <1>1, <1>2, WireInvariant, PTL DEF Spec, ImplementsChannel, Abs!Spec
=============================================================================
