---------------------------- MODULE LayoutProofs ----------------------------
(***************************************************************************)
(* Lemmas about the layout of a packet (PacketLayout), for packets of any  *)
(* flags and lengths, and about the values made of its bytes (FieldBits).  *)
(*                                                                         *)
(* A layout is a sequence of named fields with sizes.  The lemmas say how  *)
(* sizes and places add up when sequences are joined, when a field has a   *)
(* place of its own, and how the layout of each unit splits at any field   *)
(* into what stands before, at and behind it.  Sums over sequences, and    *)
(* chains of additions with carries, are recursive functions: what they    *)
(* yield is proved with SetInduction, induction stated of a set instead of *)
(* a predicate.                                                            *)
(***************************************************************************)
EXTENDS PacketLayout, FieldBits, SequenceTheorems, WellFoundedInduction, TLAPS

\* A set that holds 0 and, with each number, the next holds all numbers.
LEMMA SetInduction ==
    ASSUME NEW S, 0 \in S, \A n \in Nat : n \in S => n + 1 \in S
    PROVE  Nat \subseteq S
<1> DEFINE T == {n \in Nat : n \notin S}
           R == {ss \in Nat \X Nat : ss[1] < ss[2]}
<1> SUFFICES ASSUME T # {} PROVE FALSE
  OBVIOUS
<1>1. IsWellFoundedOn(R, Nat)
  BY NatLessThanWellFounded DEF OpToRel
<1>2. T \subseteq Nat
  OBVIOUS
<1>3. PICK x \in T : \A y \in T : <<y, x>> \notin R
  BY <1>1, <1>2, WFMin
<1>4. x \in Nat /\ x # 0
  OBVIOUS
<1>5. x - 1 \in Nat /\ <<x - 1, x>> \in R
  BY <1>4
<1>6. x - 1 \in S
  BY <1>3, <1>5
<1>7. (x - 1) + 1 = x
  BY <1>4
<1> QED BY <1>5, <1>6, <1>7

-----------------------------------------------------------------------------
(* Running sums.                                                           *)

\* What the fields of a packet are called.
FieldNames ==
    {"header", "adaptation_field_length_", "adaptation_flags", "pcr", "opcr",
     "splice_countdown_", "transport_private_data_length_", "private_data_byte_",
     "adaptation_field_extension_length_", "extension_flags", "ltw_offset_",
     "piecewise_rate_", "dts_next_au_", "stuffing",
     "packet_start_code_prefix_", "stream_id_", "pes_packet_length_", "pes_flags",
     "pes_header_data_length_", "pts_", "dts_", "escr_", "es_rate_",
     "trick_mode_control_", "additional_copy_info_", "previous_pes_packet_crc_",
     "pes_extension_flags", "pes_private_data_", "pack_field_length_", "pack_header",
     "program_packet_sequence_counter_", "p_std_buffer_size_",
     "pes_extension_field_length_",
     "pointer_field_", "table_id_", "section_length_", "table_id_extension",
     "version_number_", "section_number_", "last_section_number_", "pcr_pid_",
     "program_info_length_", "program_info", "list", "crc_32_"}

FieldSeq == Seq(FieldNames \X Int)

\* f adds up the sizes of the first n of the fields.
AddsUp(fields, n, f) ==
    f = [i \in 0 .. n |-> IF i = 0 THEN 0 ELSE f[i - 1] + fields[i][2]]

\* There is one such function, and what it adds up.
LEMMA OneSum ==
    ASSUME NEW s \in FieldSeq, NEW n \in 0 .. Len(s)
    PROVE  \E f \in [0 .. n -> Int] : AddsUp(s, n, f)
<1> DEFINE S == {m \in Nat : m <= Len(s) => \E f \in [0 .. m -> Int] : AddsUp(s, m, f)}
<1>0. Len(s) \in Nat /\ \A i \in 1 .. Len(s) : s[i][2] \in Int
  BY ElementOfSeq, LenProperties DEF FieldSeq
<1>1. 0 \in S
  <2>1. [i \in 0 .. 0 |-> 0] \in [0 .. 0 -> Int] /\ AddsUp(s, 0, [i \in 0 .. 0 |-> 0])
    BY DEF AddsUp
  <2> QED BY <2>1
<1>2. ASSUME NEW m \in Nat, m \in S PROVE m + 1 \in S
  <2> SUFFICES ASSUME m + 1 <= Len(s)
               PROVE  \E f \in [0 .. m + 1 -> Int] : AddsUp(s, m + 1, f)
    OBVIOUS
  <2>1. PICK f \in [0 .. m -> Int] : AddsUp(s, m, f)
    BY <1>0, <1>2
  <2> DEFINE g == [i \in 0 .. m + 1 |-> IF i <= m THEN f[i] ELSE f[m] + s[m + 1][2]]
  <2>2. s[m + 1][2] \in Int
    BY <1>0
  <2>3. g \in [0 .. m + 1 -> Int]
    BY <2>2
  <2>4. ASSUME NEW i \in 0 .. m + 1
        PROVE  g[i] = IF i = 0 THEN 0 ELSE g[i - 1] + s[i][2]
    <3>1. CASE i <= m
      <4>1. f[i] = IF i = 0 THEN 0 ELSE f[i - 1] + s[i][2]
        BY <2>1, <3>1 DEF AddsUp
      <4> QED BY <3>1, <4>1
    <3>2. CASE i = m + 1
      BY <3>2
    <3> QED BY <3>1, <3>2
  <2>5. AddsUp(s, m + 1, g)
    BY <2>4 DEF AddsUp
  <2> QED BY <2>3, <2>5
<1>3. Nat \subseteq S
  BY <1>1, <1>2, SetInduction
<1> QED BY <1>0, <1>3

\* Two such functions agree where the shorter ends.
LEMMA SumsAgree ==
    \A s, t, n, m, f, g :
        /\ n \in Nat /\ m \in Nat /\ n <= m
        /\ AddsUp(s, n, f) /\ AddsUp(t, m, g)
        /\ \A i \in 1 .. n : s[i] = t[i]
        => f[n] = g[n]
<1> TAKE s, t, n, m, f, g
<1> HAVE /\ n \in Nat /\ m \in Nat /\ n <= m
         /\ AddsUp(s, n, f) /\ AddsUp(t, m, g)
         /\ \A i \in 1 .. n : s[i] = t[i]
<1> DEFINE S == {j \in Nat : j <= n => f[j] = g[j]}
<1>1. 0 \in S
  <2>1. f[0] = 0
    BY DEF AddsUp
  <2>2. g[0] = 0
    BY DEF AddsUp
  <2> QED BY <2>1, <2>2
<1>2. ASSUME NEW j \in Nat, j \in S PROVE j + 1 \in S
  <2> SUFFICES ASSUME j + 1 <= n PROVE f[j + 1] = g[j + 1]
    OBVIOUS
  <2>1. f[j] = g[j] /\ s[j + 1] = t[j + 1] /\ (j + 1) - 1 = j
    BY <1>2
  <2>2. f[j + 1] = f[(j + 1) - 1] + s[j + 1][2]
    BY DEF AddsUp
  <2>3. g[j + 1] = g[(j + 1) - 1] + t[j + 1][2]
    BY DEF AddsUp
  <2> QED BY <2>1, <2>2, <2>3
<1>3. Nat \subseteq S
  BY <1>1, <1>2, SetInduction
<1> QED BY <1>3

\* Bytes adds up.
LEMMA BytesAddsUp ==
    ASSUME NEW s \in FieldSeq, NEW n \in 0 .. Len(s),
           NEW f, AddsUp(s, n, f)
    PROVE  Bytes(s, n) = f[n]
<1> DEFINE sum == CHOOSE g : AddsUp(s, n, g)
<1>0. n \in Nat
  BY LenProperties DEF FieldSeq
<1>1. AddsUp(s, n, sum)
  OBVIOUS
<1>2. Bytes(s, n) = sum[n]
  BY DEF Bytes, AddsUp
<1>3. sum[n] = f[n]
  <2> HIDE DEF sum
  <2> QED BY <1>0, <1>1, SumsAgree
<1> QED BY <1>2, <1>3

\* What the first n fields come to: nothing, and each field as much as its size.
LEMMA RunningSum ==
    ASSUME NEW s \in FieldSeq
    PROVE  /\ Bytes(s, 0) = 0
           /\ \A n \in 0 .. Len(s) : Bytes(s, n) \in Int
           /\ \A n \in 1 .. Len(s) : Bytes(s, n) = Bytes(s, n - 1) + s[n][2]
<1>0. Len(s) \in Nat
  BY LenProperties DEF FieldSeq
<1>1. PICK f \in [0 .. Len(s) -> Int] : AddsUp(s, Len(s), f)
  BY <1>0, OneSum
<1>2. ASSUME NEW n \in 0 .. Len(s) PROVE Bytes(s, n) = f[n]
  <2>1. PICK g \in [0 .. n -> Int] : AddsUp(s, n, g)
    BY OneSum
  <2>2. Bytes(s, n) = g[n]
    BY <2>1, BytesAddsUp
  <2>3. g[n] = f[n]
    <3>1. n \in Nat /\ n <= Len(s)
      BY <1>0
    <3> QED BY <1>0, <1>1, <2>1, <3>1, SumsAgree
  <2> QED BY <2>2, <2>3
<1>3. f[0] = 0
  BY <1>0, <1>1 DEF AddsUp
<1>4. ASSUME NEW n \in 1 .. Len(s) PROVE Bytes(s, n) = Bytes(s, n - 1) + s[n][2]
  <2>1. n \in 0 .. Len(s) /\ n - 1 \in 0 .. Len(s)
    BY <1>0
  <2>2. f[n] = f[n - 1] + s[n][2]
    BY <1>0, <1>1 DEF AddsUp
  <2> QED BY <1>2, <2>1, <2>2
<1>5. Bytes(s, 0) = 0
  BY <1>0, <1>2, <1>3
<1>6. \A n \in 0 .. Len(s) : Bytes(s, n) \in Int
  BY <1>2
<1> QED BY <1>4, <1>5, <1>6

\* Behind other fields the sums go on from where those end.
LEMMA SumOfConcat ==
    ASSUME NEW s \in FieldSeq, NEW t \in FieldSeq
    PROVE  /\ s \o t \in FieldSeq
           /\ Len(s \o t) = Len(s) + Len(t)
           /\ \A n \in 0 .. Len(s) : Bytes(s \o t, n) = Bytes(s, n)
           /\ \A n \in 0 .. Len(t) : Bytes(s \o t, Len(s) + n) = Size(s) + Bytes(t, n)
           /\ Size(s \o t) = Size(s) + Size(t)
<1>1. /\ Len(s) \in Nat /\ Len(t) \in Nat
      /\ s \o t \in FieldSeq /\ Len(s \o t) = Len(s) + Len(t)
      /\ \A i \in 1 .. Len(s) : (s \o t)[i] = s[i]
      /\ \A i \in 1 .. Len(t) : (s \o t)[Len(s) + i] = t[i]
  <2>1. /\ s \o t \in FieldSeq /\ Len(s \o t) = Len(s) + Len(t)
        /\ \A i \in 1 .. Len(s) + Len(t) :
             (s \o t)[i] = IF i <= Len(s) THEN s[i] ELSE t[i - Len(s)]
    BY ConcatProperties DEF FieldSeq
  <2>2. Len(s) \in Nat /\ Len(t) \in Nat
    BY LenProperties DEF FieldSeq
  <2>3. ASSUME NEW i \in 1 .. Len(t) PROVE (s \o t)[Len(s) + i] = t[i]
    <3>1. (Len(s) + i) - Len(s) = i /\ ~(Len(s) + i <= Len(s))
          /\ Len(s) + i \in 1 .. Len(s) + Len(t)
      BY <2>2
    <3> QED BY <2>1, <3>1
  <2> QED BY <2>1, <2>2, <2>3
<1>2. ASSUME NEW n \in 0 .. Len(s) PROVE Bytes(s \o t, n) = Bytes(s, n)
  <2>1. PICK f \in [0 .. n -> Int] : AddsUp(s, n, f)
    BY OneSum
  <2>2. n \in 0 .. Len(s \o t)
    BY <1>1
  <2>3. PICK g \in [0 .. n -> Int] : AddsUp(s \o t, n, g)
    BY <1>1, <2>2, OneSum
  <2>4. f[n] = g[n]
    <3> DEFINE u == s \o t
    <3>1. n \in Nat /\ n <= n
      BY <1>1
    <3>2. \A i \in 1 .. n : s[i] = u[i]
      BY <1>1
    <3>3. AddsUp(u, n, g)
      BY <2>3
    <3> HIDE DEF u
    <3> QED BY <2>1, <3>1, <3>2, <3>3, SumsAgree
  <2>5. Bytes(s, n) = f[n]
    BY <2>1, BytesAddsUp
  <2>6. Bytes(s \o t, n) = g[n]
    BY <1>1, <2>2, <2>3, BytesAddsUp
  <2> QED BY <2>4, <2>5, <2>6
<1> DEFINE S == {n \in Nat : n <= Len(t) => Bytes(s \o t, Len(s) + n) = Size(s) + Bytes(t, n)}
<1>3. Size(s) \in Int /\ Bytes(t, 0) = 0
  BY <1>1, RunningSum DEF Size
<1>4. 0 \in S
  <2>1. Bytes(s \o t, Len(s) + 0) = Size(s)
    BY <1>1, <1>2 DEF Size
  <2> QED BY <1>3, <2>1
<1>5. ASSUME NEW n \in Nat, n \in S PROVE n + 1 \in S
  <2> SUFFICES ASSUME n + 1 <= Len(t)
               PROVE  Bytes(s \o t, Len(s) + (n + 1)) = Size(s) + Bytes(t, n + 1)
    OBVIOUS
  <2>1. Bytes(s \o t, Len(s) + n) = Size(s) + Bytes(t, n)
    BY <1>1, <1>5
  <2>2. Bytes(t, n + 1) = Bytes(t, n) + t[n + 1][2]
    <3>1. n + 1 \in 1 .. Len(t) /\ (n + 1) - 1 = n
      BY <1>1
    <3>2. Bytes(t, n + 1) = Bytes(t, (n + 1) - 1) + t[n + 1][2]
      BY <3>1, RunningSum
    <3> QED BY <3>1, <3>2
  <2>3. Bytes(s \o t, Len(s) + (n + 1)) = Bytes(s \o t, Len(s) + n) + t[n + 1][2]
    <3>1. Len(s) + (n + 1) \in 1 .. Len(s \o t) /\ Len(s) + (n + 1) - 1 = Len(s) + n
      BY <1>1
    <3>2. (s \o t)[Len(s) + (n + 1)] = t[n + 1]
      BY <1>1
    <3>3. Bytes(s \o t, Len(s) + (n + 1))
            = Bytes(s \o t, Len(s) + (n + 1) - 1) + (s \o t)[Len(s) + (n + 1)][2]
      <4> DEFINE u == s \o t
                 k == Len(s) + (n + 1)
      <4>1. u \in FieldSeq /\ k \in 1 .. Len(u)
        BY <1>1, <3>1
      <4>2. Bytes(u, k) = Bytes(u, k - 1) + u[k][2]
        <5> HIDE DEF u, k
        <5> QED BY <4>1, RunningSum
      <4> QED BY <4>2
    <3> QED BY <3>1, <3>2, <3>3
  <2>4. Bytes(t, n) \in Int /\ t[n + 1][2] \in Int
    <3>1. n \in 0 .. Len(t) /\ n + 1 \in 1 .. Len(t)
      BY <1>1
    <3>2. t[n + 1] \in FieldNames \X Int
      BY <3>1, ElementOfSeq DEF FieldSeq
    <3> QED BY <3>1, <3>2, RunningSum
  <2> QED BY <1>3, <2>1, <2>2, <2>3, <2>4
<1>6. Nat \subseteq S
  BY <1>4, <1>5, SetInduction
<1>7. ASSUME NEW n \in 0 .. Len(t)
      PROVE  Bytes(s \o t, Len(s) + n) = Size(s) + Bytes(t, n)
  BY <1>1, <1>6
<1>8. Size(s \o t) = Size(s) + Size(t)
  BY <1>1, <1>7 DEF Size
<1> QED BY <1>1, <1>2, <1>7, <1>8

\* Fields none of which has a negative size take no negative room.
NoneNegative(s) == \A i \in DOMAIN s : s[i][2] >= 0

\* They take no negative room, indeed.
LEMMA NotNegative ==
    ASSUME NEW s \in FieldSeq, NoneNegative(s)
    PROVE  Size(s) \in Nat
<1>0. Len(s) \in Nat /\ DOMAIN s = 1 .. Len(s)
  BY LenProperties DEF FieldSeq
<1> DEFINE S == {n \in Nat : n <= Len(s) => Bytes(s, n) >= 0}
<1>1. 0 \in S
  BY RunningSum
<1>2. ASSUME NEW n \in Nat, n \in S PROVE n + 1 \in S
  <2> SUFFICES ASSUME n + 1 <= Len(s) PROVE Bytes(s, n + 1) >= 0
    OBVIOUS
  <2>1. n \in 0 .. Len(s) /\ n + 1 \in 1 .. Len(s) /\ (n + 1) - 1 = n
    BY <1>0
  <2>2. Bytes(s, n + 1) = Bytes(s, (n + 1) - 1) + s[n + 1][2]
    BY <2>1, RunningSum
  <2>3. Bytes(s, n) \in Int /\ Bytes(s, n) >= 0
    BY <1>0, <1>2, <2>1, RunningSum
  <2>4. s[n + 1][2] \in Int /\ s[n + 1][2] >= 0
    <3>1. s[n + 1] \in FieldNames \X Int
      BY <2>1, ElementOfSeq DEF FieldSeq
    <3> QED BY <1>0, <2>1, <3>1 DEF NoneNegative
  <2> QED BY <2>1, <2>2, <2>3, <2>4
<1>3. Nat \subseteq S
  BY <1>1, <1>2, SetInduction
<1>4. Size(s) \in Int
  BY <1>0, RunningSum DEF Size
<1> QED BY <1>0, <1>3, <1>4 DEF Size

\* Two runs of fields have none of a negative size if neither has.
LEMMA NegativeParts ==
    ASSUME NEW s \in FieldSeq, NEW t \in FieldSeq
    PROVE  NoneNegative(s \o t) <=> NoneNegative(s) /\ NoneNegative(t)
<1>1. /\ Len(s) \in Nat /\ Len(t) \in Nat
      /\ DOMAIN s = 1 .. Len(s) /\ DOMAIN t = 1 .. Len(t)
      /\ DOMAIN (s \o t) = 1 .. Len(s) + Len(t)
      /\ \A i \in 1 .. Len(s) + Len(t) :
           (s \o t)[i] = IF i <= Len(s) THEN s[i] ELSE t[i - Len(s)]
  BY ConcatProperties, LenProperties DEF FieldSeq
<1>2. ASSUME NoneNegative(s \o t) PROVE NoneNegative(s)
  BY <1>1, <1>2 DEF NoneNegative
<1>3. ASSUME NoneNegative(s \o t) PROVE NoneNegative(t)
  <2> SUFFICES ASSUME NEW i \in 1 .. Len(t) PROVE t[i][2] >= 0
    BY <1>1 DEF NoneNegative
  <2>1. /\ Len(s) + i \in 1 .. Len(s) + Len(t)
        /\ ~(Len(s) + i <= Len(s)) /\ (Len(s) + i) - Len(s) = i
    BY <1>1
  <2>2. (s \o t)[Len(s) + i] = t[i]
    BY <1>1, <2>1
  <2> QED BY <1>1, <1>3, <2>1, <2>2 DEF NoneNegative
<1>4. ASSUME NoneNegative(s), NoneNegative(t) PROVE NoneNegative(s \o t)
  BY <1>1, <1>4 DEF NoneNegative
<1> QED BY <1>2, <1>3, <1>4

-----------------------------------------------------------------------------
(* Names and places.                                                       *)

Names(s)    == {s[i][1] : i \in DOMAIN s}
Distinct(s) == \A i, j \in DOMAIN s : s[i][1] = s[j][1] => i = j

\* Where field f begins among the fields of s.
At(s, f) == Bytes(s, (CHOOSE i \in DOMAIN s : s[i][1] = f) - 1)

\* A field of its own name begins where the fields before it end.
LEMMA AtIndex ==
    ASSUME NEW s \in FieldSeq, Distinct(s), NEW i \in 1 .. Len(s)
    PROVE  At(s, s[i][1]) = Bytes(s, i - 1)
<1>1. DOMAIN s = 1 .. Len(s)
  BY LenProperties DEF FieldSeq
<1> QED BY <1>1 DEF At, Distinct

\* Two groups of fields with different names, one behind the other.
LEMMA Joined ==
    ASSUME NEW s \in FieldSeq, NEW t \in FieldSeq, Distinct(s), Distinct(t),
           Names(s) \cap Names(t) = {}
    PROVE  /\ Distinct(s \o t)
           /\ \A f \in Names(s) : At(s \o t, f) = At(s, f)
           /\ \A f \in Names(t) : At(s \o t, f) = Size(s) + At(t, f)
<1> DEFINE u == s \o t
<1>1. /\ Len(s) \in Nat /\ Len(t) \in Nat /\ Len(u) = Len(s) + Len(t)
      /\ DOMAIN s = 1 .. Len(s) /\ DOMAIN t = 1 .. Len(t)
      /\ DOMAIN u = 1 .. Len(s) + Len(t) /\ u \in FieldSeq
      /\ \A i \in 1 .. Len(s) + Len(t) :
           u[i] = IF i <= Len(s) THEN s[i] ELSE t[i - Len(s)]
  BY ConcatProperties, LenProperties DEF FieldSeq
<1>2. \A i \in 1 .. Len(u) : u[i][1] = IF i <= Len(s) THEN s[i][1] ELSE t[i - Len(s)][1]
  BY <1>1
<1>3. Distinct(u)
  <2> SUFFICES ASSUME NEW i \in 1 .. Len(u), NEW j \in 1 .. Len(u), u[i][1] = u[j][1]
               PROVE  i = j
    BY <1>1 DEF Distinct
  <2> HIDE DEF u
  <2>1. CASE i <= Len(s) /\ j <= Len(s)
    BY <1>1, <1>2, <2>1 DEF Distinct
  <2>2. CASE ~(i <= Len(s)) /\ ~(j <= Len(s))
    <3>1. i - Len(s) \in 1 .. Len(t) /\ j - Len(s) \in 1 .. Len(t)
      BY <1>1, <2>2
    <3>2. t[i - Len(s)][1] = t[j - Len(s)][1]
      BY <1>2, <2>2
    <3>3. i - Len(s) = j - Len(s)
      BY <1>1, <3>1, <3>2 DEF Distinct
    <3> QED BY <1>1, <3>3
  <2>3. CASE i <= Len(s) /\ ~(j <= Len(s))
    <3>1. i \in 1 .. Len(s) /\ j - Len(s) \in 1 .. Len(t)
      BY <1>1, <2>3
    <3>2. s[i][1] = t[j - Len(s)][1]
      BY <1>2, <2>3
    <3> QED BY <1>1, <3>1, <3>2 DEF Names
  <2>4. CASE ~(i <= Len(s)) /\ j <= Len(s)
    <3>1. j \in 1 .. Len(s) /\ i - Len(s) \in 1 .. Len(t)
      BY <1>1, <2>4
    <3>2. s[j][1] = t[i - Len(s)][1]
      BY <1>2, <2>4
    <3> QED BY <1>1, <3>1, <3>2 DEF Names
  <2> QED BY <2>1, <2>2, <2>3, <2>4
<1>4. ASSUME NEW f \in Names(s) PROVE At(u, f) = At(s, f)
  <2>1. PICK i \in 1 .. Len(s) : f = s[i][1]
    BY <1>1 DEF Names
  <2>2. i \in 1 .. Len(u) /\ u[i][1] = f /\ i - 1 \in 0 .. Len(s)
    BY <1>1, <1>2, <2>1
  <2>3. At(s, f) = Bytes(s, i - 1)
    BY <2>1, AtIndex
  <2>4. At(u, f) = Bytes(u, i - 1)
    <3> HIDE DEF u
    <3> QED BY <1>1, <1>3, <2>2, AtIndex
  <2>5. Bytes(u, i - 1) = Bytes(s, i - 1)
    BY <2>2, SumOfConcat
  <2> QED BY <2>3, <2>4, <2>5
<1>5. ASSUME NEW f \in Names(t) PROVE At(u, f) = Size(s) + At(t, f)
  <2>1. PICK i \in 1 .. Len(t) : f = t[i][1]
    BY <1>1 DEF Names
  <2>2. /\ Len(s) + i \in 1 .. Len(u) /\ u[Len(s) + i][1] = f /\ i - 1 \in 0 .. Len(t)
        /\ (Len(s) + i) - 1 = Len(s) + (i - 1)
    <3>1. /\ Len(s) + i \in 1 .. Len(u) /\ ~(Len(s) + i <= Len(s)) /\ i - 1 \in 0 .. Len(t)
          /\ (Len(s) + i) - Len(s) = i /\ (Len(s) + i) - 1 = Len(s) + (i - 1)
      BY <1>1
    <3>2. u[Len(s) + i][1] = t[i][1]
      <4> HIDE DEF u
      <4> QED BY <1>2, <3>1
    <3> QED BY <2>1, <3>1, <3>2
  <2>3. At(t, f) = Bytes(t, i - 1)
    BY <2>1, AtIndex
  <2>4. At(u, f) = Bytes(u, (Len(s) + i) - 1)
    <3> HIDE DEF u
    <3> QED BY <1>1, <1>3, <2>2, AtIndex
  <2>5. Bytes(u, Len(s) + (i - 1)) = Size(s) + Bytes(t, i - 1)
    BY <2>2, SumOfConcat
  <2> QED BY <2>2, <2>3, <2>4, <2>5
<1> QED BY <1>3, <1>4, <1>5

\* The names of two groups.
LEMMA NamesOfConcat ==
    ASSUME NEW s \in FieldSeq, NEW t \in FieldSeq
    PROVE  Names(s \o t) = Names(s) \cup Names(t)
<1> DEFINE u == s \o t
<1>1. /\ Len(s) \in Nat /\ Len(t) \in Nat
      /\ DOMAIN s = 1 .. Len(s) /\ DOMAIN t = 1 .. Len(t)
      /\ DOMAIN u = 1 .. Len(s) + Len(t)
      /\ \A i \in 1 .. Len(s) + Len(t) :
           u[i] = IF i <= Len(s) THEN s[i] ELSE t[i - Len(s)]
  BY ConcatProperties, LenProperties DEF FieldSeq
<1>2. \A i \in 1 .. Len(s) : i \in DOMAIN u /\ u[i] = s[i]
  BY <1>1
<1>3. ASSUME NEW i \in 1 .. Len(t) PROVE Len(s) + i \in DOMAIN u /\ u[Len(s) + i] = t[i]
  <2>1. /\ Len(s) + i \in 1 .. Len(s) + Len(t) /\ ~(Len(s) + i <= Len(s))
        /\ (Len(s) + i) - Len(s) = i
    BY <1>1
  <2> QED BY <1>1, <2>1
<1>4. \A i \in DOMAIN u : \/ i \in DOMAIN s /\ u[i] = s[i]
                          \/ i - Len(s) \in DOMAIN t /\ u[i] = t[i - Len(s)]
  BY <1>1
<1> HIDE DEF u
<1>5. Names(s) \cup Names(t) \subseteq Names(u)
  BY <1>1, <1>2, <1>3 DEF Names
<1>6. Names(u) \subseteq Names(s) \cup Names(t)
  BY <1>4 DEF Names
<1>7. u = s \o t
  BY DEF u
<1> QED BY <1>5, <1>6, <1>7

\* One field, and none.
LEMMA OneField ==
    ASSUME NEW name \in FieldNames, NEW n \in Int
    PROVE  /\ Field(name, n) \in FieldSeq
           /\ Size(Field(name, n)) = n
           /\ Names(Field(name, n)) = {name}
           /\ Distinct(Field(name, n))
           /\ At(Field(name, n), name) = 0
           /\ n >= 0 => NoneNegative(Field(name, n))
<1> DEFINE s == Field(name, n)
           e == <<name, n>>
<1>0. e \in FieldNames \X Int /\ e[1] = name /\ e[2] = n /\ s = <<e>>
  BY DEF Field
<1>1. s \in FieldSeq /\ Len(s) = 1 /\ DOMAIN s = {1} /\ s[1] = e
  <2> HIDE DEF s, e
  <2> QED BY <1>0 DEF FieldSeq
<1> HIDE DEF s, e
<1>2. Distinct(s)
  BY <1>1 DEF Distinct
<1>9. Names(s) = {name} /\ (n >= 0 => NoneNegative(s))
  BY <1>0, <1>1 DEF Names, NoneNegative
<1>3. Bytes(s, 1) = n
  <2>1. 1 \in 1 .. Len(s) /\ 1 - 1 = 0
    BY <1>1
  <2>2. Bytes(s, 1) = Bytes(s, 1 - 1) + s[1][2]
    BY <1>1, <2>1, RunningSum
  <2>3. Bytes(s, 0) = 0
    BY <1>1, RunningSum
  <2>4. Bytes(s, 1) = 0 + n
    BY <1>0, <1>1, <2>1, <2>2, <2>3
  <2> QED BY <2>4
<1>4. At(s, name) = 0
  <2>1. 1 \in 1 .. Len(s) /\ 1 - 1 = 0
    BY <1>1
  <2>2. At(s, s[1][1]) = Bytes(s, 1 - 1)
    BY <1>1, <1>2, <2>1, AtIndex
  <2>3. Bytes(s, 0) = 0
    BY <1>1, RunningSum
  <2>4. At(s, s[1][1]) = 0
    BY <2>1, <2>2, <2>3
  <2> QED BY <1>0, <1>1, <2>4
<1>5. s = Field(name, n)
  BY DEF s
<1> QED BY <1>1, <1>2, <1>9, <1>3, <1>4, <1>5 DEF Size

\* No field at all.
LEMMA NoFields ==
    /\ <<>> \in FieldSeq /\ Size(<<>>) = 0 /\ Names(<<>>) = {}
    /\ Distinct(<<>>) /\ NoneNegative(<<>>)
<1>1. <<>> \in FieldSeq /\ Len(<<>>) = 0 /\ DOMAIN <<>> = {}
  BY EmptySeq DEF FieldSeq
<1> QED BY <1>1, RunningSum DEF Size, Names, Distinct, NoneNegative

-----------------------------------------------------------------------------
(* Groups of fields, and the fields they are joined of.                    *)

\* A group of fields with names of its own, all among those of A, and no
\* negative size.
Group(s, A) == /\ s \in FieldSeq
               /\ NoneNegative(s) /\ Distinct(s)
               /\ Names(s) \subseteq A

\* A group, one behind the other, with other names.
LEMMA GroupJoined ==
    ASSUME NEW s, NEW A, Group(s, A), NEW t, NEW B, Group(t, B), A \cap B = {}
    PROVE  Group(s \o t, A \cup B)
<1>1. s \in FieldSeq /\ t \in FieldSeq /\ Names(s) \cap Names(t) = {}
  BY DEF Group
<1>2. s \o t \in FieldSeq
  BY <1>1, SumOfConcat
<1>3. Distinct(s \o t)
  BY <1>1, Joined DEF Group
<1>4. NoneNegative(s \o t)
  BY <1>1, NegativeParts DEF Group
<1>5. Names(s \o t) \subseteq A \cup B
  BY <1>1, NamesOfConcat DEF Group
<1> QED BY <1>2, <1>3, <1>4, <1>5 DEF Group

\* A field is a group.
LEMMA GroupOfOne ==
    ASSUME NEW name \in FieldNames, NEW n \in Nat
    PROVE  Group(Field(name, n), {name})
<1>1. n \in Int /\ n >= 0
  OBVIOUS
<1>2. /\ Field(name, n) \in FieldSeq /\ Names(Field(name, n)) = {name}
      /\ Distinct(Field(name, n)) /\ NoneNegative(Field(name, n))
  BY <1>1, OneField
<1> QED BY <1>2 DEF Group

\* A group has its names among more, too.
LEMMA GroupWider ==
    ASSUME NEW s, NEW A, Group(s, A), NEW B, A \subseteq B
    PROVE  Group(s, B)
BY DEF Group

\* A group that may be left out is a group.
LEMMA GroupOptional ==
    ASSUME NEW p, NEW flag, NEW s, NEW A, Group(s, A)
    PROVE  Group(Optional(p, flag, s), A)
<1>1. CASE flag \in p.flags
  BY <1>1 DEF Optional
<1>2. CASE flag \notin p.flags
  BY <1>2, NoFields DEF Optional, Group
<1> QED BY <1>1, <1>2

\* An optional field in front of a group.
LEMMA GroupOption ==
    ASSUME NEW p, NEW flag, NEW name \in FieldNames, NEW n \in Nat,
           NEW t, NEW B, Group(t, B), name \notin B
    PROVE  Group(Option(p, flag, name, n) \o t, {name} \cup B)
<1>1. Group(Option(p, flag, name, n), {name})
  BY GroupOfOne, GroupOptional DEF Option
<1> QED BY <1>1, GroupJoined

\* Joining, as an operator the provers take as it is.
Cat(s, t) == s \o t

\* What is joined is a sequence of fields again.
LEMMA CatType == \A s, t \in FieldSeq : Cat(s, t) \in FieldSeq
BY SumOfConcat DEF Cat

\* Joining is associative.
LEMMA Associative ==
    ASSUME NEW s \in FieldSeq, NEW t \in FieldSeq, NEW u \in FieldSeq
    PROVE  (s \o t) \o u = s \o (t \o u)
BY ConcatAssociative DEF FieldSeq

\* Groups joined from the left are groups joined from the right: three of them,
LEMMA Regroup3 == \A s, t, u \in FieldSeq : Cat(Cat(s, t), u) = Cat(s, Cat(t, u))
<1> SUFFICES ASSUME NEW s \in FieldSeq, NEW t \in FieldSeq, NEW u \in FieldSeq
             PROVE  (s \o t) \o u = s \o (t \o u)
  BY DEF Cat
<1> QED BY Associative

\* four,
LEMMA Regroup4 ==
    \A s, t, u, v :
        s \in FieldSeq /\ t \in FieldSeq /\ u \in FieldSeq /\ v \in FieldSeq =>
        Cat(Cat(Cat(s, t), u), v)
          = Cat(s, Cat(t, Cat(u, v)))
BY CatType, Regroup3

\* five,
LEMMA Regroup5 ==
    \A s, t, u, v, w :
        s \in FieldSeq /\ t \in FieldSeq /\ u \in FieldSeq /\ v \in FieldSeq
        /\ w \in FieldSeq =>
        Cat(Cat(Cat(Cat(s, t), u), v), w)
          = Cat(s, Cat(t, Cat(u, Cat(v, w))))
<1> SUFFICES ASSUME NEW s \in FieldSeq, NEW t \in FieldSeq, NEW u \in FieldSeq,
                    NEW v \in FieldSeq, NEW w \in FieldSeq
             PROVE
        Cat(Cat(Cat(Cat(s, t), u), v), w)
          = Cat(s, Cat(t, Cat(u, Cat(v, w))))
  OBVIOUS
<1> DEFINE a == Cat(v, w)
           b == Cat(Cat(s, t), u)
<1>1. a \in FieldSeq /\ b \in FieldSeq
  BY CatType
<1> HIDE DEF a
<1>2. Cat(Cat(Cat(s, t), u), a)
        = Cat(s, Cat(t, Cat(u, a)))
  BY <1>1, Regroup4
<1> HIDE DEF b
<1>3. Cat(Cat(b, v), w) = Cat(b, a)
  BY <1>1, Regroup3 DEF a
<1> QED BY <1>2, <1>3 DEF a, b

\* and six.
LEMMA Regroup6 ==
    \A s, t, u, v, w, x :
        s \in FieldSeq /\ t \in FieldSeq /\ u \in FieldSeq /\ v \in FieldSeq
        /\ w \in FieldSeq /\ x \in FieldSeq =>
        Cat(Cat(Cat(Cat(Cat(s, t), u), v), w), x)
          = Cat(s, Cat(t, Cat(u, Cat(v, Cat(w, x)))))
<1> SUFFICES ASSUME NEW s \in FieldSeq, NEW t \in FieldSeq, NEW u \in FieldSeq,
                    NEW v \in FieldSeq, NEW w \in FieldSeq, NEW x \in FieldSeq
             PROVE
        Cat(Cat(Cat(Cat(Cat(s, t), u), v), w), x)
          = Cat(s, Cat(t, Cat(u, Cat(v, Cat(w, x)))))
  OBVIOUS
<1> DEFINE a == Cat(w, x)
           b == Cat(Cat(Cat(s, t), u), v)
<1>1. a \in FieldSeq /\ b \in FieldSeq
  BY CatType
<1> HIDE DEF a
<1>2. Cat(Cat(Cat(Cat(s, t), u), v), a)
        = Cat(s, Cat(t, Cat(u, Cat(v, a))))
  BY <1>1, Regroup5
<1> HIDE DEF b
<1>3. Cat(Cat(b, w), x) = Cat(b, a)
  BY <1>1, Regroup3 DEF a
<1> QED BY <1>2, <1>3 DEF a, b

-----------------------------------------------------------------------------
(* The groups of a packet, each from one field on to its end.              *)

\* The sizes a packet gives are numbers.
Sized(p) == /\ p.length \in Nat /\ p.private \in Nat /\ p.pack \in Nat
            /\ p.info \in Nat /\ p.section_length \in Nat

FromSeamless(p)  == Option(p, "seamless", "dts_next_au_", 5)
FromPiecewise(p) == Option(p, "piecewise", "piecewise_rate_", 3) \o FromSeamless(p)
FromLTW(p)       == Option(p, "ltw", "ltw_offset_", 2) \o FromPiecewise(p)
ExtensionStart   == Field("adaptation_field_extension_length_", 1)
                       \o Field("extension_flags", 1)
FromExtension(p) == Optional(p, "extension", ExtensionStart \o FromLTW(p))
PrivateBlock(p)  == Field("transport_private_data_length_", 1)
                       \o Field("private_data_byte_", p.private)
FromPrivate(p)   == Optional(p, "private", PrivateBlock(p)) \o FromExtension(p)
FromSplice(p)    == Option(p, "splice", "splice_countdown_", 1) \o FromPrivate(p)
FromOPCR(p)      == Option(p, "opcr", "opcr", 6) \o FromSplice(p)
FromPCR(p)       == Option(p, "pcr", "pcr", 6) \o FromOPCR(p)
FromFlags(p)     == Field("adaptation_flags", 1) \o FromPCR(p)

FromExtension2(p)    == Option(p, "extension_2", "pes_extension_field_length_", 1)
FromPStd(p)          == Option(p, "p_std", "p_std_buffer_size_", 2) \o FromExtension2(p)
FromSequence(p)      == Option(p, "sequence", "program_packet_sequence_counter_", 2)
                           \o FromPStd(p)
PackBlock(p)         == Field("pack_field_length_", 1) \o Field("pack_header", p.pack)
FromPack(p)          == Optional(p, "pack", PackBlock(p)) \o FromSequence(p)
FromPESPrivate(p)    == Option(p, "pes_private", "pes_private_data_", 16) \o FromPack(p)
FromPESExtension(p)  == Optional(p, "pes_extension",
                                 Field("pes_extension_flags", 1) \o FromPESPrivate(p))
FromCRC(p)           == Option(p, "crc", "previous_pes_packet_crc_", 2)
                           \o FromPESExtension(p)
FromCopyInfo(p)      == Option(p, "copy_info", "additional_copy_info_", 1) \o FromCRC(p)
FromTrick(p)         == Option(p, "trick", "trick_mode_control_", 1) \o FromCopyInfo(p)
FromESRate(p)        == Option(p, "es_rate", "es_rate_", 3) \o FromTrick(p)
FromESCR(p)          == Option(p, "escr", "escr_", 6) \o FromESRate(p)
Stamps(p)            == (IF p.pts_dts >= 2 THEN Field("pts_", 5) ELSE <<>>)
                           \o (IF p.pts_dts = 3 THEN Field("dts_", 5) ELSE <<>>)
FromPTS(p)           == Stamps(p) \o FromESCR(p)
PESFlagBlock         == Field("pes_flags", 2) \o Field("pes_header_data_length_", 1)
FromPESFlags(p)      == PESFlagBlock \o FromPTS(p)
PESBlock             == Field("packet_start_code_prefix_", 3) \o Field("stream_id_", 1)
                           \o Field("pes_packet_length_", 2)

\* What they hold.
ExtensionNames == {"ltw_offset_", "piecewise_rate_", "dts_next_au_",
                   "adaptation_field_extension_length_", "extension_flags"}
PrivateNames   == {"transport_private_data_length_", "private_data_byte_"}
AdaptationNames == ExtensionNames \cup PrivateNames
                      \cup {"splice_countdown_", "opcr", "pcr", "adaptation_flags"}

\* Each rest of the adaptation field is a group.
LEMMA AdaptationGroups ==
    ASSUME NEW p, Sized(p)
    PROVE  /\ Group(FromSeamless(p), AdaptationNames)
           /\ Group(FromPiecewise(p), AdaptationNames)
           /\ Group(FromLTW(p), AdaptationNames)
           /\ Group(ExtensionStart, AdaptationNames)
           /\ Group(FromExtension(p), AdaptationNames)
           /\ Group(PrivateBlock(p), AdaptationNames)
           /\ Group(FromPrivate(p), AdaptationNames)
           /\ Group(FromSplice(p), AdaptationNames)
           /\ Group(FromOPCR(p), AdaptationNames)
           /\ Group(FromPCR(p), AdaptationNames)
           /\ Group(FromFlags(p), AdaptationNames)
<1> DEFINE A1 == {"dts_next_au_"}
           A2 == {"piecewise_rate_"} \cup A1
           A3 == {"ltw_offset_"} \cup A2
           E  == {"adaptation_field_extension_length_"} \cup {"extension_flags"}
           A4 == E \cup A3
           P  == {"transport_private_data_length_"} \cup {"private_data_byte_"}
           A5 == P \cup A4
           A6 == {"splice_countdown_"} \cup A5
           A7 == {"opcr"} \cup A6
           A8 == {"pcr"} \cup A7
           A9 == {"adaptation_flags"} \cup A8
<1> HIDE DEF A1, A2, A3, E, A4, P, A5, A6, A7, A8, A9
<1>0. /\ A2 = {"piecewise_rate_"} \cup A1 /\ "piecewise_rate_" \notin A1
      /\ A3 = {"ltw_offset_"} \cup A2 /\ "ltw_offset_" \notin A2
      /\ A4 = E \cup A3 /\ E \cap A3 = {}
      /\ A5 = P \cup A4 /\ P \cap A4 = {}
      /\ A6 = {"splice_countdown_"} \cup A5 /\ "splice_countdown_" \notin A5
      /\ A7 = {"opcr"} \cup A6 /\ "opcr" \notin A6
      /\ A8 = {"pcr"} \cup A7 /\ "pcr" \notin A7
      /\ A9 = {"adaptation_flags"} \cup A8 /\ {"adaptation_flags"} \cap A8 = {}
      /\ A9 \subseteq AdaptationNames
  BY DEF A1, A2, A3, E, A4, P, A5, A6, A7, A8, A9, AdaptationNames, ExtensionNames,
         PrivateNames
<1>s. /\ "dts_next_au_" \in FieldNames /\ "piecewise_rate_" \in FieldNames
      /\ "ltw_offset_" \in FieldNames /\ "splice_countdown_" \in FieldNames
      /\ "opcr" \in FieldNames /\ "pcr" \in FieldNames
      /\ "adaptation_flags" \in FieldNames
      /\ "adaptation_field_extension_length_" \in FieldNames
      /\ "extension_flags" \in FieldNames
      /\ "transport_private_data_length_" \in FieldNames
      /\ "private_data_byte_" \in FieldNames
  BY DEF FieldNames
<1>1. Group(FromSeamless(p), A1)
  BY <1>s, GroupOfOne, GroupOptional DEF FromSeamless, Option, A1
<1>2. Group(FromPiecewise(p), A2)
  BY <1>0, <1>1, <1>s, GroupOption DEF FromPiecewise
<1>3. Group(FromLTW(p), A3)
  BY <1>0, <1>2, <1>s, GroupOption DEF FromLTW
<1>4. Group(ExtensionStart, E)
  <2>1. /\ Group(Field("adaptation_field_extension_length_", 1),
                 {"adaptation_field_extension_length_"})
        /\ Group(Field("extension_flags", 1), {"extension_flags"})
    BY <1>s, GroupOfOne
  <2>2. {"adaptation_field_extension_length_"} \cap {"extension_flags"} = {}
    OBVIOUS
  <2> QED BY <2>1, <2>2, GroupJoined DEF ExtensionStart, E
<1>5. Group(ExtensionStart \o FromLTW(p), A4)
  BY <1>0, <1>3, <1>4, GroupJoined
<1>6. Group(FromExtension(p), A4)
  BY <1>5, GroupOptional DEF FromExtension
<1>7. Group(PrivateBlock(p), P)
  <2>1. /\ Group(Field("transport_private_data_length_", 1),
                 {"transport_private_data_length_"})
        /\ Group(Field("private_data_byte_", p.private), {"private_data_byte_"})
    BY <1>s, GroupOfOne DEF Sized
  <2>2. {"transport_private_data_length_"} \cap {"private_data_byte_"} = {}
    OBVIOUS
  <2> QED BY <2>1, <2>2, GroupJoined DEF PrivateBlock, P
<1>8. Group(FromPrivate(p), A5)
  <2>1. Group(Optional(p, "private", PrivateBlock(p)), P)
    BY <1>7, GroupOptional
  <2> QED BY <1>0, <1>6, <2>1, GroupJoined DEF FromPrivate
<1>9. Group(FromSplice(p), A6)
  BY <1>0, <1>8, <1>s, GroupOption DEF FromSplice
<1>10. Group(FromOPCR(p), A7)
  BY <1>0, <1>9, <1>s, GroupOption DEF FromOPCR
<1>11. Group(FromPCR(p), A8)
  BY <1>0, <1>10, <1>s, GroupOption DEF FromPCR
<1>12. Group(FromFlags(p), A9)
  <2>1. Group(Field("adaptation_flags", 1), {"adaptation_flags"})
    BY <1>s, GroupOfOne
  <2> QED BY <1>0, <1>11, <2>1, GroupJoined DEF FromFlags
<1>13. /\ A1 \subseteq AdaptationNames /\ A2 \subseteq AdaptationNames
       /\ A3 \subseteq AdaptationNames /\ E \subseteq AdaptationNames
       /\ A4 \subseteq AdaptationNames /\ P \subseteq AdaptationNames
       /\ A5 \subseteq AdaptationNames /\ A6 \subseteq AdaptationNames
       /\ A7 \subseteq AdaptationNames /\ A8 \subseteq AdaptationNames
       /\ A9 \subseteq AdaptationNames
  BY <1>0
<1>14. /\ Group(FromSeamless(p), AdaptationNames)
       /\ Group(FromPiecewise(p), AdaptationNames)
       /\ Group(FromLTW(p), AdaptationNames)
       /\ Group(ExtensionStart, AdaptationNames)
       /\ Group(FromExtension(p), AdaptationNames)
  BY <1>1, <1>2, <1>3, <1>4, <1>6, <1>13, GroupWider
<1>15. /\ Group(PrivateBlock(p), AdaptationNames)
       /\ Group(FromPrivate(p), AdaptationNames)
       /\ Group(FromSplice(p), AdaptationNames)
       /\ Group(FromOPCR(p), AdaptationNames)
       /\ Group(FromPCR(p), AdaptationNames)
       /\ Group(FromFlags(p), AdaptationNames)
  BY <1>7, <1>8, <1>9, <1>10, <1>11, <1>12, <1>13, GroupWider
<1> QED BY <1>14, <1>15

PESNames == {"packet_start_code_prefix_", "stream_id_", "pes_packet_length_",
             "pes_flags", "pes_header_data_length_", "pts_", "dts_", "escr_",
             "es_rate_", "trick_mode_control_", "additional_copy_info_",
             "previous_pes_packet_crc_", "pes_extension_flags", "pes_private_data_",
             "pack_field_length_", "pack_header", "program_packet_sequence_counter_",
             "p_std_buffer_size_", "pes_extension_field_length_"}

\* Each rest of a PES header is a group.
LEMMA PESGroups ==
    ASSUME NEW p, Sized(p)
    PROVE  /\ Group(FromExtension2(p), PESNames) /\ Group(FromPStd(p), PESNames)
           /\ Group(FromSequence(p), PESNames) /\ Group(PackBlock(p), PESNames)
           /\ Group(FromPack(p), PESNames) /\ Group(FromPESPrivate(p), PESNames)
           /\ Group(FromPESExtension(p), PESNames) /\ Group(FromCRC(p), PESNames)
           /\ Group(FromCopyInfo(p), PESNames) /\ Group(FromTrick(p), PESNames)
           /\ Group(FromESRate(p), PESNames) /\ Group(FromESCR(p), PESNames)
           /\ Group(Stamps(p), PESNames) /\ Group(FromPTS(p), PESNames)
           /\ Group(PESFlagBlock, PESNames) /\ Group(FromPESFlags(p), PESNames)
           /\ Group(PESBlock, PESNames)
           /\ Group(PESBlock \o FromPESFlags(p), PESNames)
<1> DEFINE A1  == {"pes_extension_field_length_"}
           A2  == {"p_std_buffer_size_"} \cup A1
           A3  == {"program_packet_sequence_counter_"} \cup A2
           P   == {"pack_field_length_"} \cup {"pack_header"}
           A4  == P \cup A3
           A5  == {"pes_private_data_"} \cup A4
           A6  == {"pes_extension_flags"} \cup A5
           A7  == {"previous_pes_packet_crc_"} \cup A6
           A8  == {"additional_copy_info_"} \cup A7
           A9  == {"trick_mode_control_"} \cup A8
           A10 == {"es_rate_"} \cup A9
           A11 == {"escr_"} \cup A10
           T   == {"pts_"} \cup {"dts_"}
           A12 == T \cup A11
           F   == {"pes_flags"} \cup {"pes_header_data_length_"}
           A13 == F \cup A12
           C   == {"packet_start_code_prefix_"} \cup {"stream_id_"}
           B   == C \cup {"pes_packet_length_"}
           A14 == B \cup A13
<1> HIDE DEF A1, A2, A3, P, A4, A5, A6, A7, A8, A9, A10, A11, T, A12, F, A13, C, B, A14
<1>a. /\ A2 = {"p_std_buffer_size_"} \cup A1 /\ "p_std_buffer_size_" \notin A1
      /\ A3 = {"program_packet_sequence_counter_"} \cup A2
      /\ "program_packet_sequence_counter_" \notin A2
      /\ A4 = P \cup A3 /\ P \cap A3 = {}
      /\ A5 = {"pes_private_data_"} \cup A4 /\ "pes_private_data_" \notin A4
      /\ A6 = {"pes_extension_flags"} \cup A5 /\ {"pes_extension_flags"} \cap A5 = {}
      /\ A7 = {"previous_pes_packet_crc_"} \cup A6
      /\ "previous_pes_packet_crc_" \notin A6
      /\ A8 = {"additional_copy_info_"} \cup A7 /\ "additional_copy_info_" \notin A7
  BY DEF A1, A2, A3, P, A4, A5, A6, A7, A8
<1>b. /\ A9 = {"trick_mode_control_"} \cup A8 /\ "trick_mode_control_" \notin A8
      /\ A10 = {"es_rate_"} \cup A9 /\ "es_rate_" \notin A9
      /\ A11 = {"escr_"} \cup A10 /\ "escr_" \notin A10
      /\ A12 = T \cup A11 /\ T \cap A11 = {}
      /\ A13 = F \cup A12 /\ F \cap A12 = {}
      /\ A14 = B \cup A13 /\ B \cap A13 = {}
      /\ A14 \subseteq PESNames
  BY DEF A1, A2, A3, P, A4, A5, A6, A7, A8, A9, A10, A11, T, A12, F, A13, C, B, A14,
         PESNames
<1>s. /\ "pes_extension_field_length_" \in FieldNames
      /\ "p_std_buffer_size_" \in FieldNames
      /\ "program_packet_sequence_counter_" \in FieldNames
      /\ "pack_field_length_" \in FieldNames /\ "pack_header" \in FieldNames
      /\ "pes_private_data_" \in FieldNames /\ "pes_extension_flags" \in FieldNames
      /\ "previous_pes_packet_crc_" \in FieldNames
      /\ "additional_copy_info_" \in FieldNames /\ "trick_mode_control_" \in FieldNames
      /\ "es_rate_" \in FieldNames /\ "escr_" \in FieldNames
      /\ "pts_" \in FieldNames /\ "dts_" \in FieldNames
      /\ "pes_flags" \in FieldNames /\ "pes_header_data_length_" \in FieldNames
      /\ "packet_start_code_prefix_" \in FieldNames /\ "stream_id_" \in FieldNames
      /\ "pes_packet_length_" \in FieldNames
  BY DEF FieldNames
<1>1. Group(FromExtension2(p), A1)
  BY <1>s, GroupOfOne, GroupOptional DEF FromExtension2, Option, A1
<1>2. Group(FromPStd(p), A2)
  BY <1>a, <1>s, <1>1, GroupOption DEF FromPStd
<1>3. Group(FromSequence(p), A3)
  BY <1>a, <1>s, <1>2, GroupOption DEF FromSequence
<1>4. Group(PackBlock(p), P)
  <2>1. /\ Group(Field("pack_field_length_", 1), {"pack_field_length_"})
        /\ Group(Field("pack_header", p.pack), {"pack_header"})
    BY <1>s, GroupOfOne DEF Sized
  <2>2. {"pack_field_length_"} \cap {"pack_header"} = {}
    OBVIOUS
  <2> QED BY <2>1, <2>2, GroupJoined DEF PackBlock, P
<1>5. Group(FromPack(p), A4)
  <2>1. Group(Optional(p, "pack", PackBlock(p)), P)
    BY <1>4, GroupOptional
  <2> QED BY <1>a, <1>3, <2>1, GroupJoined DEF FromPack
<1>6. Group(FromPESPrivate(p), A5)
  BY <1>a, <1>s, <1>5, GroupOption DEF FromPESPrivate
<1>7. Group(FromPESExtension(p), A6)
  <2>1. Group(Field("pes_extension_flags", 1), {"pes_extension_flags"})
    BY <1>s, GroupOfOne
  <2>2. Group(Field("pes_extension_flags", 1) \o FromPESPrivate(p), A6)
    BY <1>a, <1>6, <2>1, GroupJoined
  <2> QED BY <2>2, GroupOptional DEF FromPESExtension
<1>8. Group(FromCRC(p), A7)
  BY <1>a, <1>s, <1>7, GroupOption DEF FromCRC
<1>9. Group(FromCopyInfo(p), A8)
  BY <1>a, <1>s, <1>8, GroupOption DEF FromCopyInfo
<1>10. Group(FromTrick(p), A9)
  BY <1>b, <1>s, <1>9, GroupOption DEF FromTrick
<1>11. Group(FromESRate(p), A10)
  BY <1>b, <1>s, <1>10, GroupOption DEF FromESRate
<1>12. Group(FromESCR(p), A11)
  BY <1>b, <1>s, <1>11, GroupOption DEF FromESCR
<1>13. Group(Stamps(p), T)
  <2>1. Group(IF p.pts_dts >= 2 THEN Field("pts_", 5) ELSE <<>>, {"pts_"})
    <3>1. Group(Field("pts_", 5), {"pts_"}) /\ Group(<<>>, {"pts_"})
      BY <1>s, GroupOfOne, NoFields DEF Group
    <3> QED BY <3>1
  <2>2. Group(IF p.pts_dts = 3 THEN Field("dts_", 5) ELSE <<>>, {"dts_"})
    <3>1. Group(Field("dts_", 5), {"dts_"}) /\ Group(<<>>, {"dts_"})
      BY <1>s, GroupOfOne, NoFields DEF Group
    <3> QED BY <3>1
  <2>3. {"pts_"} \cap {"dts_"} = {}
    OBVIOUS
  <2> QED BY <2>1, <2>2, <2>3, GroupJoined DEF Stamps, T
<1>14. Group(FromPTS(p), A12)
  BY <1>b, <1>12, <1>13, GroupJoined DEF FromPTS
<1>15. Group(PESFlagBlock, F)
  <2>1. /\ Group(Field("pes_flags", 2), {"pes_flags"})
        /\ Group(Field("pes_header_data_length_", 1), {"pes_header_data_length_"})
    BY <1>s, GroupOfOne
  <2>2. {"pes_flags"} \cap {"pes_header_data_length_"} = {}
    OBVIOUS
  <2> QED BY <2>1, <2>2, GroupJoined DEF PESFlagBlock, F
<1>16. Group(FromPESFlags(p), A13)
  BY <1>b, <1>14, <1>15, GroupJoined DEF FromPESFlags
<1>17. Group(PESBlock, B)
  <2>1. /\ Group(Field("packet_start_code_prefix_", 3), {"packet_start_code_prefix_"})
        /\ Group(Field("stream_id_", 1), {"stream_id_"})
        /\ Group(Field("pes_packet_length_", 2), {"pes_packet_length_"})
    BY <1>s, GroupOfOne
  <2>2. /\ {"packet_start_code_prefix_"} \cap {"stream_id_"} = {}
        /\ C \cap {"pes_packet_length_"} = {}
        /\ B = C \cup {"pes_packet_length_"}
    BY DEF B, C
  <2>3. Group(Field("packet_start_code_prefix_", 3) \o Field("stream_id_", 1), C)
    BY <2>1, <2>2, GroupJoined DEF C
  <2> QED BY <2>1, <2>2, <2>3, GroupJoined DEF PESBlock
<1>18. Group(PESBlock \o FromPESFlags(p), A14)
  BY <1>b, <1>16, <1>17, GroupJoined
<1>19. /\ A1 \subseteq PESNames /\ A2 \subseteq PESNames /\ A3 \subseteq PESNames
       /\ P \subseteq PESNames /\ A4 \subseteq PESNames /\ A5 \subseteq PESNames
       /\ A6 \subseteq PESNames /\ A7 \subseteq PESNames /\ A8 \subseteq PESNames
       /\ A9 \subseteq PESNames /\ A10 \subseteq PESNames /\ A11 \subseteq PESNames
       /\ T \subseteq PESNames /\ A12 \subseteq PESNames /\ F \subseteq PESNames
       /\ A13 \subseteq PESNames /\ B \subseteq PESNames
  BY <1>a, <1>b
<1>20. /\ Group(FromExtension2(p), PESNames) /\ Group(FromPStd(p), PESNames)
       /\ Group(FromSequence(p), PESNames) /\ Group(PackBlock(p), PESNames)
       /\ Group(FromPack(p), PESNames) /\ Group(FromPESPrivate(p), PESNames)
  BY <1>1, <1>2, <1>3, <1>4, <1>5, <1>6, <1>19, GroupWider
<1>21. /\ Group(FromPESExtension(p), PESNames) /\ Group(FromCRC(p), PESNames)
       /\ Group(FromCopyInfo(p), PESNames) /\ Group(FromTrick(p), PESNames)
       /\ Group(FromESRate(p), PESNames) /\ Group(FromESCR(p), PESNames)
  BY <1>7, <1>8, <1>9, <1>10, <1>11, <1>12, <1>19, GroupWider
<1>22. /\ Group(Stamps(p), PESNames) /\ Group(FromPTS(p), PESNames)
       /\ Group(PESFlagBlock, PESNames) /\ Group(FromPESFlags(p), PESNames)
       /\ Group(PESBlock, PESNames)
       /\ Group(PESBlock \o FromPESFlags(p), PESNames)
  BY <1>b, <1>13, <1>14, <1>15, <1>16, <1>17, <1>18, <1>19, GroupWider
<1> QED BY <1>20, <1>21, <1>22

-----------------------------------------------------------------------------
(* Groups whose fields stand at known distances.                           *)

\* The fields of s, one for each element of the domain of at, stand at those
\* distances from its start and take n bytes.
Laid(s, at, n) == /\ s \in FieldSeq /\ Distinct(s)
                  /\ Names(s) = DOMAIN at
                  /\ \A f \in DOMAIN at : At(s, f) = at[f]
                  /\ Size(s) = n

\* One field.
LEMMA LaidOne ==
    ASSUME NEW name \in FieldNames, NEW n \in Int, NEW at,
           DOMAIN at = {name}, at[name] = 0
    PROVE  Laid(Field(name, n), at, n)
<1>1. /\ Field(name, n) \in FieldSeq /\ Size(Field(name, n)) = n
      /\ Names(Field(name, n)) = {name} /\ Distinct(Field(name, n))
      /\ At(Field(name, n), name) = 0
  BY OneField
<1> QED BY <1>1 DEF Laid

\* One more field.
LEMMA LaidNext ==
    ASSUME NEW s, NEW at, NEW n \in Int, Laid(s, at, n),
           NEW name \in FieldNames, NEW k \in Int, name \notin DOMAIN at,
           NEW at2, DOMAIN at2 = DOMAIN at \cup {name}, at2[name] = n,
           \A f \in DOMAIN at : at2[f] = at[f]
    PROVE  Laid(s \o Field(name, k), at2, n + k)
<1> DEFINE t == Field(name, k)
<1>1. /\ t \in FieldSeq /\ Size(t) = k /\ Names(t) = {name} /\ Distinct(t)
      /\ At(t, name) = 0
  BY OneField
<1> HIDE DEF t
<1>2. s \in FieldSeq /\ Distinct(s) /\ Names(s) = DOMAIN at /\ Size(s) = n
  BY DEF Laid
<1>3. Names(s) \cap Names(t) = {}
  BY <1>1, <1>2
<1>4. s \o t \in FieldSeq /\ Size(s \o t) = n + k
  BY <1>1, <1>2, SumOfConcat
<1>5. Names(s \o t) = DOMAIN at2
  BY <1>1, <1>2, NamesOfConcat
<1>6. /\ Distinct(s \o t)
      /\ \A f \in Names(s) : At(s \o t, f) = At(s, f)
      /\ \A f \in Names(t) : At(s \o t, f) = Size(s) + At(t, f)
  BY <1>1, <1>2, <1>3, Joined
<1>7. ASSUME NEW f \in DOMAIN at2 PROVE At(s \o t, f) = at2[f]
  <2>1. CASE f = name
    BY <1>1, <1>2, <1>6, <2>1
  <2>2. CASE f \in DOMAIN at
    BY <1>2, <1>6, <2>2 DEF Laid
  <2> QED BY <2>1, <2>2
<1>8. Laid(s \o t, at2, n + k)
  BY <1>4, <1>5, <1>6, <1>7 DEF Laid
<1> QED BY <1>8 DEF t

\* Two fields.
LEMMA LaidTwo ==
    ASSUME NEW a \in FieldNames, NEW b \in FieldNames, a # b,
           NEW n \in Int, NEW k \in Int,
           NEW at, DOMAIN at = {a, b}, at[a] = 0, at[b] = n
    PROVE  Laid(Field(a, n) \o Field(b, k), at, n + k)
<1> DEFINE one == [f \in {a} |-> 0]
<1>1. DOMAIN one = {a} /\ one[a] = 0
  OBVIOUS
<1> HIDE DEF one
<1>2. Laid(Field(a, n), one, n)
  BY <1>1, LaidOne
<1>3. b \notin DOMAIN one /\ DOMAIN at = DOMAIN one \cup {b}
      /\ \A f \in DOMAIN one : at[f] = one[f]
  BY <1>1
<1> QED BY <1>2, <1>3, LaidNext

\* A field, or an optional one, is a group of fields.
LEMMA SeqOfOne ==
    ASSUME NEW name \in FieldNames, NEW n \in Nat
    PROVE  /\ Field(name, n) \in FieldSeq
           /\ \A p, flag : Option(p, flag, name, n) \in FieldSeq
<1>1. Field(name, n) \in FieldSeq
  BY GroupOfOne DEF Group
<1> QED BY <1>1, NoFields DEF Option, Optional

\* The adaptation field, from one field on to its end.
LEMMA AdaptationJoined ==
    ASSUME NEW p, Sized(p), p.length # 0
    PROVE  AdaptationContent(p) = FromFlags(p)
<1> DEFINE F  == Field("adaptation_flags", 1)
           O1 == Option(p, "pcr", "pcr", 6)
           O2 == Option(p, "opcr", "opcr", 6)
           O3 == Option(p, "splice", "splice_countdown_", 1)
           O4 == Optional(p, "private", PrivateBlock(p))
           X1 == Option(p, "ltw", "ltw_offset_", 2)
           X2 == Option(p, "piecewise", "piecewise_rate_", 3)
           X3 == Option(p, "seamless", "dts_next_au_", 5)
           E  == Optional(p, "extension", ExtensionStart \o X1 \o X2 \o X3)
<1>1. AdaptationContent(p) = F \o O1 \o O2 \o O3 \o O4 \o E
  BY DEF AdaptationContent, PrivateBlock, ExtensionStart
<1>2. /\ F \in FieldSeq /\ O1 \in FieldSeq /\ O2 \in FieldSeq /\ O3 \in FieldSeq
      /\ X1 \in FieldSeq /\ X2 \in FieldSeq /\ X3 \in FieldSeq
      /\ O4 \in FieldSeq /\ ExtensionStart \in FieldSeq
  <2>1. /\ "adaptation_flags" \in FieldNames /\ "pcr" \in FieldNames
        /\ "opcr" \in FieldNames /\ "splice_countdown_" \in FieldNames
        /\ "ltw_offset_" \in FieldNames /\ "piecewise_rate_" \in FieldNames
        /\ "dts_next_au_" \in FieldNames
    BY DEF FieldNames
  <2>2. F \in FieldSeq /\ O1 \in FieldSeq /\ O2 \in FieldSeq /\ O3 \in FieldSeq
    BY <2>1, SeqOfOne
  <2>3. X1 \in FieldSeq /\ X2 \in FieldSeq /\ X3 \in FieldSeq
    BY <2>1, SeqOfOne
  <2>4. O4 \in FieldSeq /\ ExtensionStart \in FieldSeq
    <3>1. PrivateBlock(p) \in FieldSeq /\ ExtensionStart \in FieldSeq
      BY AdaptationGroups DEF Group
    <3> QED BY <3>1, NoFields DEF Optional
  <2> HIDE DEF F, O1, O2, O3, O4, X1, X2, X3
  <2> QED BY <2>2, <2>3, <2>4
<1>3. E = FromExtension(p)
  <2>1. ExtensionStart \o X1 \o X2 \o X3 = ExtensionStart \o (X1 \o (X2 \o X3))
    <3> HIDE DEF X1, X2, X3
    <3>1. Cat(Cat(Cat(ExtensionStart, X1), X2), X3)
            = Cat(ExtensionStart, Cat(X1, Cat(X2, X3)))
      BY <1>2, Regroup4
    <3> QED BY <3>1 DEF Cat
  <2> QED BY <2>1 DEF FromExtension, FromLTW, FromPiecewise, FromSeamless
<1>4. FromExtension(p) \in FieldSeq
  BY AdaptationGroups DEF Group
<1>5. F \o O1 \o O2 \o O3 \o O4 \o E = F \o (O1 \o (O2 \o (O3 \o (O4 \o E))))
  <2> HIDE DEF F, O1, O2, O3, O4, E
  <2>1. Cat(Cat(Cat(Cat(Cat(F, O1), O2), O3), O4), E)
          = Cat(F, Cat(O1, Cat(O2, Cat(O3, Cat(O4, E)))))
    BY <1>2, <1>3, <1>4, Regroup6
  <2> QED BY <2>1 DEF Cat
<1> QED BY <1>1, <1>3, <1>5 DEF FromFlags, FromPCR, FromOPCR, FromSplice, FromPrivate

\* The PES header.
LEMMA PESJoined ==
    ASSUME NEW p, Sized(p)
    PROVE  PESFields(p) = IF p.stream_id \in PlainStreams THEN PESBlock
                          ELSE PESBlock \o FromPESFlags(p)
<1> DEFINE F  == PESFlagBlock
           P1 == IF p.pts_dts >= 2 THEN Field("pts_", 5) ELSE <<>>
           P2 == IF p.pts_dts = 3 THEN Field("dts_", 5) ELSE <<>>
           O1 == Option(p, "escr", "escr_", 6)
           O2 == Option(p, "es_rate", "es_rate_", 3)
           O3 == Option(p, "trick", "trick_mode_control_", 1)
           O4 == Option(p, "copy_info", "additional_copy_info_", 1)
           O5 == Option(p, "crc", "previous_pes_packet_crc_", 2)
           G  == Field("pes_extension_flags", 1)
           X1 == Option(p, "pes_private", "pes_private_data_", 16)
           X2 == Optional(p, "pack", PackBlock(p))
           X3 == Option(p, "sequence", "program_packet_sequence_counter_", 2)
           X4 == Option(p, "p_std", "p_std_buffer_size_", 2)
           X5 == Option(p, "extension_2", "pes_extension_field_length_", 1)
           E  == Optional(p, "pes_extension", G \o X1 \o X2 \o X3 \o X4 \o X5)
           R  == F \o P1 \o P2 \o O1 \o O2 \o O3 \o O4 \o O5 \o E
<1>1. PESFields(p) = PESBlock \o IF p.stream_id \in PlainStreams THEN <<>> ELSE R
  BY DEF PESFields, PESBlock, PESFlagBlock, PackBlock
<1>2. /\ F \in FieldSeq /\ P1 \in FieldSeq /\ P2 \in FieldSeq
      /\ O1 \in FieldSeq /\ O2 \in FieldSeq /\ O3 \in FieldSeq /\ O4 \in FieldSeq
      /\ O5 \in FieldSeq /\ G \in FieldSeq
      /\ X1 \in FieldSeq /\ X2 \in FieldSeq /\ X3 \in FieldSeq /\ X4 \in FieldSeq
      /\ X5 \in FieldSeq /\ PESBlock \in FieldSeq
  <2>1. /\ "pts_" \in FieldNames /\ "dts_" \in FieldNames /\ "escr_" \in FieldNames
        /\ "es_rate_" \in FieldNames /\ "trick_mode_control_" \in FieldNames
        /\ "additional_copy_info_" \in FieldNames
        /\ "previous_pes_packet_crc_" \in FieldNames
        /\ "pes_extension_flags" \in FieldNames /\ "pes_private_data_" \in FieldNames
        /\ "program_packet_sequence_counter_" \in FieldNames
        /\ "p_std_buffer_size_" \in FieldNames
        /\ "pes_extension_field_length_" \in FieldNames
    BY DEF FieldNames
  <2>2. P1 \in FieldSeq /\ P2 \in FieldSeq /\ G \in FieldSeq
    BY <2>1, SeqOfOne, NoFields
  <2>3. O1 \in FieldSeq /\ O2 \in FieldSeq /\ O3 \in FieldSeq
    BY <2>1, SeqOfOne
  <2>4. O4 \in FieldSeq /\ O5 \in FieldSeq
    BY <2>1, SeqOfOne
  <2>5. X1 \in FieldSeq /\ X3 \in FieldSeq
    BY <2>1, SeqOfOne
  <2>6. X4 \in FieldSeq /\ X5 \in FieldSeq
    BY <2>1, SeqOfOne
  <2>7. F \in FieldSeq /\ X2 \in FieldSeq /\ PESBlock \in FieldSeq
    <3>1. PackBlock(p) \in FieldSeq /\ PESBlock \in FieldSeq /\ PESFlagBlock \in FieldSeq
      BY PESGroups DEF Group
    <3> QED BY <3>1, NoFields DEF Optional
  <2> HIDE DEF F, P1, P2, O1, O2, O3, O4, O5, G, X1, X2, X3, X4, X5
  <2> QED BY <2>2, <2>3, <2>4, <2>5, <2>6, <2>7
<1>3. E = FromPESExtension(p)
  <2>1. G \o X1 \o X2 \o X3 \o X4 \o X5 = G \o (X1 \o (X2 \o (X3 \o (X4 \o X5))))
    <3> HIDE DEF G, X1, X2, X3, X4, X5
    <3>1. Cat(Cat(Cat(Cat(Cat(G, X1), X2), X3), X4), X5)
            = Cat(G, Cat(X1, Cat(X2, Cat(X3, Cat(X4, X5)))))
      BY <1>2, Regroup6
    <3> QED BY <3>1 DEF Cat
  <2> QED BY <2>1 DEF FromPESExtension, FromPESPrivate, FromPack, FromSequence, FromPStd,
                      FromExtension2
<1>4. E \in FieldSeq
  BY <1>3, PESGroups DEF Group
<1>5. R = F \o ((P1 \o P2) \o (O1 \o (O2 \o (O3 \o (O4 \o (O5 \o E))))))
  <2> DEFINE U == Cat(Cat(F, P1), P2)
             V == Cat(Cat(Cat(U, O1), O2), O3)
             Y == Cat(O4, Cat(O5, E))
             Q == Cat(O1, Cat(O2, Cat(O3, Y)))
  <2> HIDE DEF F, P1, P2, O1, O2, O3, O4, O5, E
  <2>1. U \in FieldSeq /\ U = Cat(F, Cat(P1, P2))
    BY <1>2, CatType, Regroup3
  <2>2. Cat(P1, P2) \in FieldSeq
    BY <1>2, CatType
  <2> HIDE DEF U
  <2>3. V \in FieldSeq
    BY <1>2, <2>1, CatType
  <2> HIDE DEF V
  <2>4. Cat(Cat(Cat(V, O4), O5), E) = Cat(V, Y)
    BY <1>2, <1>4, <2>3, Regroup4
  <2>5. Y \in FieldSeq
    BY <1>2, <1>4, CatType
  <2> HIDE DEF Y
  <2>6. Cat(V, Y) = Cat(U, Q)
    <3>1. Cat(Cat(Cat(Cat(U, O1), O2), O3), Y) = Cat(U, Cat(O1, Cat(O2, Cat(O3, Y))))
      BY <1>2, <2>1, <2>5, Regroup5
    <3> QED BY <3>1 DEF V
  <2>7. Q \in FieldSeq
    BY <1>2, <2>5, CatType
  <2> HIDE DEF Q
  <2>8. Cat(U, Q) = Cat(F, Cat(Cat(P1, P2), Q))
    BY <1>2, <2>1, <2>2, <2>7, Regroup3
  <2>9. Cat(Cat(Cat(V, O4), O5), E) = Cat(F, Cat(Cat(P1, P2), Q))
    BY <2>4, <2>6, <2>8
  <2> QED BY <2>9 DEF Cat, R, U, V, Q, Y
<1>6. R = FromPESFlags(p)
  BY <1>3, <1>5 DEF FromPESFlags, FromPTS, Stamps, FromESCR, FromESRate, FromTrick,
                    FromCopyInfo, FromCRC
<1>7. PESBlock \o <<>> = PESBlock
  BY <1>2, ConcatEmptySeq DEF FieldSeq
<1> HIDE DEF R
<1> QED BY <1>1, <1>6, <1>7

-----------------------------------------------------------------------------
(* Sections, and the whole packet.                                         *)

\* Fields with names of their own, whatever their sizes: the list of a section
\* whose length is too small has a negative one.
Named(s, A) == s \in FieldSeq /\ Distinct(s) /\ Names(s) \subseteq A

\* A group has such names, and so do two of them with different names.
LEMMA GroupNamed == \A s, A : Group(s, A) => Named(s, A)
BY DEF Group, Named

\* Two sequences of fields with different names, joined.
LEMMA NamedJoined ==
    ASSUME NEW s, NEW A, Named(s, A), NEW t, NEW B, Named(t, B), A \cap B = {}
    PROVE  Named(s \o t, A \cup B)
<1>1. s \in FieldSeq /\ t \in FieldSeq /\ Names(s) \cap Names(t) = {}
  BY DEF Named
<1>2. s \o t \in FieldSeq
  BY <1>1, SumOfConcat
<1>3. Distinct(s \o t)
  BY <1>1, Joined DEF Named
<1>4. Names(s \o t) \subseteq A \cup B
  BY <1>1, NamesOfConcat DEF Named
<1> QED BY <1>2, <1>3, <1>4 DEF Named

\* The parts of a sequence of fields with different names have different names.
LEMMA Parted ==
    ASSUME NEW s \in FieldSeq, NEW t \in FieldSeq, Distinct(s \o t)
    PROVE  Distinct(s) /\ Distinct(t) /\ Names(s) \cap Names(t) = {}
<1> DEFINE u == s \o t
<1>1. /\ Len(s) \in Nat /\ Len(t) \in Nat
      /\ DOMAIN s = 1 .. Len(s) /\ DOMAIN t = 1 .. Len(t)
      /\ DOMAIN u = 1 .. Len(s) + Len(t)
      /\ \A i \in 1 .. Len(s) + Len(t) :
           u[i] = IF i <= Len(s) THEN s[i] ELSE t[i - Len(s)]
  BY ConcatProperties, LenProperties DEF FieldSeq
<1>2. \A i \in 1 .. Len(s) : i \in DOMAIN u /\ u[i] = s[i]
  BY <1>1
<1>3. ASSUME NEW i \in 1 .. Len(t) PROVE Len(s) + i \in DOMAIN u /\ u[Len(s) + i] = t[i]
  <2>1. /\ Len(s) + i \in 1 .. Len(s) + Len(t) /\ ~(Len(s) + i <= Len(s))
        /\ (Len(s) + i) - Len(s) = i
    BY <1>1
  <2> QED BY <1>1, <2>1
<1>4. Distinct(u)
  OBVIOUS
<1> HIDE DEF u
<1>5. Distinct(s)
  BY <1>1, <1>2, <1>4 DEF Distinct
<1>6. Distinct(t)
  <2> SUFFICES ASSUME NEW i \in 1 .. Len(t), NEW j \in 1 .. Len(t), t[i][1] = t[j][1]
               PROVE  i = j
    BY <1>1 DEF Distinct
  <2>1. Len(s) + i = Len(s) + j
    BY <1>3, <1>4 DEF Distinct
  <2> QED BY <1>1, <2>1
<1>7. Names(s) \cap Names(t) = {}
  <2> SUFFICES ASSUME NEW i \in 1 .. Len(s), NEW j \in 1 .. Len(t), s[i][1] = t[j][1]
               PROVE  FALSE
    BY <1>1 DEF Names
  <2>1. i = Len(s) + j
    BY <1>2, <1>3, <1>4 DEF Distinct
  <2> QED BY <1>1, <2>1
<1> QED BY <1>5, <1>6, <1>7

\* The sections, up to the list and from there on.
HeaderNames == {"pointer_field_", "table_id_", "section_length_", "table_id_extension",
                "version_number_", "section_number_", "last_section_number_"}
MapNames    == {"pcr_pid_", "program_info_length_", "program_info"}
ListNames   == {"list", "crc_32_"}

MapFields(p)    == Field("pcr_pid_", 2) \o Field("program_info_length_", 2)
                      \o Field("program_info", p.info)
SectionBlock(p) == SectionHeader \o (IF p.unit = "pmt" THEN MapFields(p) ELSE <<>>)
FromList(p)     == Field("list", ListSize(p)) \o Field("crc_32_", 4)

\* Each part of a section is a group, unless its length is too small.
LEMMA SectionGroups ==
    ASSUME NEW p, Sized(p)
    PROVE  /\ ListSize(p) \in Int
           /\ Group(SectionHeader, HeaderNames)
           /\ Group(MapFields(p), MapNames)
           /\ Group(SectionBlock(p), HeaderNames \cup MapNames)
           /\ Named(FromList(p), ListNames)
           /\ ListSize(p) >= 0 => Group(FromList(p), ListNames)
<1>1. ListSize(p) \in Int
  BY DEF Sized, ListSize
<1>s. /\ "pointer_field_" \in FieldNames /\ "table_id_" \in FieldNames
      /\ "section_length_" \in FieldNames /\ "table_id_extension" \in FieldNames
      /\ "version_number_" \in FieldNames /\ "section_number_" \in FieldNames
      /\ "last_section_number_" \in FieldNames /\ "pcr_pid_" \in FieldNames
      /\ "program_info_length_" \in FieldNames /\ "program_info" \in FieldNames
      /\ "list" \in FieldNames /\ "crc_32_" \in FieldNames
  BY DEF FieldNames
<1>2. Group(SectionHeader, HeaderNames)
  <2> DEFINE A1 == {"pointer_field_"} \cup {"table_id_"}
             A2 == A1 \cup {"section_length_"}
             A3 == A2 \cup {"table_id_extension"}
             A4 == A3 \cup {"version_number_"}
             A5 == A4 \cup {"section_number_"}
             A6 == A5 \cup {"last_section_number_"}
             S1 == Field("pointer_field_", 1) \o Field("table_id_", 1)
             S2 == S1 \o Field("section_length_", 2)
             S3 == S2 \o Field("table_id_extension", 2)
             S4 == S3 \o Field("version_number_", 1)
             S5 == S4 \o Field("section_number_", 1)
             S6 == S5 \o Field("last_section_number_", 1)
  <2>1. /\ Group(Field("pointer_field_", 1), {"pointer_field_"})
        /\ Group(Field("table_id_", 1), {"table_id_"})
        /\ Group(Field("section_length_", 2), {"section_length_"})
        /\ Group(Field("table_id_extension", 2), {"table_id_extension"})
        /\ Group(Field("version_number_", 1), {"version_number_"})
        /\ Group(Field("section_number_", 1), {"section_number_"})
        /\ Group(Field("last_section_number_", 1), {"last_section_number_"})
    BY <1>s, GroupOfOne
  <2>2. /\ {"pointer_field_"} \cap {"table_id_"} = {}
        /\ A1 \cap {"section_length_"} = {} /\ A2 \cap {"table_id_extension"} = {}
        /\ A3 \cap {"version_number_"} = {} /\ A4 \cap {"section_number_"} = {}
        /\ A5 \cap {"last_section_number_"} = {} /\ A6 = HeaderNames
    BY DEF HeaderNames
  <2> HIDE DEF A1, A2, A3, A4, A5, A6
  <2>3. Group(S1, A1)
    BY <2>1, <2>2, GroupJoined DEF A1
  <2> HIDE DEF S1
  <2>4. Group(S2, A2)
    BY <2>1, <2>2, <2>3, GroupJoined DEF A2
  <2> HIDE DEF S2
  <2>5. Group(S3, A3)
    BY <2>1, <2>2, <2>4, GroupJoined DEF A3
  <2> HIDE DEF S3
  <2>6. Group(S4, A4)
    BY <2>1, <2>2, <2>5, GroupJoined DEF A4
  <2> HIDE DEF S4
  <2>7. Group(S5, A5)
    BY <2>1, <2>2, <2>6, GroupJoined DEF A5
  <2> HIDE DEF S5
  <2>8. Group(S6, A6)
    BY <2>1, <2>2, <2>7, GroupJoined DEF A6
  <2> HIDE DEF S6
  <2>9. S6 = SectionHeader
    BY DEF S6, S5, S4, S3, S2, S1, SectionHeader
  <2> QED BY <2>2, <2>8, <2>9
<1>3. Group(MapFields(p), MapNames)
  <2> DEFINE A1 == {"pcr_pid_"} \cup {"program_info_length_"}
             S1 == Field("pcr_pid_", 2) \o Field("program_info_length_", 2)
  <2>1. /\ Group(Field("pcr_pid_", 2), {"pcr_pid_"})
        /\ Group(Field("program_info_length_", 2), {"program_info_length_"})
        /\ Group(Field("program_info", p.info), {"program_info"})
    BY <1>s, GroupOfOne DEF Sized
  <2>2. /\ {"pcr_pid_"} \cap {"program_info_length_"} = {}
        /\ A1 \cap {"program_info"} = {} /\ A1 \cup {"program_info"} = MapNames
    BY DEF MapNames
  <2> HIDE DEF A1
  <2>3. Group(S1, A1)
    BY <2>1, <2>2, GroupJoined DEF A1
  <2> HIDE DEF S1
  <2>4. Group(S1 \o Field("program_info", p.info), MapNames)
    BY <2>1, <2>2, <2>3, GroupJoined
  <2> QED BY <2>4 DEF S1, MapFields
<1>4. Group(SectionBlock(p), HeaderNames \cup MapNames)
  <2>1. Group(IF p.unit = "pmt" THEN MapFields(p) ELSE <<>>, MapNames)
    <3>1. Group(<<>>, MapNames)
      BY NoFields DEF Group
    <3> QED BY <1>3, <3>1
  <2>2. HeaderNames \cap MapNames = {}
    BY DEF HeaderNames, MapNames
  <2> QED BY <1>2, <2>1, <2>2, GroupJoined DEF SectionBlock
<1>5. /\ Group(Field("crc_32_", 4), {"crc_32_"})
      /\ {"list"} \cap {"crc_32_"} = {} /\ {"list"} \cup {"crc_32_"} = ListNames
  BY <1>s, GroupOfOne DEF ListNames
<1>6. Named(FromList(p), ListNames)
  <2>1. Named(Field("list", ListSize(p)), {"list"})
    BY <1>1, <1>s, OneField DEF Named
  <2>2. Named(Field("crc_32_", 4), {"crc_32_"})
    BY <1>5, GroupNamed
  <2>3. Named(Field("list", ListSize(p)) \o Field("crc_32_", 4), {"list"} \cup {"crc_32_"})
    BY <1>5, <2>1, <2>2, NamedJoined
  <2> QED BY <1>5, <2>3 DEF FromList
<1>7. ASSUME ListSize(p) >= 0 PROVE Group(FromList(p), ListNames)
  <2>1. Group(Field("list", ListSize(p)), {"list"})
    BY <1>1, <1>7, <1>s, GroupOfOne
  <2>2. Group(Field("list", ListSize(p)) \o Field("crc_32_", 4), {"list"} \cup {"crc_32_"})
    BY <1>5, <2>1, GroupJoined
  <2> QED BY <1>5, <2>2 DEF FromList
<1> QED BY <1>1, <1>2, <1>3, <1>4, <1>6, <1>7

\* A section.
LEMMA SectionJoined ==
    ASSUME NEW p, Sized(p)
    PROVE  Section(p) = SectionBlock(p) \o FromList(p)
<1> DEFINE L == Field("list", ListSize(p))
           C == Field("crc_32_", 4)
           B == SectionBlock(p)
<1>1. L \in FieldSeq /\ C \in FieldSeq /\ B \in FieldSeq
  <2>1. "list" \in FieldNames /\ "crc_32_" \in FieldNames /\ ListSize(p) \in Int
    BY SectionGroups DEF FieldNames
  <2>2. L \in FieldSeq /\ C \in FieldSeq
    BY <2>1, OneField
  <2>3. B \in FieldSeq
    BY SectionGroups DEF Group
  <2> QED BY <2>2, <2>3
<1>2. Section(p) = (B \o L) \o C
  BY DEF Section, SectionBlock, MapFields
<1>3. (B \o L) \o C = B \o (L \o C)
  <2> HIDE DEF B, L, C
  <2> QED BY <1>1, Associative
<1> QED BY <1>2, <1>3 DEF FromList

\* The packet: what stands in front of the stuffing, and what from there on.
FromAdaptation(p) == IF HasAdaptation(p)
                     THEN Field("adaptation_field_length_", 1) \o AdaptationContent(p)
                     ELSE <<>>
FromHeader(p)     == Field("header", 4) \o FromAdaptation(p)
Behind(p)           == IF HasAdaptation(p) THEN Field("stuffing", Stuffing(p)) \o Unit(p)
                                         ELSE Unit(p)

\* Where a section is, it has room for its list.
ListFits(p) == p.start /\ p.unit \in {"pat", "cat", "pmt"} => ListSize(p) >= 0

UnitNames  == PESNames \cup (HeaderNames \cup MapNames) \cup ListNames
FrontNames == {"header"} \cup ({"adaptation_field_length_"} \cup AdaptationNames)

\* The fields of a unit are named fields; with a list of its size they are a group.
LEMMA UnitNamed ==
    ASSUME NEW p, Sized(p), p.unit \in Units
    PROVE  /\ Named(Unit(p), UnitNames)
           /\ ListFits(p) => Group(Unit(p), UnitNames)
<1>1. Group(PESFields(p), PESNames)
  <2>1. Group(PESBlock, PESNames) /\ Group(PESBlock \o FromPESFlags(p), PESNames)
    BY PESGroups
  <2> QED BY <2>1, PESJoined
<1>2. /\ Named(Section(p), (HeaderNames \cup MapNames) \cup ListNames)
      /\ ListSize(p) >= 0 => Group(Section(p), (HeaderNames \cup MapNames) \cup ListNames)
  <2>1. /\ Group(SectionBlock(p), HeaderNames \cup MapNames)
        /\ Named(FromList(p), ListNames)
        /\ ListSize(p) >= 0 => Group(FromList(p), ListNames)
    BY SectionGroups
  <2>2. (HeaderNames \cup MapNames) \cap ListNames = {}
    BY DEF HeaderNames, MapNames, ListNames
  <2>3. Section(p) = SectionBlock(p) \o FromList(p)
    BY SectionJoined
  <2>4. Named(SectionBlock(p) \o FromList(p), (HeaderNames \cup MapNames) \cup ListNames)
    BY <2>1, <2>2, GroupNamed, NamedJoined
  <2>5. ASSUME ListSize(p) >= 0
        PROVE  Group(SectionBlock(p) \o FromList(p), (HeaderNames \cup MapNames) \cup ListNames)
    BY <2>1, <2>2, <2>5, GroupJoined
  <2> QED BY <2>3, <2>4, <2>5
<1>3. /\ Group(PESFields(p), UnitNames) /\ Named(Section(p), UnitNames)
      /\ ListSize(p) >= 0 => Group(Section(p), UnitNames)
      /\ Group(<<>>, UnitNames)
  BY <1>1, <1>2, NoFields DEF Group, Named, UnitNames
<1>4. CASE ~p.start \/ p.unit = "other"
  BY <1>3, <1>4, GroupNamed DEF Unit
<1>5. CASE p.start /\ p.unit = "pes"
  BY <1>3, <1>5, GroupNamed DEF Unit
<1>6. CASE p.start /\ p.unit \in {"pat", "cat", "pmt"}
  BY <1>3, <1>6 DEF Unit, ListFits
<1> QED BY <1>4, <1>5, <1>6 DEF Units

\* The part in front of the stuffing.
LEMMA FrontGroups ==
    ASSUME NEW p, Sized(p)
    PROVE  /\ Group(AdaptationContent(p), AdaptationNames)
           /\ Group(FromAdaptation(p), {"adaptation_field_length_"} \cup AdaptationNames)
           /\ Group(FromHeader(p), FrontNames)
           /\ Stuffing(p) \in Int
<1>s. /\ "header" \in FieldNames /\ "adaptation_field_length_" \in FieldNames
  BY DEF FieldNames
<1>1. Group(AdaptationContent(p), AdaptationNames)
  <2>1. CASE p.length = 0
    BY <2>1, NoFields DEF AdaptationContent, Group
  <2>2. CASE p.length # 0
    BY <2>2, AdaptationJoined, AdaptationGroups
  <2> QED BY <2>1, <2>2
<1>2. Group(Field("adaptation_field_length_", 1) \o AdaptationContent(p),
            {"adaptation_field_length_"} \cup AdaptationNames)
  <2>1. Group(Field("adaptation_field_length_", 1), {"adaptation_field_length_"})
    BY <1>s, GroupOfOne
  <2>2. {"adaptation_field_length_"} \cap AdaptationNames = {}
    BY DEF AdaptationNames, ExtensionNames, PrivateNames
  <2> QED BY <1>1, <2>1, <2>2, GroupJoined
<1>3. Group(FromAdaptation(p), {"adaptation_field_length_"} \cup AdaptationNames)
  BY <1>2, NoFields DEF FromAdaptation, Group
<1>4. Group(FromHeader(p), FrontNames)
  <2>1. Group(Field("header", 4), {"header"})
    BY <1>s, GroupOfOne
  <2>2. {"header"} \cap ({"adaptation_field_length_"} \cup AdaptationNames) = {}
    BY DEF AdaptationNames, ExtensionNames, PrivateNames
  <2> QED BY <1>3, <2>1, <2>2, GroupJoined DEF FromHeader, FrontNames
<1>5. Size(AdaptationContent(p)) \in Nat
  BY <1>1, NotNegative DEF Group
<1>6. Stuffing(p) \in Int
  BY <1>5 DEF Stuffing, Sized
<1> QED BY <1>1, <1>3, <1>4, <1>6

\* The part from the stuffing on.
LEMMA BehindNamed ==
    ASSUME NEW p, Sized(p), p.unit \in Units
    PROVE  /\ Named(Behind(p), {"stuffing"} \cup UnitNames)
           /\ ListFits(p) /\ Stuffing(p) >= 0 =>
                Group(Behind(p), {"stuffing"} \cup UnitNames)
<1>1. Stuffing(p) \in Int /\ "stuffing" \in FieldNames
  BY FrontGroups DEF FieldNames
<1>2. {"stuffing"} \cap UnitNames = {}
  BY DEF UnitNames, PESNames, HeaderNames, MapNames, ListNames
<1>3. Named(Field("stuffing", Stuffing(p)), {"stuffing"})
  BY <1>1, OneField DEF Named
<1>4. Named(Unit(p), UnitNames) /\ (ListFits(p) => Group(Unit(p), UnitNames))
  BY UnitNamed
<1>5. Named(Field("stuffing", Stuffing(p)) \o Unit(p), {"stuffing"} \cup UnitNames)
  BY <1>2, <1>3, <1>4, NamedJoined
<1>6. ASSUME ListFits(p), Stuffing(p) >= 0
      PROVE  Group(Field("stuffing", Stuffing(p)) \o Unit(p), {"stuffing"} \cup UnitNames)
  <2>1. Group(Field("stuffing", Stuffing(p)), {"stuffing"})
    BY <1>1, <1>6, GroupOfOne
  <2> QED BY <1>2, <1>4, <1>6, <2>1, GroupJoined
<1>7. CASE HasAdaptation(p)
  BY <1>5, <1>6, <1>7 DEF Behind
<1>8. CASE ~HasAdaptation(p)
  <2>1. Behind(p) = Unit(p)
    BY <1>8 DEF Behind
  <2> QED BY <1>4, <2>1 DEF Named, Group
<1> QED BY <1>7, <1>8

\* The whole packet is both parts; its fields have names of their own, and none
\* a negative size if the adaptation field and the section have room for theirs.
LEMMA WholePacket ==
    ASSUME NEW p, Sized(p), p.unit \in Units
    PROVE  /\ Layout(p) = FromHeader(p) \o Behind(p)
           /\ FromHeader(p) \in FieldSeq /\ Behind(p) \in FieldSeq
           /\ Layout(p) \in FieldSeq /\ Distinct(Layout(p))
           /\ ListFits(p) /\ Stuffing(p) >= 0 => NoneNegative(Layout(p))
<1>1. FromHeader(p) \in FieldSeq /\ Behind(p) \in FieldSeq /\ Unit(p) \in FieldSeq
  BY FrontGroups, BehindNamed, UnitNamed DEF Group, Named
<1>2. Layout(p) = FromHeader(p) \o Behind(p)
  <2> DEFINE H == Field("header", 4)
             L == Field("adaptation_field_length_", 1)
             A == AdaptationContent(p)
             S == Field("stuffing", Stuffing(p))
             U == Unit(p)
  <2>1. H \in FieldSeq /\ L \in FieldSeq /\ A \in FieldSeq /\ S \in FieldSeq
    <3>1. /\ "header" \in FieldNames /\ "adaptation_field_length_" \in FieldNames
          /\ "stuffing" \in FieldNames /\ Stuffing(p) \in Int
      BY FrontGroups DEF FieldNames
    <3>2. H \in FieldSeq /\ L \in FieldSeq /\ S \in FieldSeq
      BY <3>1, OneField
    <3> QED BY <3>2, FrontGroups DEF Group
  <2>2. CASE HasAdaptation(p)
    <3>1. Layout(p) = (H \o ((L \o A) \o S)) \o U
      BY <2>2 DEF Layout
    <3>2. FromHeader(p) = H \o (L \o A) /\ Behind(p) = S \o U
      BY <2>2 DEF FromHeader, FromAdaptation, Behind
    <3> HIDE DEF H, L, A, S, U
    <3> DEFINE B == L \o A
    <3>3. B \in FieldSeq
      BY <2>1, SumOfConcat
    <3> HIDE DEF B
    <3>4. Cat(H, B) \in FieldSeq /\ U \in FieldSeq
      BY <1>1, <2>1, <3>3, CatType DEF U
    <3>5. Cat(Cat(H, B), S) = Cat(H, Cat(B, S))
      BY <2>1, <3>3, Regroup3
    <3>6. Cat(Cat(Cat(H, B), S), U) = Cat(Cat(H, B), Cat(S, U))
      BY <2>1, <3>4, Regroup3
    <3>7. Cat(Cat(H, Cat(B, S)), U) = Cat(Cat(H, B), Cat(S, U))
      BY <3>5, <3>6
    <3>8. (H \o (B \o S)) \o U = (H \o B) \o (S \o U)
      BY <3>7 DEF Cat
    <3> QED BY <3>1, <3>2, <3>8 DEF B
  <2>3. CASE ~HasAdaptation(p)
    BY <2>3 DEF Layout, FromHeader, FromAdaptation, Behind
  <2> QED BY <2>2, <2>3
<1>3. FrontNames \cap ({"stuffing"} \cup UnitNames) = {}
  BY DEF FrontNames, AdaptationNames, ExtensionNames, PrivateNames, UnitNames, PESNames,
         HeaderNames, MapNames, ListNames
<1>4. Named(FromHeader(p) \o Behind(p), FrontNames \cup ({"stuffing"} \cup UnitNames))
  BY <1>3, FrontGroups, BehindNamed, GroupNamed, NamedJoined
<1>5. ASSUME ListFits(p), Stuffing(p) >= 0
      PROVE  Group(FromHeader(p) \o Behind(p), FrontNames \cup ({"stuffing"} \cup UnitNames))
  BY <1>3, <1>5, FrontGroups, BehindNamed, GroupJoined
<1> QED BY <1>1, <1>2, <1>4, <1>5 DEF Named, Group

\* Each field of a packet, and its place.
LEMMA PlacesAre == \A p : Places(p) = [f \in Names(Layout(p)) |-> At(Layout(p), f)]
BY DEF Places, Names, At
-----------------------------------------------------------------------------
(* The bits of the values.                                                 *)

\* Adding numbers that have no bit in common puts their bits together.
LEMMA PlusIsUnion ==
    \A x, y : x \subseteq 0 .. WORD - 1 /\ y \subseteq 0 .. WORD - 1 /\ x \cap y = {}
              => Plus(x, y) = x \cup y
<1> SUFFICES ASSUME NEW x, NEW y, x \subseteq 0 .. WORD - 1, y \subseteq 0 .. WORD - 1,
                    x \cap y = {}
             PROVE  Plus(x, y) = x \cup y
  OBVIOUS
<1> DEFINE Ones(b) == (IF b \in x THEN 1 ELSE 0) + (IF b \in y THEN 1 ELSE 0)
           Carries(c) == c = [b \in 0 .. WORD |->
                                IF b = 0 THEN 0 ELSE (Ones(b - 1) + c[b - 1]) \div 2]
           carry == CHOOSE c : Carries(c)
<1>1. \A b : Ones(b) \in {0, 1} /\ (Ones(b) = 1 <=> b \in x \cup y)
  <2> TAKE b
  <2>1. ~(b \in x /\ b \in y)
    OBVIOUS
  <2>2. CASE b \in x
    BY <2>1, <2>2
  <2>3. CASE b \in y
    BY <2>1, <2>3
  <2>4. CASE b \notin x /\ b \notin y
    BY <2>4
  <2> QED BY <2>2, <2>3, <2>4
<1> HIDE DEF Ones
<1>2. Carries([b \in 0 .. WORD |-> 0])
  <2> DEFINE c == [b \in 0 .. WORD |-> 0]
  <2>1. ASSUME NEW b \in 0 .. WORD
        PROVE  c[b] = IF b = 0 THEN 0 ELSE (Ones(b - 1) + c[b - 1]) \div 2
    <3>1. CASE b = 0
      BY <3>1
    <3>2. CASE b # 0
      <4>1. b - 1 \in 0 .. WORD /\ Ones(b - 1) \in {0, 1}
        BY <1>1, <3>2 DEF WORD
      <4>2. (Ones(b - 1) + 0) \div 2 = 0
        BY <4>1
      <4> QED BY <3>2, <4>1, <4>2
    <3> QED BY <3>1, <3>2
  <2> QED BY <2>1
<1>3. Carries(carry)
  BY <1>2
<1>4. \A b \in 0 .. WORD : carry[b] = 0
  <2>1. /\ carry[0] = 0
        /\ \A b \in 0 .. WORD : b # 0 => carry[b] = (Ones(b - 1) + carry[b - 1]) \div 2
    <3> HIDE DEF carry
    <3>1. \A b \in 0 .. WORD :
              carry[b] = IF b = 0 THEN 0 ELSE (Ones(b - 1) + carry[b - 1]) \div 2
      BY <1>3
    <3>2. 0 \in 0 .. WORD
      BY DEF WORD
    <3> QED BY <3>1, <3>2
  <2> DEFINE S == {n \in Nat : n <= WORD => carry[n] = 0}
  <2> HIDE DEF carry
  <2>2. 0 \in S
    BY <2>1
  <2>3. ASSUME NEW n \in Nat, n \in S PROVE n + 1 \in S
    <3> SUFFICES ASSUME n + 1 <= WORD PROVE carry[n + 1] = 0
      OBVIOUS
    <3>1. carry[n] = 0 /\ (n + 1) - 1 = n /\ n + 1 # 0 /\ n + 1 \in 0 .. WORD
      BY <2>3 DEF WORD
    <3>2. carry[n + 1] = (Ones(n) + carry[n]) \div 2
      BY <2>1, <3>1
    <3>3. Ones(n) \in {0, 1}
      BY <1>1
    <3>4. (Ones(n) + 0) \div 2 = 0
      BY <3>3
    <3> QED BY <3>1, <3>2, <3>4
  <2>4. Nat \subseteq S
    <3> HIDE DEF S
    <3> QED BY <2>2, <2>3, SetInduction
  <2>5. ASSUME NEW b \in 0 .. WORD PROVE carry[b] = 0
    <3>1. b \in Nat /\ b <= WORD
      BY DEF WORD
    <3>2. b \in S
      BY <2>4, <3>1
    <3> QED BY <3>1, <3>2
  <2> QED BY <2>5
<1>5. Plus(x, y) = {b \in 0 .. WORD - 1 : (Ones(b) + carry[b]) % 2 = 1}
  BY DEF Plus, Ones
<1>6. \A b \in 0 .. WORD - 1 : (Ones(b) + carry[b]) % 2 = 1 <=> b \in x \cup y
  <2> TAKE b \in 0 .. WORD - 1
  <2>1. carry[b] = 0
    <3> HIDE DEF carry
    <3>1. b \in 0 .. WORD
      BY DEF WORD
    <3> QED BY <1>4, <3>1
  <2>2. Ones(b) \in {0, 1} /\ (Ones(b) = 1 <=> b \in x \cup y)
    BY <1>1
  <2> HIDE DEF carry
  <2> QED BY <2>1, <2>2
<1> HIDE DEF carry
<1> QED BY <1>5, <1>6

\* Term i of a value, and piece i of it.
TermAt(terms, bytes, i) == Term(bytes[terms[i][1]], terms[i][2], terms[i][3])

\* Terms that have no bit in common add up to all their bits.
LEMMA TotalIsUnion ==
    ASSUME NEW terms, Len(terms) \in Nat, NEW bytes,
           \A i, j \in 1 .. Len(terms) :
              i # j => TermAt(terms, bytes, i) \cap TermAt(terms, bytes, j) = {}
    PROVE  Total(terms, bytes) = UNION {TermAt(terms, bytes, i) : i \in 1 .. Len(terms)}
<1> DEFINE n == Len(terms)
           T(i) == TermAt(terms, bytes, i)
           U(k) == UNION {T(i) : i \in 1 .. k}
           Adds(f) == f = [k \in 0 .. n |-> IF k = 0 THEN {} ELSE Plus(f[k - 1], T(k))]
           sum == CHOOSE f : Adds(f)
<1>1. \A i \in 1 .. n : T(i) \subseteq 0 .. WORD - 1
  BY DEF TermAt, Term
<1> HIDE DEF T
<1>2. ASSUME NEW k \in 1 .. n PROVE Plus(U(k - 1), T(k)) = U(k)
  <2>1. U(k - 1) \cup T(k) = U(k)
    <3>1. 1 .. k = (1 .. k - 1) \cup {k}
      OBVIOUS
    <3> QED BY <3>1
  <2>2. U(k - 1) \subseteq 0 .. WORD - 1 /\ T(k) \subseteq 0 .. WORD - 1
    BY <1>1
  <2>3. U(k - 1) \cap T(k) = {}
    <3> SUFFICES ASSUME NEW i \in 1 .. k - 1 PROVE T(i) \cap T(k) = {}
      OBVIOUS
    <3>1. i \in 1 .. n /\ i # k
      OBVIOUS
    <3> QED BY <3>1 DEF T
  <2> HIDE DEF U
  <2> QED BY <2>1, <2>2, <2>3, PlusIsUnion
<1>3. Adds([k \in 0 .. n |-> U(k)])
  <2> DEFINE f == [k \in 0 .. n |-> U(k)]
  <2>1. ASSUME NEW k \in 0 .. n
        PROVE  f[k] = IF k = 0 THEN {} ELSE Plus(f[k - 1], T(k))
    <3>1. CASE k = 0
      BY <3>1
    <3>2. CASE k # 0
      <4>1. k \in 1 .. n /\ k - 1 \in 0 .. n
        BY <3>2
      <4>2. f[k] = U(k) /\ f[k - 1] = U(k - 1)
        BY <4>1
      <4> HIDE DEF f, U
      <4> QED BY <1>2, <3>2, <4>1, <4>2
    <3> QED BY <3>1, <3>2
  <2> HIDE DEF U
  <2> QED BY <2>1
<1>4. Adds(sum)
  BY <1>3
<1>5. sum[n] = U(n)
  <2> DEFINE S == {k \in Nat : k <= n => sum[k] = U(k)}
  <2>1. 0 \in S
    <3>1. U(0) = {}
      OBVIOUS
    <3>2. sum[0] = {}
      <4> HIDE DEF sum, U
      <4> QED BY <1>4
    <3> QED BY <3>1, <3>2
  <2>2. ASSUME NEW k \in Nat, k \in S PROVE k + 1 \in S
    <3> SUFFICES ASSUME k + 1 <= n PROVE sum[k + 1] = U(k + 1)
      OBVIOUS
    <3>1. sum[k] = U(k) /\ (k + 1) - 1 = k /\ k + 1 # 0 /\ k + 1 \in 1 .. n /\ k + 1 \in 0 .. n
      BY <2>2
    <3>2. sum[k + 1] = Plus(sum[(k + 1) - 1], T(k + 1))
      BY <1>4, <3>1
    <3>3. Plus(U((k + 1) - 1), T(k + 1)) = U(k + 1)
      BY <1>2, <3>1
    <3> HIDE DEF U, sum
    <3> QED BY <3>1, <3>2, <3>3
  <2>3. Nat \subseteq S
    <3> HIDE DEF S
    <3> QED BY <2>1, <2>2, SetInduction
  <2> QED BY <2>3
<1>6. Total(terms, bytes) = sum[n]
  BY DEF Total, T, TermAt
<1> HIDE DEF sum
<1> QED BY <1>5, <1>6 DEF T

\* The bits that the masks select.
LEMMA Masks ==
    /\ BitsOf(\hFF) = 0 .. 7 /\ BitsOf(\h7F) = 0 .. 6 /\ BitsOf(\h3F) = 0 .. 5
    /\ BitsOf(\h1F) = 0 .. 4 /\ BitsOf(\h01) = 0 .. 0 /\ BitsOf(\hFE) = 1 .. 7
    /\ BitsOf(\h0E) = 1 .. 3 /\ BitsOf(\h3E) = 1 .. 5 /\ BitsOf(\h7F00) = {}
<1>1. /\ Weights[1] = 1 /\ Weights[2] = 2 /\ Weights[3] = 4 /\ Weights[4] = 8
      /\ Weights[5] = 16 /\ Weights[6] = 32 /\ Weights[7] = 64 /\ Weights[8] = 128
  BY DEF Weights
<1>2. ASSUME NEW n
      PROVE  BitsOf(n) = {b \in {0, 1, 2, 3, 4, 5, 6, 7} : (n \div Weights[b + 1]) % 2 = 1}
  <2>1. 0 .. 7 = {0, 1, 2, 3, 4, 5, 6, 7}
    OBVIOUS
  <2> QED BY <2>1 DEF BitsOf
<1>3. BitsOf(\hFF) = 0 .. 7
  BY <1>1, <1>2
<1>4. BitsOf(\h7F) = 0 .. 6
  BY <1>1, <1>2
<1>5. BitsOf(\h3F) = 0 .. 5
  BY <1>1, <1>2
<1>6. BitsOf(\h1F) = 0 .. 4
  BY <1>1, <1>2
<1>7. BitsOf(\h01) = 0 .. 0
  BY <1>1, <1>2
<1>8. BitsOf(\hFE) = 1 .. 7
  BY <1>1, <1>2
<1>9. BitsOf(\h0E) = 1 .. 3
  BY <1>1, <1>2
<1>10. BitsOf(\h3E) = 1 .. 5
  BY <1>1, <1>2
<1>11. BitsOf(\h7F00) = {}
  BY <1>1, <1>2
<1> QED BY <1>3, <1>4, <1>5, <1>6, <1>7, <1>8, <1>9, <1>10, <1>11

\* Term i of a value takes its bits from the byte, and puts them to the places,
\* of piece i; of the bits of the piece those in kept.
Matches(term, piece, kept) ==
    /\ term[1] = piece[1] /\ term[1] \in 0 .. 5
    /\ piece[4] \in Int /\ piece[3] \in Int /\ piece[2] \in Int
    /\ term[3] = piece[4] - piece[3]
    /\ \A b \in 0 .. 7 : (b \in BitsOf(term[2]) /\ b + term[3] \in 0 .. WORD - 1)
                          <=> (b \in piece[3] .. piece[2] /\ b + term[3] \in kept)

\* The pieces are listed from the highest down.
Descending(pieces) ==
    \A i, j \in 1 .. Len(pieces) :
        i < j => pieces[i][4] > pieces[j][4] + pieces[j][2] - pieces[j][3]

\* The six bytes at a field, each the set of its bits.
Bytes6 == [0 .. 5 -> SUBSET (0 .. 7)]

\* What matches is made of numbers.
LEMMA MatchesNumbers ==
    \A term, piece, kept : Matches(term, piece, kept) =>
        /\ piece[2] \in Int /\ piece[3] \in Int /\ piece[4] \in Int /\ term[3] \in Int
        /\ term[1] = piece[1] /\ term[1] \in 0 .. 5 /\ term[3] = piece[4] - piece[3]
<1> SUFFICES ASSUME NEW term, NEW piece, NEW kept, Matches(term, piece, kept)
             PROVE  /\ piece[2] \in Int /\ piece[3] \in Int /\ piece[4] \in Int
                    /\ term[3] \in Int /\ term[1] = piece[1] /\ term[1] \in 0 .. 5
                    /\ term[3] = piece[4] - piece[3]
  OBVIOUS
<1> DEFINE high == piece[2]
           low == piece[3]
           weight == piece[4]
           shift == term[3]
<1>1. high \in Int /\ low \in Int /\ weight \in Int /\ shift = weight - low
  BY DEF Matches
<1> HIDE DEF high, low, weight, shift
<1>2. high \in Int /\ low \in Int /\ weight \in Int /\ shift \in Int /\ shift = weight - low
  BY <1>1
<1>3. term[1] = piece[1] /\ term[1] \in 0 .. 5
  BY DEF Matches
<1> QED BY <1>2, <1>3 DEF high, low, weight, shift

\* The bits of a piece are as far as it reaches.
LEMMA PieceBounds ==
    \A p, bytes, x :
        /\ p[2] \in Int /\ p[3] \in Int /\ p[4] \in Int /\ x \in Piece(p, bytes)
        => x \in Int /\ x >= p[4] /\ x <= p[4] + p[2] - p[3]
<1> SUFFICES ASSUME NEW p, NEW bytes, NEW x, p[2] \in Int, p[3] \in Int, p[4] \in Int,
                    x \in Piece(p, bytes)
             PROVE  x \in Int /\ x >= p[4] /\ x <= p[4] + p[2] - p[3]
  OBVIOUS
<1>1. PICK b \in bytes[p[1]] \cap (p[3] .. p[2]) : x = p[4] + b - p[3]
  BY DEF Piece
<1> DEFINE high == p[2]
           low == p[3]
           weight == p[4]
<1>2. b \in low .. high /\ x = weight + b - low
      /\ high \in Int /\ low \in Int /\ weight \in Int
  BY <1>1
<1> HIDE DEF high, low, weight
<1>3. x \in Int /\ x >= weight /\ x <= weight + high - low
  BY <1>2
<1> QED BY <1>3 DEF high, low, weight

\* A term is what is kept of its piece.
LEMMA TermIsPiece ==
    \A term, piece, kept, bytes :
        Matches(term, piece, kept) /\ bytes \in Bytes6 =>
            Term(bytes[term[1]], term[2], term[3]) = Piece(piece, bytes) \cap kept
<1> SUFFICES ASSUME NEW term, NEW piece, NEW kept, NEW bytes \in Bytes6,
                    Matches(term, piece, kept)
             PROVE  Term(bytes[term[1]], term[2], term[3]) = Piece(piece, bytes) \cap kept
  OBVIOUS
<1> DEFINE byte == bytes[term[1]]
           low  == piece[3]
           high == piece[2]
           weight == piece[4]
           s    == term[3]
           mask == BitsOf(term[2])
<1>1. /\ high \in Int /\ low \in Int /\ weight \in Int /\ s \in Int /\ s = weight - low
      /\ byte \subseteq 0 .. 7 /\ bytes[piece[1]] = byte
  BY MatchesNumbers DEF Bytes6
<1>2. \A b \in 0 .. 7 : (b \in mask /\ b + s \in 0 .. WORD - 1)
                        <=> (b \in low .. high /\ b + s \in kept)
  BY DEF Matches
<1>3. /\ Term(bytes[term[1]], term[2], term[3])
           = {b + s : b \in byte \cap mask} \cap (0 .. WORD - 1)
      /\ Piece(piece, bytes) = {weight + b - low : b \in byte \cap (low .. high)}
  BY <1>1 DEF Term, Piece
<1> HIDE DEF byte, low, high, weight, s, mask
<1>4. \A b \in byte : weight + b - low = b + s
  BY <1>1
<1>5. Piece(piece, bytes) = {b + s : b \in byte \cap (low .. high)}
  BY <1>3, <1>4
<1>6. {b + s : b \in byte \cap mask} \cap (0 .. WORD - 1)
        = {b + s : b \in byte \cap (low .. high)} \cap kept
  BY <1>1, <1>2
<1> QED BY <1>3, <1>5, <1>6

\* Every term of a value matches its piece.
Assembles(terms, pieces, kept) ==
    /\ Len(terms) \in Nat /\ Len(pieces) = Len(terms) /\ DOMAIN pieces = 1 .. Len(pieces)
    /\ \A i \in 1 .. Len(terms) : Matches(terms[i], pieces[i], kept)
    /\ Descending(pieces)

\* Then the sum of the terms is what is kept of the pieces.
LEMMA TotalKeeps ==
    \A terms, pieces, kept, bytes :
        Assembles(terms, pieces, kept) /\ bytes \in Bytes6 =>
            Total(terms, bytes)
              = (UNION {Piece(pieces[i], bytes) : i \in DOMAIN pieces}) \cap kept
<1> SUFFICES ASSUME NEW terms, NEW pieces, NEW kept, NEW bytes \in Bytes6,
                    Assembles(terms, pieces, kept)
             PROVE  Total(terms, bytes)
                      = (UNION {Piece(pieces[i], bytes) : i \in DOMAIN pieces}) \cap kept
  OBVIOUS
<1>0. /\ Len(terms) \in Nat /\ Len(pieces) = Len(terms) /\ DOMAIN pieces = 1 .. Len(pieces)
      /\ \A i \in 1 .. Len(terms) : Matches(terms[i], pieces[i], kept)
      /\ Descending(pieces)
  BY DEF Assembles
<1> DEFINE n == Len(terms)
<1>1. ASSUME NEW i \in 1 .. n
      PROVE  TermAt(terms, bytes, i) = Piece(pieces[i], bytes) \cap kept
  BY <1>0, TermIsPiece DEF TermAt
<1>2. ASSUME NEW i \in 1 .. n, NEW j \in 1 .. n, i < j
      PROVE  Piece(pieces[i], bytes) \cap Piece(pieces[j], bytes) = {}
  <2> SUFFICES ASSUME NEW x, x \in Piece(pieces[i], bytes), x \in Piece(pieces[j], bytes)
               PROVE  FALSE
    OBVIOUS
  <2> DEFINE p == pieces[i]
             q == pieces[j]
             w == p[4]
             top == q[4] + q[2] - q[3]
  <2>1. w > top
    BY <1>0, <1>2 DEF Descending
  <2>2. Matches(terms[i], p, kept) /\ Matches(terms[j], q, kept)
    BY <1>0
  <2>3. /\ p[4] \in Int /\ p[3] \in Int /\ p[2] \in Int /\ q[4] \in Int /\ q[3] \in Int
        /\ q[2] \in Int
    <3> HIDE DEF p, q
    <3> QED BY <2>2, MatchesNumbers
  <2>4. top \in Int
    <3> HIDE DEF p, q
    <3> QED BY <2>3
  <2>5. x \in Int /\ x >= w /\ x <= top
    <3> HIDE DEF p, q
    <3>1. x \in Piece(p, bytes) /\ x \in Piece(q, bytes)
      BY DEF p, q
    <3> QED BY <2>3, <3>1, PieceBounds
  <2> HIDE DEF w, top
  <2> QED BY <2>1, <2>3, <2>4, <2>5 DEF w
<1>3. ASSUME NEW i \in 1 .. n, NEW j \in 1 .. n, i # j
      PROVE  TermAt(terms, bytes, i) \cap TermAt(terms, bytes, j) = {}
  <2>1. Piece(pieces[i], bytes) \cap Piece(pieces[j], bytes) = {}
    <3>1. CASE i < j
      BY <1>2, <3>1
    <3>2. CASE j < i
      BY <1>2, <3>2
    <3> QED BY <1>3, <3>1, <3>2
  <2> QED BY <1>1, <2>1
<1>4. Total(terms, bytes) = UNION {TermAt(terms, bytes, i) : i \in 1 .. n}
  BY <1>0, <1>3, TotalIsUnion
<1>5. UNION {TermAt(terms, bytes, i) : i \in 1 .. n}
        = (UNION {Piece(pieces[i], bytes) : i \in 1 .. n}) \cap kept
  BY <1>1
<1> QED BY <1>0, <1>4, <1>5
\* A time stamp.
LEMMA StampAssembles == Assembles(Stamp, StampPieces, 0 .. WORD - 1)
<1> DEFINE kept == 0 .. WORD - 1
<1>1. Matches(<<0, \h0E, 29>>, <<0, 3, 1, 30>>, kept)
  BY Masks DEF Matches, WORD
<1>2. Matches(<<1, \hFF, 22>>, <<1, 7, 0, 22>>, kept)
  BY Masks DEF Matches, WORD
<1>3. Matches(<<2, \hFE, 14>>, <<2, 7, 1, 15>>, kept)
  BY Masks DEF Matches, WORD
<1>4. Matches(<<3, \hFF, 7>>, <<3, 7, 0, 7>>, kept)
  BY Masks DEF Matches, WORD
<1>5. Matches(<<4, \hFE, -1>>, <<4, 7, 1, 0>>, kept)
  BY Masks DEF Matches, WORD
<1> HIDE DEF kept
<1>6. Len(Stamp) = 5 /\ Len(StampPieces) = 5 /\ DOMAIN StampPieces = 1 .. 5
  BY DEF Stamp, StampPieces
<1>7. 1 .. 5 = {1, 2, 3, 4, 5}
  OBVIOUS
<1>8. \A i \in 1 .. 5 : Matches(Stamp[i], StampPieces[i], kept)
  BY <1>1, <1>2, <1>3, <1>4, <1>5, <1>7 DEF Stamp, StampPieces
<1>9. Descending(StampPieces)
  BY <1>6, <1>7 DEF Descending, StampPieces
<1>10. Assembles(Stamp, StampPieces, kept)
  BY <1>6, <1>8, <1>9 DEF Assembles
<1> QED BY <1>10 DEF kept

\* A clock reference.
LEMMA PCRBaseAssembles == Assembles(PCRBase, PCRBasePieces, 0 .. WORD - 1)
<1> DEFINE kept == 0 .. WORD - 1
<1>1. Matches(<<0, \hFF, 25>>, <<0, 7, 0, 25>>, kept)
  BY Masks DEF Matches, WORD
<1>2. Matches(<<1, \hFF, 17>>, <<1, 7, 0, 17>>, kept)
  BY Masks DEF Matches, WORD
<1>3. Matches(<<2, \hFF, 9>>, <<2, 7, 0, 9>>, kept)
  BY Masks DEF Matches, WORD
<1>4. Matches(<<3, \hFF, 1>>, <<3, 7, 0, 1>>, kept)
  BY Masks DEF Matches, WORD
<1>5. Matches(<<4, \hFF, -7>>, <<4, 7, 7, 0>>, kept)
  BY Masks DEF Matches, WORD
<1> HIDE DEF kept
<1>6. Len(PCRBase) = 5 /\ Len(PCRBasePieces) = 5 /\ DOMAIN PCRBasePieces = 1 .. 5
  BY DEF PCRBase, PCRBasePieces
<1>7. 1 .. 5 = {1, 2, 3, 4, 5}
  OBVIOUS
<1>8. \A i \in 1 .. 5 : Matches(PCRBase[i], PCRBasePieces[i], kept)
  BY <1>1, <1>2, <1>3, <1>4, <1>5, <1>7 DEF PCRBase, PCRBasePieces
<1>9. Descending(PCRBasePieces)
  BY <1>6, <1>7 DEF Descending, PCRBasePieces
<1>10. Assembles(PCRBase, PCRBasePieces, kept)
  BY <1>6, <1>8, <1>9 DEF Assembles
<1> QED BY <1>10 DEF kept

\* The extension of a clock reference.
LEMMA PCRExtAssembles == Assembles(PCRExt, PCRExtPieces, 0 .. WORD - 1)
<1> DEFINE kept == 0 .. WORD - 1
<1>1. Matches(<<4, \h01, 8>>, <<4, 0, 0, 8>>, kept)
  BY Masks DEF Matches, WORD
<1>2. Matches(<<5, \hFF, 0>>, <<5, 7, 0, 0>>, kept)
  BY Masks DEF Matches, WORD
<1> HIDE DEF kept
<1>3. Len(PCRExt) = 2 /\ Len(PCRExtPieces) = 2 /\ DOMAIN PCRExtPieces = 1 .. 2
  BY DEF PCRExt, PCRExtPieces
<1>4. 1 .. 2 = {1, 2}
  OBVIOUS
<1>5. \A i \in 1 .. 2 : Matches(PCRExt[i], PCRExtPieces[i], kept)
  BY <1>1, <1>2, <1>4 DEF PCRExt, PCRExtPieces
<1>6. Descending(PCRExtPieces)
  BY <1>3, <1>4 DEF Descending, PCRExtPieces
<1>7. Assembles(PCRExt, PCRExtPieces, kept)
  BY <1>3, <1>5, <1>6 DEF Assembles
<1> QED BY <1>7 DEF kept

\* dts_next_au_ loses the bits its masks leave out.
LEMMA NextAuAssembles ==
    Assembles(<< <<0, \h0E, 29>>, <<1, \hFF, 22>>, <<2, \h0E, 14>>,
                 <<3, \hFF, 7>>, <<4, \h0E, -1>> >>,
              StampPieces, (0 .. 2) \cup (7 .. 17) \cup (22 .. 31))
<1> DEFINE kept == (0 .. 2) \cup (7 .. 17) \cup (22 .. 31)
           terms == << <<0, \h0E, 29>>, <<1, \hFF, 22>>, <<2, \h0E, 14>>,
                       <<3, \hFF, 7>>, <<4, \h0E, -1>> >>
<1>1. Matches(<<0, \h0E, 29>>, <<0, 3, 1, 30>>, kept)
  BY Masks DEF Matches, WORD
<1>2. Matches(<<1, \hFF, 22>>, <<1, 7, 0, 22>>, kept)
  BY Masks DEF Matches, WORD
<1>3. Matches(<<2, \h0E, 14>>, <<2, 7, 1, 15>>, kept)
  BY Masks DEF Matches, WORD
<1>4. Matches(<<3, \hFF, 7>>, <<3, 7, 0, 7>>, kept)
  BY Masks DEF Matches, WORD
<1>5. Matches(<<4, \h0E, -1>>, <<4, 7, 1, 0>>, kept)
  BY Masks DEF Matches, WORD
<1> HIDE DEF kept
<1>6. Len(terms) = 5 /\ Len(StampPieces) = 5 /\ DOMAIN StampPieces = 1 .. 5
  BY DEF StampPieces
<1>7. 1 .. 5 = {1, 2, 3, 4, 5}
  OBVIOUS
<1>8. \A i \in 1 .. 5 : Matches(terms[i], StampPieces[i], kept)
  BY <1>1, <1>2, <1>3, <1>4, <1>5, <1>7 DEF StampPieces
<1>9. Descending(StampPieces)
  BY <1>6, <1>7 DEF Descending, StampPieces
<1> HIDE DEF terms
<1>10. Assembles(terms, StampPieces, kept)
  BY <1>6, <1>8, <1>9 DEF Assembles
<1> QED BY <1>10 DEF kept, terms

\* piecewise_rate_.
LEMMA PiecewiseAssembles ==
    Assembles(<< <<0, \h3F, 16>>, <<1, \hFF, 8>>, <<2, \hFF, 0>> >>,
              << <<0, 5, 0, 16>>, <<1, 7, 0, 8>>, <<2, 7, 0, 0>> >>, 0 .. WORD - 1)
<1> DEFINE kept == 0 .. WORD - 1
           terms == << <<0, \h3F, 16>>, <<1, \hFF, 8>>, <<2, \hFF, 0>> >>
           pieces == << <<0, 5, 0, 16>>, <<1, 7, 0, 8>>, <<2, 7, 0, 0>> >>
<1>1. Matches(<<0, \h3F, 16>>, <<0, 5, 0, 16>>, kept)
  BY Masks DEF Matches, WORD
<1>2. Matches(<<1, \hFF, 8>>, <<1, 7, 0, 8>>, kept)
  BY Masks DEF Matches, WORD
<1>3. Matches(<<2, \hFF, 0>>, <<2, 7, 0, 0>>, kept)
  BY Masks DEF Matches, WORD
<1> HIDE DEF kept
<1>4. Len(terms) = 3 /\ Len(pieces) = 3 /\ DOMAIN pieces = 1 .. 3
  OBVIOUS
<1>5. 1 .. 3 = {1, 2, 3}
  OBVIOUS
<1>6. \A i \in 1 .. 3 : Matches(terms[i], pieces[i], kept)
  BY <1>1, <1>2, <1>3, <1>5
<1>7. Descending(pieces)
  BY <1>4, <1>5 DEF Descending
<1> HIDE DEF terms, pieces
<1>8. Assembles(terms, pieces, kept)
  BY <1>4, <1>6, <1>7 DEF Assembles
<1> QED BY <1>8 DEF kept, terms, pieces

\* A field of seven bits.
LEMMA SevenBitsAssembles ==
    Assembles(<< <<0, \h7F, 0>> >>,
              << <<0, 6, 0, 0>> >>, 0 .. WORD - 1)
<1> DEFINE kept == 0 .. WORD - 1
           terms == << <<0, \h7F, 0>> >>
           pieces == << <<0, 6, 0, 0>> >>
<1>1. Matches(<<0, \h7F, 0>>, <<0, 6, 0, 0>>, kept)
  BY Masks DEF Matches, WORD
<1> HIDE DEF kept
<1>2. Len(terms) = 1 /\ Len(pieces) = 1 /\ DOMAIN pieces = 1 .. 1
  OBVIOUS
<1>3. 1 .. 1 = {1}
  OBVIOUS
<1>4. \A i \in 1 .. 1 : Matches(terms[i], pieces[i], kept)
  BY <1>1, <1>3
<1>5. Descending(pieces)
  BY <1>2, <1>3 DEF Descending
<1> HIDE DEF terms, pieces
<1>6. Assembles(terms, pieces, kept)
  BY <1>2, <1>4, <1>5 DEF Assembles
<1> QED BY <1>6 DEF kept, terms, pieces

\* original_stuff_length_.
LEMMA StuffLengthAssembles ==
    Assembles(<< <<1, \h3F, 0>> >>,
              << <<1, 5, 0, 0>> >>, 0 .. WORD - 1)
<1> DEFINE kept == 0 .. WORD - 1
           terms == << <<1, \h3F, 0>> >>
           pieces == << <<1, 5, 0, 0>> >>
<1>1. Matches(<<1, \h3F, 0>>, <<1, 5, 0, 0>>, kept)
  BY Masks DEF Matches, WORD
<1> HIDE DEF kept
<1>2. Len(terms) = 1 /\ Len(pieces) = 1 /\ DOMAIN pieces = 1 .. 1
  OBVIOUS
<1>3. 1 .. 1 = {1}
  OBVIOUS
<1>4. \A i \in 1 .. 1 : Matches(terms[i], pieces[i], kept)
  BY <1>1, <1>3
<1>5. Descending(pieces)
  BY <1>2, <1>3 DEF Descending
<1> HIDE DEF terms, pieces
<1>6. Assembles(terms, pieces, kept)
  BY <1>2, <1>4, <1>5 DEF Assembles
<1> QED BY <1>6 DEF kept, terms, pieces

\* pcr_pid_.
LEMMA PidAssembles ==
    Assembles(<< <<0, \h1F, 8>>, <<1, \hFF, 0>> >>,
              << <<0, 4, 0, 8>>, <<1, 7, 0, 0>> >>, 0 .. WORD - 1)
<1> DEFINE kept == 0 .. WORD - 1
           terms == << <<0, \h1F, 8>>, <<1, \hFF, 0>> >>
           pieces == << <<0, 4, 0, 8>>, <<1, 7, 0, 0>> >>
<1>1. Matches(<<0, \h1F, 8>>, <<0, 4, 0, 8>>, kept)
  BY Masks DEF Matches, WORD
<1>2. Matches(<<1, \hFF, 0>>, <<1, 7, 0, 0>>, kept)
  BY Masks DEF Matches, WORD
<1> HIDE DEF kept
<1>3. Len(terms) = 2 /\ Len(pieces) = 2 /\ DOMAIN pieces = 1 .. 2
  OBVIOUS
<1>4. 1 .. 2 = {1, 2}
  OBVIOUS
<1>5. \A i \in 1 .. 2 : Matches(terms[i], pieces[i], kept)
  BY <1>1, <1>2, <1>4
<1>6. Descending(pieces)
  BY <1>3, <1>4 DEF Descending
<1> HIDE DEF terms, pieces
<1>7. Assembles(terms, pieces, kept)
  BY <1>3, <1>5, <1>6 DEF Assembles
<1> QED BY <1>7 DEF kept, terms, pieces

\* version_number_.
LEMMA VersionAssembles ==
    Assembles(<< <<0, \h3E, -1>> >>,
              << <<0, 5, 1, 0>> >>, 0 .. WORD - 1)
<1> DEFINE kept == 0 .. WORD - 1
           terms == << <<0, \h3E, -1>> >>
           pieces == << <<0, 5, 1, 0>> >>
<1>1. Matches(<<0, \h3E, -1>>, <<0, 5, 1, 0>>, kept)
  BY Masks DEF Matches, WORD
<1> HIDE DEF kept
<1>2. Len(terms) = 1 /\ Len(pieces) = 1 /\ DOMAIN pieces = 1 .. 1
  OBVIOUS
<1>3. 1 .. 1 = {1}
  OBVIOUS
<1>4. \A i \in 1 .. 1 : Matches(terms[i], pieces[i], kept)
  BY <1>1, <1>3
<1>5. Descending(pieces)
  BY <1>2, <1>3 DEF Descending
<1> HIDE DEF terms, pieces
<1>6. Assembles(terms, pieces, kept)
  BY <1>2, <1>4, <1>5 DEF Assembles
<1> QED BY <1>6 DEF kept, terms, pieces

\* crc_32_.
LEMMA CrcAssembles ==
    Assembles(<< <<0, \hFF, 24>>, <<1, \hFF, 16>>, <<2, \hFF, 8>>, <<3, \hFF, 0>> >>,
              << <<0, 7, 0, 24>>, <<1, 7, 0, 16>>, <<2, 7, 0, 8>>, <<3, 7, 0, 0>> >>,
              0 .. WORD - 1)
<1> DEFINE kept == 0 .. WORD - 1
           terms == << <<0, \hFF, 24>>, <<1, \hFF, 16>>, <<2, \hFF, 8>>, <<3, \hFF, 0>> >>
           pieces == << <<0, 7, 0, 24>>, <<1, 7, 0, 16>>, <<2, 7, 0, 8>>, <<3, 7, 0, 0>> >>
<1>1. Matches(<<0, \hFF, 24>>, <<0, 7, 0, 24>>, kept)
  BY Masks DEF Matches, WORD
<1>2. Matches(<<1, \hFF, 16>>, <<1, 7, 0, 16>>, kept)
  BY Masks DEF Matches, WORD
<1>3. Matches(<<2, \hFF, 8>>, <<2, 7, 0, 8>>, kept)
  BY Masks DEF Matches, WORD
<1>4. Matches(<<3, \hFF, 0>>, <<3, 7, 0, 0>>, kept)
  BY Masks DEF Matches, WORD
<1> HIDE DEF kept
<1>5. Len(terms) = 4 /\ Len(pieces) = 4 /\ DOMAIN pieces = 1 .. 4
  OBVIOUS
<1>6. 1 .. 4 = {1, 2, 3, 4}
  OBVIOUS
<1>7. \A i \in 1 .. 4 : Matches(terms[i], pieces[i], kept)
  BY <1>1, <1>2, <1>3, <1>4, <1>6
<1>8. Descending(pieces)
  BY <1>5, <1>6 DEF Descending
<1> HIDE DEF terms, pieces
<1>9. Assembles(terms, pieces, kept)
  BY <1>5, <1>7, <1>8 DEF Assembles
<1> QED BY <1>9 DEF kept, terms, pieces

\* So whatever assembles the pieces of a value is right.
LEMMA KeepsMeant ==
    \A v, bytes : /\ Assembles(Code(v).terms, Pieces(v), Kept(v))
                  /\ bytes \in Bytes6
                  => Assembled(v, bytes) = Meant(v, bytes) \cap Kept(v)
<1> SUFFICES ASSUME NEW v, NEW bytes \in Bytes6, Assembles(Code(v).terms, Pieces(v), Kept(v))
             PROVE  Assembled(v, bytes) = Meant(v, bytes) \cap Kept(v)
  OBVIOUS
<1> DEFINE terms == Code(v).terms
           pieces == Pieces(v)
           kept == Kept(v)
<1>1. Assembles(terms, pieces, kept)
  OBVIOUS
<1>2. /\ Assembled(v, bytes) = Total(terms, bytes)
      /\ Meant(v, bytes) = UNION {Piece(pieces[i], bytes) : i \in DOMAIN pieces}
  BY DEF Assembled, Meant
<1> HIDE DEF terms, pieces
<1> QED BY <1>1, <1>2, TotalKeeps
\* The values of which the code keeps other bits than those of all the pieces.
Partial == {"ltw_offset_", "escr_extension_", "previous_pes_packet_crc_"} \cup OPCRValues

\* Every other value that is not misplaced is assembled from its pieces.
LEMMA ValuesAssemble ==
    \A v \in Values \ (Misplaced \cup Partial) : Assembles(Code(v).terms, Pieces(v), Kept(v))
<1> SUFFICES ASSUME NEW v \in Values \ (Misplaced \cup Partial)
             PROVE  Assembles(Code(v).terms, Pieces(v), Kept(v))
  OBVIOUS

<1>1. CASE v \in {"pts_", "dts_"}
  <2>1. /\ Code("pts_").terms = Stamp
        /\ Pieces("pts_") = StampPieces
        /\ Kept("pts_") = 0 .. WORD - 1
    BY DEF Code, TimeStamps, Decoding, Pieces, Kept, OPCRValues
  <2>2. /\ Code("dts_").terms = Stamp
        /\ Pieces("dts_") = StampPieces
        /\ Kept("dts_") = 0 .. WORD - 1
    BY DEF Code, TimeStamps, Decoding, Pieces, Kept, OPCRValues
  <2> QED BY <1>1, <2>1, <2>2, StampAssembles
<1>2. CASE v = "program_clock_reference_base_"
  <2>1. /\ Code("program_clock_reference_base_").terms = PCRBase
        /\ Pieces("program_clock_reference_base_") = PCRBasePieces
        /\ Kept("program_clock_reference_base_") = 0 .. WORD - 1
    BY DEF Code, TimeStamps, Decoding, Pieces, Kept, OPCRValues
  <2> QED BY <1>2, <2>1, PCRBaseAssembles
<1>3. CASE v = "program_clock_reference_extension_"
  <2>1. /\ Code("program_clock_reference_extension_").terms = PCRExt
        /\ Pieces("program_clock_reference_extension_") = PCRExtPieces
        /\ Kept("program_clock_reference_extension_") = 0 .. WORD - 1
    BY DEF Code, TimeStamps, OtherValues, Decoding, Pieces, Kept, OPCRValues
  <2> QED BY <1>3, <2>1, PCRExtAssembles
<1>4. CASE v = "dts_next_au_"
  <2>1. /\ Code("dts_next_au_").terms = << <<0, \h0E, 29>>, <<1, \hFF, 22>>, <<2, \h0E, 14>>,
                                           <<3, \hFF, 7>>, <<4, \h0E, -1>> >>
        /\ Pieces("dts_next_au_") = StampPieces
        /\ Kept("dts_next_au_") = (0 .. 2) \cup (7 .. 17) \cup (22 .. 31)
    BY DEF Code, TimeStamps, Decoding, Pieces, Kept, OPCRValues
  <2> QED BY <1>4, <2>1, NextAuAssembles
<1>5. CASE v = "piecewise_rate_"
  <2>1. /\ Code("piecewise_rate_").terms = << <<0, \h3F, 16>>, <<1, \hFF, 8>>, <<2, \hFF, 0>> >>
        /\ Pieces("piecewise_rate_") = << <<0, 5, 0, 16>>, <<1, 7, 0, 8>>, <<2, 7, 0, 0>> >>
        /\ Kept("piecewise_rate_") = 0 .. WORD - 1
    BY DEF Code, TimeStamps, OtherValues, Decoding, Pieces, Kept, OPCRValues
  <2> QED BY <1>5, <2>1, PiecewiseAssembles
<1>6. CASE v \in {"additional_copy_info_", "program_packet_sequence_counter_"}
  <2>1. /\ Code("additional_copy_info_").terms = << <<0, \h7F, 0>> >>
        /\ Pieces("additional_copy_info_") = << <<0, 6, 0, 0>> >>
        /\ Kept("additional_copy_info_") = 0 .. WORD - 1
    BY DEF Code, TimeStamps, OtherValues, Decoding, Pieces, Kept, OPCRValues
  <2>2. /\ Code("program_packet_sequence_counter_").terms = << <<0, \h7F, 0>> >>
        /\ Pieces("program_packet_sequence_counter_") = << <<0, 6, 0, 0>> >>
        /\ Kept("program_packet_sequence_counter_") = 0 .. WORD - 1
    BY DEF Code, TimeStamps, OtherValues, Decoding, Pieces, Kept, OPCRValues
  <2> QED BY <1>6, <2>1, <2>2, SevenBitsAssembles
<1>7. CASE v = "original_stuff_length_"
  <2>1. /\ Code("original_stuff_length_").terms = << <<1, \h3F, 0>> >>
        /\ Pieces("original_stuff_length_") = << <<1, 5, 0, 0>> >>
        /\ Kept("original_stuff_length_") = 0 .. WORD - 1
    BY DEF Code, TimeStamps, OtherValues, Decoding, Pieces, Kept, OPCRValues
  <2> QED BY <1>7, <2>1, StuffLengthAssembles
<1>8. CASE v = "pcr_pid_"
  <2>1. /\ Code("pcr_pid_").terms = << <<0, \h1F, 8>>, <<1, \hFF, 0>> >>
        /\ Pieces("pcr_pid_") = << <<0, 4, 0, 8>>, <<1, 7, 0, 0>> >>
        /\ Kept("pcr_pid_") = 0 .. WORD - 1
    BY DEF Code, TimeStamps, OtherValues, TwoBytes, Decoding, Pieces, Kept, OPCRValues
  <2> QED BY <1>8, <2>1, PidAssembles
<1>9. CASE v = "version_number_"
  <2>1. /\ Code("version_number_").terms = << <<0, \h3E, -1>> >>
        /\ Pieces("version_number_") = << <<0, 5, 1, 0>> >>
        /\ Kept("version_number_") = 0 .. WORD - 1
    BY DEF Code, TimeStamps, OtherValues, Decoding, Pieces, Kept, OPCRValues
  <2> QED BY <1>9, <2>1, VersionAssembles
<1>10. CASE v = "crc_32_"
  <2>1. /\ Code("crc_32_").terms
             = << <<0, \hFF, 24>>, <<1, \hFF, 16>>, <<2, \hFF, 8>>, <<3, \hFF, 0>> >>
        /\ Pieces("crc_32_")
             = << <<0, 7, 0, 24>>, <<1, 7, 0, 16>>, <<2, 7, 0, 8>>, <<3, 7, 0, 0>> >>
        /\ Kept("crc_32_") = 0 .. WORD - 1
    BY DEF Code, TimeStamps, OtherValues, Decoding, Pieces, Kept, OPCRValues
  <2> QED BY <1>10, <2>1, CrcAssembles
<1>11. Values \ (Misplaced \cup Partial)
        \subseteq {"pts_", "dts_", "program_clock_reference_base_",
                   "program_clock_reference_extension_",
                   "dts_next_au_", "piecewise_rate_", "additional_copy_info_",
                   "program_packet_sequence_counter_", "original_stuff_length_", "pcr_pid_",
                   "version_number_", "crc_32_"}
  BY DEF Values, Misplaced, Partial, OPCRValues, TimeStamps, OtherValues
<1> QED BY <1>1, <1>2, <1>3, <1>4, <1>5, <1>6, <1>7, <1>8, <1>9, <1>10, <1>11

\* The one term of the code against the two pieces of the value: the bits of the
\* other piece are not kept.
LEMMA OnePiece ==
    \A term, piece, other, kept, bytes :
        /\ Matches(term, piece, kept) /\ bytes \in Bytes6
        /\ Piece(other, bytes) \cap kept = {}
        => Total(<<term>>, bytes) = (Piece(other, bytes) \cup Piece(piece, bytes)) \cap kept
<1> SUFFICES ASSUME NEW term, NEW piece, NEW other, NEW kept, NEW bytes \in Bytes6,
                    Matches(term, piece, kept), Piece(other, bytes) \cap kept = {}
             PROVE  Total(<<term>>, bytes)
                      = (Piece(other, bytes) \cup Piece(piece, bytes)) \cap kept
  OBVIOUS
<1> DEFINE terms == <<term>>
           pieces == <<piece>>
<1>1. Len(terms) = 1 /\ Len(pieces) = 1 /\ DOMAIN pieces = 1 .. 1 /\ 1 .. 1 = {1}
      /\ terms[1] = term /\ pieces[1] = piece
  OBVIOUS
<1> HIDE DEF terms, pieces
<1>2. Assembles(terms, pieces, kept)
  BY <1>1 DEF Assembles, Descending
<1>3. Total(terms, bytes) = (UNION {Piece(pieces[i], bytes) : i \in DOMAIN pieces}) \cap kept
  BY <1>2, TotalKeeps
<1>4. UNION {Piece(pieces[i], bytes) : i \in DOMAIN pieces} = Piece(piece, bytes)
  BY <1>1
<1> QED BY <1>3, <1>4 DEF terms

\* What the two pieces of a value are made of.
LEMMA TwoPieces ==
    \A v, p, q, bytes : Pieces(v) = <<p, q>>
                        => Meant(v, bytes) = Piece(p, bytes) \cup Piece(q, bytes)
<1> SUFFICES ASSUME NEW v, NEW p, NEW q, NEW bytes, Pieces(v) = <<p, q>>
             PROVE  Meant(v, bytes) = Piece(p, bytes) \cup Piece(q, bytes)
  OBVIOUS
<1> DEFINE pieces == <<p, q>>
<1>1. DOMAIN pieces = {1, 2} /\ pieces[1] = p /\ pieces[2] = q
  OBVIOUS
<1>2. Meant(v, bytes) = UNION {Piece(pieces[i], bytes) : i \in DOMAIN pieces}
  BY DEF Meant
<1> HIDE DEF pieces
<1> QED BY <1>1, <1>2

\* The second assignment to escr_extension_ leaves the bits of its last byte.
LEMMA EscrExtensionKept ==
    \A bytes \in Bytes6 : Assembled("escr_extension_", bytes)
                            = Meant("escr_extension_", bytes) \cap Kept("escr_extension_")
<1> TAKE bytes \in Bytes6
<1> DEFINE kept == 0 .. 6
<1>1. Matches(<<5, \hFE, -1>>, <<5, 7, 1, 0>>, kept)
  BY Masks DEF Matches, WORD
<1>2. Piece(<<4, 1, 0, 7>>, bytes) \cap kept = {}
  BY DEF Piece
<1>3. /\ Code("escr_extension_").terms = << <<5, \hFE, -1>> >>
      /\ Pieces("escr_extension_") = << <<4, 1, 0, 7>>, <<5, 7, 1, 0>> >>
      /\ Kept("escr_extension_") = kept
  BY DEF Code, TimeStamps, OtherValues, Decoding, Pieces, Kept, OPCRValues
<1> HIDE DEF kept
<1>4. Assembled("escr_extension_", bytes) = Total(<< <<5, \hFE, -1>> >>, bytes)
  BY <1>3 DEF Assembled
<1> QED BY <1>1, <1>2, <1>3, <1>4, OnePiece, TwoPieces

\* That to previous_pes_packet_crc_, too.
LEMMA PreviousCrcKept ==
    \A bytes \in Bytes6 :
        Assembled("previous_pes_packet_crc_", bytes)
          = Meant("previous_pes_packet_crc_", bytes) \cap Kept("previous_pes_packet_crc_")
<1> TAKE bytes \in Bytes6
<1> DEFINE kept == 0 .. 7
<1>1. Matches(<<1, \hFF, 0>>, <<1, 7, 0, 0>>, kept)
  BY Masks DEF Matches, WORD
<1>2. Piece(<<0, 7, 0, 8>>, bytes) \cap kept = {}
  BY DEF Piece
<1>3. /\ Code("previous_pes_packet_crc_").terms = << <<1, \hFF, 0>> >>
      /\ Pieces("previous_pes_packet_crc_") = << <<0, 7, 0, 8>>, <<1, 7, 0, 0>> >>
      /\ Kept("previous_pes_packet_crc_") = kept
  BY DEF Code, TimeStamps, OtherValues, Decoding, Pieces, Kept, OPCRValues
<1> HIDE DEF kept
<1>4. Assembled("previous_pes_packet_crc_", bytes) = Total(<< <<1, \hFF, 0>> >>, bytes)
  BY <1>3 DEF Assembled
<1> QED BY <1>1, <1>2, <1>3, <1>4, OnePiece, TwoPieces

\* The mask of ltw_offset_ selects nothing of the first byte: the term is that of
\* an empty piece.
LEMMA LtwOffsetKept ==
    \A bytes \in Bytes6 : Assembled("ltw_offset_", bytes)
                            = Meant("ltw_offset_", bytes) \cap Kept("ltw_offset_")
<1> TAKE bytes \in Bytes6
<1> DEFINE kept == 0 .. 7
           terms == << <<0, \h7F00, 0>>, <<1, \hFF, 0>> >>
           pieces == << <<0, 0, 8, 8>>, <<1, 7, 0, 0>> >>
<1>1. Matches(<<0, \h7F00, 0>>, <<0, 0, 8, 8>>, kept)
  BY Masks DEF Matches, WORD
<1>2. Matches(<<1, \hFF, 0>>, <<1, 7, 0, 0>>, kept)
  BY Masks DEF Matches, WORD
<1> HIDE DEF kept
<1>3. Len(terms) = 2 /\ Len(pieces) = 2 /\ DOMAIN pieces = 1 .. 2 /\ 1 .. 2 = {1, 2}
  OBVIOUS
<1>4. \A i \in 1 .. 2 : Matches(terms[i], pieces[i], kept)
  BY <1>1, <1>2, <1>3
<1>5. Descending(pieces)
  BY <1>3 DEF Descending
<1>6. Assembles(terms, pieces, kept)
  <2> HIDE DEF terms, pieces
  <2> QED BY <1>3, <1>4, <1>5 DEF Assembles
<1>7. Total(terms, bytes) = (UNION {Piece(pieces[i], bytes) : i \in DOMAIN pieces}) \cap kept
  <2> HIDE DEF terms, pieces
  <2> QED BY <1>6, TotalKeeps
<1>8. UNION {Piece(pieces[i], bytes) : i \in DOMAIN pieces}
        = Piece(<<0, 0, 8, 8>>, bytes) \cup Piece(<<1, 7, 0, 0>>, bytes)
  <2>1. pieces[1] = <<0, 0, 8, 8>> /\ pieces[2] = <<1, 7, 0, 0>>
    OBVIOUS
  <2> HIDE DEF pieces
  <2> QED BY <1>3, <2>1
<1>9. Piece(<<0, 0, 8, 8>>, bytes) = {} /\ Piece(<<0, 6, 0, 8>>, bytes) \cap (0 .. 7) = {}
  BY DEF Piece
<1>10. /\ Code("ltw_offset_").terms = terms
       /\ Pieces("ltw_offset_") = << <<0, 6, 0, 8>>, <<1, 7, 0, 0>> >>
       /\ Kept("ltw_offset_") = kept
  BY DEF Code, TimeStamps, OtherValues, Decoding, Pieces, Kept, OPCRValues, kept
<1>11. Meant("ltw_offset_", bytes)
         = Piece(<<0, 6, 0, 8>>, bytes) \cup Piece(<<1, 7, 0, 0>>, bytes)
  BY <1>10, TwoPieces
<1>12. Assembled("ltw_offset_", bytes) = Total(terms, bytes)
  BY <1>10 DEF Assembled
<1> HIDE DEF terms, pieces
<1> QED BY <1>7, <1>8, <1>9, <1>10, <1>11, <1>12 DEF kept

\* The values of an OPCR stay 0.
LEMMA NothingAssembled ==
    \A v \in OPCRValues, bytes \in Bytes6 :
        Assembled(v, bytes) = Meant(v, bytes) \cap Kept(v)
<1> TAKE v \in OPCRValues, bytes \in Bytes6
<1> DEFINE terms == <<>>
<1>1. Code(v).terms = <<>>
  <2>1. Code("original_program_clock_reference_base_").terms = <<>>
    BY DEF Code, TimeStamps, OtherValues, Decoding
  <2>2. Code("original_program_clock_reference_extension_").terms = <<>>
    BY DEF Code, TimeStamps, OtherValues, Decoding
  <2> QED BY <2>1, <2>2 DEF OPCRValues
<1>2. Kept(v) = {}
  BY DEF Kept, OPCRValues
<1>3. Len(terms) = 0 /\ 1 .. 0 = {}
  OBVIOUS
<1>4. terms = <<>>
  OBVIOUS
<1> HIDE DEF terms
<1>5. Total(terms, bytes) = UNION {TermAt(terms, bytes, i) : i \in 1 .. Len(terms)}
  BY <1>3, TotalIsUnion
<1>6. Total(terms, bytes) = {}
  BY <1>3, <1>5
<1> QED BY <1>1, <1>2, <1>4, <1>6 DEF Assembled

\* FieldBits: whatever the six bytes at a field are, masks, shifts and additions
\* make of them the bits that the standard gives the value, but for those the
\* code drops; three values are misplaced.
THEOREM BitsInPlace ==
    \A v \in Values \ Misplaced, bytes \in Bytes6 :
        Assembled(v, bytes) = Meant(v, bytes) \cap Kept(v)
<1> TAKE v \in Values \ Misplaced, bytes \in Bytes6
<1>1. CASE v \in Partial
  BY <1>1, EscrExtensionKept, PreviousCrcKept, LtwOffsetKept, NothingAssembled DEF Partial
<1>2. CASE v \notin Partial
  BY <1>2, ValuesAssemble, KeepsMeant
<1> QED BY <1>1, <1>2
=============================================================================
