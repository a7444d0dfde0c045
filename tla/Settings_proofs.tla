-------------------------- MODULE Settings_proofs --------------------------
(***************************************************************************)
(* Theorems about the sockets (Sockets) and about Init::process (Settings),*)
(* for any descriptors, addresses, options and files: the length planned   *)
(* for a message is the length built; whatever system calls fail, a socket *)
(* keeps what is its own and nothing else; the readers of the files take   *)
(* what the lines say; and messages are authenticated as the settings say. *)
(***************************************************************************)
EXTENDS Settings, WellFoundedInduction, TLAPS

\* The least number of a set: the induction of the proofs below.
LEMMA NatMin ==
  ASSUME NEW T, T \subseteq Nat, T # {}
  PROVE  \E x \in T : \A y \in T : x <= y
<1> DEFINE R == OpToRel(<, Nat)
<1>1. IsWellFoundedOn(R, Nat)
  BY NatLessThanWellFounded, Zenon
<1>2. \A x, y \in Nat : <<y, x>> \in R <=> y < x
  BY DEF OpToRel
<1> HIDE DEF R
<1>3. PICK x \in T : \A y \in T : ~(<<y, x>> \in R)
  BY <1>1, WFMin, Zenon
<1>4. \A y \in T : ~(y < x) /\ y \in Nat /\ x \in Nat
  BY <1>2, <1>3, Zenon
<1> QED
  BY <1>4
---------------------------------------------------------------------------
(* The length planned for a message and the length built *)

\* f holds the sums of the prefixes of s.
IsSum(f, s) ==
    /\ DOMAIN f = 0 .. Len(s)
    /\ f[0] = 0
    /\ \A i \in 1 .. Len(s) : f[i] = f[i - 1] + s[i]

\* The definition of SumSeq's sum, up to n.
SumTo(f, s, n) == f = [i \in 0 .. n |-> IF i = 0 THEN 0 ELSE f[i - 1] + s[i]]

\* The calls of proc with the lengths of s take n octets.
Octets(s, n) == s \in Seq(Nat) /\ SumSeq(s) = n

\* n numbers, each of them c.
Repeat(n, c) == [i \in 1 .. n |-> c]

\* The ids of FixedSize, of IEEE 1588 and of linuxptp.
FixedStdIds == {
    "INITIALIZE", "DEFAULT_DATA_SET", "CURRENT_DATA_SET", "PARENT_DATA_SET",
    "TIME_PROPERTIES_DATA_SET", "PORT_DATA_SET", "TIME", "UTC_PROPERTIES",
    "UNICAST_MASTER_MAX_TABLE_SIZE", "ACCEPTABLE_MASTER_MAX_TABLE_SIZE",
    "ALTERNATE_MASTER", "ALTERNATE_TIME_OFFSET_MAX_KEY",
    "ALTERNATE_TIME_OFFSET_PROPERTIES", "TRANSPARENT_CLOCK_PORT_DATA_SET",
    "TRANSPARENT_CLOCK_DEFAULT_DATA_SET"}
FixedLinuxptpIds == {
    "TIME_STATUS_NP", "GRANDMASTER_SETTINGS_NP", "PORT_DATA_SET_NP",
    "SUBSCRIBE_EVENTS_NP", "PORT_STATS_NP", "SYNCHRONIZATION_UNCERTAIN_NP",
    "PORT_SERVICE_STATS_NP", "PORT_HWCLOCK_NP", "POWER_PROFILE_SETTINGS_NP",
    "CMLDS_INFO_NP", "PORT_CORRECTIONS_NP", "EXTERNAL_GRANDMASTER_PROPERTIES_NP"}

\* A dataField of n octets is of size k, once it is padded.
Padded(n, k) == n \in Nat /\ k \in Nat /\ Even(n) = k /\ Even(k) = k

\* The ids with a table of addresses.
AddressIds == {"GRANDMASTER_CLUSTER_TABLE", "UNICAST_MASTER_TABLE", "UNICAST_MASTER_TABLE_NP"}

\* The values of an object: a length for each text or address, or any number of them
\* for a table.  An address is not longer than its length field, a uint16_t, can say.
IsValue(id, v) ==
    /\ v \in Seq(Nat)
    /\ EmptyValue(id) # <<>> => Len(v) = Len(EmptyValue(id))
    /\ id \in AddressIds => \A i \in DOMAIN v : v[i] <= UINT16_MAX

\* getMsgPlanedLen and build, for texts and tables of any length, addresses of up to
\* UINT16_MAX octets (Binary::size() is planned, and its lower 16 bits are built) and an
\* ICV of any length: every message that setAction accepts fits a buffer of the planned
\* length, and none that is an octet shorter.  Of those that do not, one with a text of
\* more than UINT8_MAX octets or a number of more than 48 bits is refused, and one whose
\* digest fails is not built.
THEOREM MessagesFitAsPlanned ==
    \A linuxptp, zeroGet, digest \in BOOLEAN, mac \in Nat, id \in MngIds,
       action \in Actions :
        \A v : IsValue(id, v) =>
            BuiltAsPlanned(linuxptp, zeroGet, mac, id, action, v, digest)
(* Sums *)
<1>SumToNext.
    ASSUME NEW s, NEW n \in Nat, NEW f, SumTo(f, s, n)
    PROVE  \E g : SumTo(g, s, n + 1)
  <2> USE <1>SumToNext
  <2> DEFINE g == [i \in 0 .. n + 1 |-> IF i = n + 1 THEN f[n] + s[n + 1] ELSE f[i]]
             h == [i \in 0 .. n + 1 |-> IF i = 0 THEN 0 ELSE g[i - 1] + s[i]]
  <2>1. ASSUME NEW i \in 0 .. n + 1 PROVE g[i] = h[i]
    <3>1. CASE i = n + 1
      <4>1. i - 1 = n /\ i # 0 /\ n \in 0 .. n + 1 /\ n # n + 1
        BY <3>1
      <4>2. g[i] = f[n] + s[n + 1] /\ g[n] = f[n]
        BY <3>1, <4>1, Zenon
      <4>3. h[i] = g[n] + s[i]
        BY <4>1, Zenon
      <4> QED
        BY <3>1, <4>2, <4>3, Zenon
    <3>2. CASE i # n + 1
      <4>1. i \in 0 .. n
        BY <3>2
      <4>2. g[i] = f[i]
        BY <3>2, Zenon
      <4>3. f[i] = IF i = 0 THEN 0 ELSE f[i - 1] + s[i]
        BY <4>1, Zenon DEF SumTo
      <4>4. i # 0 => i - 1 \in 0 .. n + 1 /\ i - 1 # n + 1
        BY <4>1
      <4>5. i # 0 => g[i - 1] = f[i - 1]
        BY <4>4, Zenon
      <4> QED
        BY <4>2, <4>3, <4>5, Zenon
    <3> QED
      BY <3>1, <3>2, Zenon
  <2>2. g = h
    BY <2>1, Zenon
  <2> QED
    BY <2>2, Zenon DEF SumTo
<1>HasSumTo.
    ASSUME NEW s, NEW n \in Nat PROVE \E f : SumTo(f, s, n)
  <2> USE <1>HasSumTo
  <2> DEFINE T == {k \in Nat : ~\E f : SumTo(f, s, k)}
  <2>1. SUFFICES ASSUME T # {} PROVE FALSE
    BY Zenon
  <2>2. T \subseteq Nat
    BY Zenon
  <2> HIDE DEF T
  <2>3. PICK x \in T : \A y \in T : x <= y
    BY <2>1, <2>2, NatMin, Zenon
  <2>4. x # 0
    <3> DEFINE f == [i \in 0 .. 0 |-> 0]
    <3>1. f = [i \in 0 .. 0 |-> IF i = 0 THEN 0 ELSE f[i - 1] + s[i]]
      BY SMT
    <3>2. SumTo(f, s, 0)
      BY <3>1, Zenon DEF SumTo
    <3> QED
      BY <2>3, <3>2, Zenon DEF T
  <2>5. x - 1 \in Nat /\ (x - 1) + 1 = x /\ ~(x <= x - 1)
    BY <2>2, <2>4
  <2>6. PICK f : SumTo(f, s, x - 1)
    BY <2>3, <2>5, Zenon DEF T
  <2>7. \E g : SumTo(g, s, (x - 1) + 1)
    BY <2>5, <2>6, <1>SumToNext, Zenon
  <2> QED
    BY <2>3, <2>5, <2>7, Zenon DEF T
<1>SumToIs.
    ASSUME NEW s, Len(s) \in Nat, NEW f, SumTo(f, s, Len(s))
    PROVE  IsSum(f, s)
  <2> USE <1>SumToIs
  <2>1. DOMAIN f = 0 .. Len(s)
    BY Zenon DEF SumTo
  <2>2. 0 \in 0 .. Len(s)
    OBVIOUS
  <2>3. f[0] = 0
    BY <2>2, Zenon DEF SumTo
  <2>4. ASSUME NEW i \in 1 .. Len(s) PROVE f[i] = f[i - 1] + s[i]
    <3>1. i \in 0 .. Len(s) /\ i # 0
      OBVIOUS
    <3> QED
      BY <3>1, Zenon DEF SumTo
  <2> QED
    BY <2>1, <2>3, <2>4, Zenon DEF IsSum
<1>HasSum.
    ASSUME NEW s, Len(s) \in Nat
    PROVE  \E f : IsSum(f, s) /\ SumSeq(s) = f[Len(s)]
  <2> USE <1>HasSum
  <2> DEFINE sum == CHOOSE f : SumTo(f, s, Len(s))
  <2>1. SumSeq(s) = sum[Len(s)]
    BY DEF SumSeq, SumTo
  <2>2. SumTo(sum, s, Len(s))
    BY <1>HasSumTo, Zenon
  <2> HIDE DEF sum
  <2>3. IsSum(sum, s)
    BY <2>2, <1>SumToIs, Zenon
  <2> QED
    BY <2>1, <2>3, Zenon
<1>SumUnique.
    ASSUME NEW s, Len(s) \in Nat, NEW f, IsSum(f, s), NEW g, IsSum(g, s)
    PROVE  \A i \in 0 .. Len(s) : f[i] = g[i]
  <2> USE <1>SumUnique
  <2> DEFINE T == {i \in 0 .. Len(s) : f[i] # g[i]}
  <2>1. SUFFICES ASSUME T # {} PROVE FALSE
    BY Zenon
  <2>2. T \subseteq Nat /\ T \subseteq 0 .. Len(s)
    OBVIOUS
  <2> HIDE DEF T
  <2>3. PICK x \in T : \A y \in T : x <= y
    BY <2>1, <2>2, NatMin, Zenon
  <2>4. x # 0
    BY <2>3, Zenon DEF T, IsSum
  <2>5. x \in 1 .. Len(s) /\ x - 1 \in 0 .. Len(s) /\ ~(x <= x - 1)
    BY <2>2, <2>4
  <2>6. f[x - 1] = g[x - 1]
    BY <2>3, <2>5, Zenon DEF T
  <2>7. f[x] = g[x]
    BY <2>5, <2>6, Zenon DEF IsSum
  <2> QED
    BY <2>3, <2>7, Zenon DEF T
\* The sum of s is the last of any sums of its prefixes.
<1>SumBy.
    ASSUME NEW s, Len(s) \in Nat, NEW f, IsSum(f, s), NEW n, n = Len(s)
    PROVE  SumSeq(s) = f[n]
  <2> USE <1>SumBy
  <2>1. PICK g : IsSum(g, s) /\ SumSeq(s) = g[Len(s)]
    BY <1>HasSum, Zenon
  <2>2. Len(s) \in 0 .. Len(s)
    OBVIOUS
  <2> QED
    BY <2>1, <2>2, <1>SumUnique, Zenon
\* A sum of naturals is natural, with those of its prefixes.
<1>SumsNat.
    ASSUME NEW s \in Seq(Nat), NEW f, IsSum(f, s)
    PROVE  \A i \in 0 .. Len(s) : f[i] \in Nat
  <2> USE <1>SumsNat
  <2> DEFINE T == {i \in 0 .. Len(s) : f[i] \notin Nat}
  <2>1. SUFFICES ASSUME T # {} PROVE FALSE
    BY Zenon
  <2>2. T \subseteq Nat /\ T \subseteq 0 .. Len(s)
    OBVIOUS
  <2> HIDE DEF T
  <2>3. PICK x \in T : \A y \in T : x <= y
    BY <2>1, <2>2, NatMin, Zenon
  <2>4. x # 0
    BY <2>3 DEF T, IsSum
  <2>5. x \in 1 .. Len(s) /\ x - 1 \in 0 .. Len(s) /\ ~(x <= x - 1)
    BY <2>2, <2>4
  <2>6. f[x - 1] \in Nat
    BY <2>3, <2>5, Zenon DEF T
  <2>7. f[x] = f[x - 1] + s[x]
    BY <2>5, Zenon DEF IsSum
  <2>8. s[x] \in Nat
    BY <2>5
  <2>9. f[x] \in Nat
    BY <2>6, <2>7, <2>8
  <2> QED
    BY <2>3, <2>9, Zenon DEF T
<1>SumNat.
    ASSUME NEW s \in Seq(Nat) PROVE SumSeq(s) \in Nat
  <2> USE <1>SumNat
  <2>1. Len(s) \in Nat /\ Len(s) \in 0 .. Len(s)
    OBVIOUS
  <2> QED
    BY <2>1, <1>HasSum, <1>SumsNat, Zenon
\* What two calls of proc take is the sum of what each takes.
<1>SumConcat.
    ASSUME NEW s \in Seq(Nat), NEW t \in Seq(Nat)
    PROVE  SumSeq(s \o t) = SumSeq(s) + SumSeq(t) /\ s \o t \in Seq(Nat)
  <2> USE <1>SumConcat
  <2>1. PICK f : IsSum(f, s) /\ SumSeq(s) = f[Len(s)]
    BY <1>HasSum
  <2>2. PICK g : IsSum(g, t) /\ SumSeq(t) = g[Len(t)]
    BY <1>HasSum
  <2>3. Len(s) \in Nat /\ Len(t) \in Nat /\ Len(s \o t) = Len(s) + Len(t) /\ s \o t \in Seq(Nat)
    OBVIOUS
  <2> DEFINE n == Len(s)
             h == [i \in 0 .. Len(s) + Len(t) |-> IF i <= n THEN f[i] ELSE f[n] + g[i - n]]
  <2>4. IsSum(h, s \o t)
    <3>1. DOMAIN h = 0 .. Len(s \o t)
      BY <2>3, Zenon
    <3>2. h[0] = 0
      <4>1. 0 \in 0 .. Len(s) + Len(t) /\ 0 <= n
        BY <2>3
      <4>2. h[0] = f[0]
        BY <4>1, Zenon
      <4> QED
        BY <2>1, <4>2, Zenon DEF IsSum
    <3>3. ASSUME NEW i \in 1 .. Len(s \o t) PROVE h[i] = h[i - 1] + (s \o t)[i]
      <4>0. /\ i \in 0 .. Len(s) + Len(t) /\ i - 1 \in 0 .. Len(s) + Len(t)
        BY <2>3
      <4>1. CASE i <= n
        <5>1. i - 1 <= n /\ i \in 1 .. Len(s) /\ (s \o t)[i] = s[i]
          BY <2>3, <4>1
        <5>2. h[i] = f[i] /\ h[i - 1] = f[i - 1]
          BY <4>0, <4>1, <5>1, Zenon
        <5> QED
          BY <2>1, <5>1, <5>2, Zenon DEF IsSum
      <4>2. CASE ~(i <= n)
        <5>1. i - n \in 1 .. Len(t) /\ (s \o t)[i] = t[i - n]
          BY <2>3, <4>2
        <5>2. h[i] = f[n] + g[i - n]
          BY <4>0, <4>2, Zenon
        <5>3. g[i - n] = g[(i - n) - 1] + t[i - n]
          BY <2>2, <5>1, Zenon DEF IsSum
        <5>4. f[n] \in Nat /\ g[(i - n) - 1] \in Nat /\ t[i - n] \in Nat
          <6>1. n \in 0 .. Len(s) /\ (i - n) - 1 \in 0 .. Len(t) /\ t[i - n] \in Nat
            BY <2>3, <5>1
          <6> QED
            BY <2>1, <2>2, <6>1, <1>SumsNat, Zenon
        <5>5. h[i - 1] = f[n] + g[(i - n) - 1]
          <6>1. CASE i - 1 <= n
            <7>1. i - 1 = n /\ (i - n) - 1 = 0
              BY <2>3, <4>2, <6>1
            <7>2. h[i - 1] = f[n]
              BY <4>0, <6>1, <7>1, Zenon
            <7>3. g[(i - n) - 1] = 0
              BY <2>2, <7>1, Zenon DEF IsSum
            <7> HIDE DEF h
            <7> QED
              BY <5>4, <7>2, <7>3
          <6>2. CASE ~(i - 1 <= n)
            <7>1. (i - 1) - n = (i - n) - 1
              BY <2>3
            <7>2. h[i - 1] = f[n] + g[(i - 1) - n]
              BY <4>0, <6>2, Zenon
            <7> QED
              BY <7>1, <7>2, Zenon
          <6> QED
            BY <6>1, <6>2, Zenon
        <5> HIDE DEF h
        <5> QED
          BY <5>1, <5>2, <5>3, <5>4, <5>5
      <4> QED
        BY <4>1, <4>2, Zenon
    <3> HIDE DEF h
    <3> QED
      BY <3>1, <3>2, <3>3, Zenon DEF IsSum
  <2>5. h[Len(s) + Len(t)] = f[Len(s)] + g[Len(t)]
    <3>1. /\ Len(s) + Len(t) \in 0 .. Len(s) + Len(t)
          /\ Len(s) + Len(t) <= n => Len(t) = 0 /\ Len(s) + Len(t) = n
          /\ (Len(s) + Len(t)) - n = Len(t)
      BY <2>3
    <3>2. CASE Len(s) + Len(t) <= n
      <4>1. h[Len(s) + Len(t)] = f[n] /\ g[Len(t)] = 0
        BY <2>2, <3>1, <3>2, Zenon DEF IsSum
      <4>2. f[n] \in Nat
        BY <2>1, <2>3, <1>SumNat, Zenon
      <4> HIDE DEF h
      <4> QED
        BY <4>1, <4>2
    <3>3. CASE ~(Len(s) + Len(t) <= n)
      BY <3>1, <3>3, Zenon
    <3> QED
      BY <3>2, <3>3, Zenon
  <2> HIDE DEF h
  <2>6. SumSeq(s \o t) = h[Len(s) + Len(t)]
    <3>1. Len(s \o t) \in Nat
      BY <2>3
    <3> DEFINE r == s \o t
    <3> HIDE DEF r
    <3>2. SumSeq(r) = h[Len(s) + Len(t)]
      BY <2>3, <2>4, <3>1, <1>SumBy, Zenon DEF r
    <3> QED
      BY <3>2, Zenon DEF r
  <2> QED
    BY <2>1, <2>2, <2>3, <2>5, <2>6, Zenon
\* The sum of n equal numbers.
<1>SumConst.
    ASSUME NEW n \in Nat, NEW c \in Nat
    PROVE  Octets(Repeat(n, c), c * n)
  <2> USE <1>SumConst
  <2> DEFINE s == Repeat(n, c)
             f == [i \in 0 .. n |-> c * i]
  <2>1. s \in Seq(Nat) /\ Len(s) = n /\ Len(s) \in Nat
    BY DEF Repeat
  <2>2. ASSUME NEW i \in 1 .. n PROVE f[i] = f[i - 1] + s[i]
    <3>1. i \in 0 .. n /\ i - 1 \in 0 .. n /\ i \in Int
      OBVIOUS
    <3>2. f[i] = c * i /\ f[i - 1] = c * (i - 1) /\ s[i] = c
      BY <3>1, Zenon DEF Repeat
    <3>3. c * i = c * (i - 1) + c
      BY <3>1, SMT
    <3> QED
      BY <3>2, <3>3, Zenon
  <2>3. 0 \in 0 .. n /\ n \in 0 .. n /\ c * 0 = 0
    OBVIOUS
  <2>4. DOMAIN f = 0 .. n /\ f[0] = 0 /\ f[n] = c * n
    BY <2>3, Zenon
  <2> HIDE DEF f, s
  <2>5. IsSum(f, s)
    BY <2>1, <2>2, <2>4, Zenon DEF IsSum
  <2>6. SumSeq(s) = f[n]
    BY <2>1, <2>5, <1>SumBy, Zenon
  <2> QED
    BY <2>1, <2>4, <2>6, Zenon DEF Octets, s
<1>Sum1.
    ASSUME NEW a1 \in Nat
    PROVE  /\ SumSeq(<<a1>>) = a1
           /\ <<a1>> \in Seq(Nat)
  <2> USE <1>Sum1
  <2> DEFINE s == <<a1>>
  <2>1. s \in Seq(Nat) /\ Len(s) = 1 /\ Len(s) \in Nat
    OBVIOUS
  <2>2. s[1] = a1
    OBVIOUS
  <2> HIDE DEF s
  <2>3. PICK f : IsSum(f, s) /\ SumSeq(s) = f[Len(s)]
    BY <2>1, <1>HasSum, Zenon
  <2>4. f[0] = 0 /\ \A i \in 1 .. 1 : f[i] = f[i - 1] + s[i]
    BY <2>1, <2>3, Zenon DEF IsSum
  <2>5. f[1] = f[0] + s[1]
    BY <2>4
  <2>6. f[1] = a1
    BY <2>2, <2>4, <2>5
  <2>7. SumSeq(s) = a1 /\ s \in Seq(Nat)
    BY <2>1, <2>3, <2>6, Zenon
  <2> QED
    BY <2>7, Zenon DEF s
<1>Sum2.
    ASSUME NEW a1 \in Nat, NEW a2 \in Nat
    PROVE  /\ SumSeq(<<a1, a2>>) = a1 + a2
           /\ <<a1, a2>> \in Seq(Nat)
  <2> USE <1>Sum2
  <2> DEFINE s == <<a1, a2>>
  <2>1. s \in Seq(Nat) /\ Len(s) = 2 /\ Len(s) \in Nat
    OBVIOUS
  <2>2. s[1] = a1 /\ s[2] = a2
    OBVIOUS
  <2> HIDE DEF s
  <2>3. PICK f : IsSum(f, s) /\ SumSeq(s) = f[Len(s)]
    BY <2>1, <1>HasSum, Zenon
  <2>4. f[0] = 0 /\ \A i \in 1 .. 2 : f[i] = f[i - 1] + s[i]
    BY <2>1, <2>3, Zenon DEF IsSum
  <2>5. f[1] = f[0] + s[1] /\ f[2] = f[1] + s[2]
    BY <2>4
  <2>6. f[2] = a1 + a2
    BY <2>2, <2>4, <2>5
  <2>7. SumSeq(s) = a1 + a2 /\ s \in Seq(Nat)
    BY <2>1, <2>3, <2>6, Zenon
  <2> QED
    BY <2>7, Zenon DEF s
<1>Sum3.
    ASSUME NEW a1 \in Nat, NEW a2 \in Nat, NEW a3 \in Nat
    PROVE  /\ SumSeq(<<a1, a2, a3>>) = a1 + a2 + a3
           /\ <<a1, a2, a3>> \in Seq(Nat)
  <2> USE <1>Sum3
  <2> DEFINE s == <<a1, a2, a3>>
  <2>1. s \in Seq(Nat) /\ Len(s) = 3 /\ Len(s) \in Nat
    OBVIOUS
  <2>2. s[1] = a1 /\ s[2] = a2 /\ s[3] = a3
    OBVIOUS
  <2> HIDE DEF s
  <2>3. PICK f : IsSum(f, s) /\ SumSeq(s) = f[Len(s)]
    BY <2>1, <1>HasSum, Zenon
  <2>4. f[0] = 0 /\ \A i \in 1 .. 3 : f[i] = f[i - 1] + s[i]
    BY <2>1, <2>3, Zenon DEF IsSum
  <2>5. f[1] = f[0] + s[1] /\ f[2] = f[1] + s[2] /\ f[3] = f[2] + s[3]
    BY <2>4
  <2>6. f[3] = a1 + a2 + a3
    BY <2>2, <2>4, <2>5
  <2>7. SumSeq(s) = a1 + a2 + a3 /\ s \in Seq(Nat)
    BY <2>1, <2>3, <2>6, Zenon
  <2> QED
    BY <2>7, Zenon DEF s
<1>Sum4.
    ASSUME NEW a1 \in Nat, NEW a2 \in Nat, NEW a3 \in Nat, NEW a4 \in Nat
    PROVE  /\ SumSeq(<<a1, a2, a3, a4>>) = a1 + a2 + a3 + a4
           /\ <<a1, a2, a3, a4>> \in Seq(Nat)
  <2> USE <1>Sum4
  <2> DEFINE s == <<a1, a2, a3, a4>>
  <2>1. s \in Seq(Nat) /\ Len(s) = 4 /\ Len(s) \in Nat
    OBVIOUS
  <2>2. s[1] = a1 /\ s[2] = a2 /\ s[3] = a3 /\ s[4] = a4
    OBVIOUS
  <2> HIDE DEF s
  <2>3. PICK f : IsSum(f, s) /\ SumSeq(s) = f[Len(s)]
    BY <2>1, <1>HasSum, Zenon
  <2>4. f[0] = 0 /\ \A i \in 1 .. 4 : f[i] = f[i - 1] + s[i]
    BY <2>1, <2>3, Zenon DEF IsSum
  <2>5. f[1] = f[0] + s[1] /\ f[2] = f[1] + s[2] /\ f[3] = f[2] + s[3] /\ f[4] = f[3]
        + s[4]
    BY <2>4
  <2>6. f[4] = a1 + a2 + a3 + a4
    BY <2>2, <2>4, <2>5
  <2>7. SumSeq(s) = a1 + a2 + a3 + a4 /\ s \in Seq(Nat)
    BY <2>1, <2>3, <2>6, Zenon
  <2> QED
    BY <2>7, Zenon DEF s
<1>Sum5.
    ASSUME NEW a1 \in Nat, NEW a2 \in Nat, NEW a3 \in Nat, NEW a4 \in Nat, NEW a5
           \in Nat
    PROVE  /\ SumSeq(<<a1, a2, a3, a4, a5>>) = a1 + a2 + a3 + a4 + a5
           /\ <<a1, a2, a3, a4, a5>> \in Seq(Nat)
  <2> USE <1>Sum5
  <2> DEFINE s == <<a1, a2, a3, a4, a5>>
  <2>1. s \in Seq(Nat) /\ Len(s) = 5 /\ Len(s) \in Nat
    OBVIOUS
  <2>2. s[1] = a1 /\ s[2] = a2 /\ s[3] = a3 /\ s[4] = a4 /\ s[5] = a5
    OBVIOUS
  <2> HIDE DEF s
  <2>3. PICK f : IsSum(f, s) /\ SumSeq(s) = f[Len(s)]
    BY <2>1, <1>HasSum, Zenon
  <2>4. f[0] = 0 /\ \A i \in 1 .. 5 : f[i] = f[i - 1] + s[i]
    BY <2>1, <2>3, Zenon DEF IsSum
  <2>5. f[1] = f[0] + s[1] /\ f[2] = f[1] + s[2] /\ f[3] = f[2] + s[3] /\ f[4] = f[3]
        + s[4] /\ f[5] = f[4] + s[5]
    BY <2>4
  <2>6. f[5] = a1 + a2 + a3 + a4 + a5
    BY <2>2, <2>4, <2>5
  <2>7. SumSeq(s) = a1 + a2 + a3 + a4 + a5 /\ s \in Seq(Nat)
    BY <2>1, <2>3, <2>6, Zenon
  <2> QED
    BY <2>7, Zenon DEF s
<1>Sum9.
    ASSUME NEW a1 \in Nat, NEW a2 \in Nat, NEW a3 \in Nat, NEW a4 \in Nat, NEW a5
           \in Nat, NEW a6 \in Nat, NEW a7 \in Nat, NEW a8 \in Nat, NEW a9 \in
           Nat
    PROVE  /\ SumSeq(<<a1, a2, a3, a4, a5, a6, a7, a8, a9>>) =
              a1 + a2 + a3 + a4 + a5 + a6 + a7 + a8 + a9
           /\ <<a1, a2, a3, a4, a5, a6, a7, a8, a9>> \in Seq(Nat)
  <2> USE <1>Sum9
  <2> DEFINE s == <<a1, a2, a3, a4, a5, a6, a7, a8, a9>>
  <2>1. s \in Seq(Nat) /\ Len(s) = 9 /\ Len(s) \in Nat
    OBVIOUS
  <2>2. s[1] = a1 /\ s[2] = a2 /\ s[3] = a3 /\ s[4] = a4 /\ s[5] = a5 /\ s[6] = a6 /\
        s[7] = a7 /\ s[8] = a8 /\ s[9] = a9
    OBVIOUS
  <2> HIDE DEF s
  <2>3. PICK f : IsSum(f, s) /\ SumSeq(s) = f[Len(s)]
    BY <2>1, <1>HasSum, Zenon
  <2>4. f[0] = 0 /\ \A i \in 1 .. 9 : f[i] = f[i - 1] + s[i]
    BY <2>1, <2>3, Zenon DEF IsSum
  <2>5. f[1] = f[0] + s[1] /\ f[2] = f[1] + s[2] /\ f[3] = f[2] + s[3] /\ f[4] = f[3]
        + s[4] /\ f[5] = f[4] + s[5] /\ f[6] = f[5] + s[6] /\ f[7] = f[6] + s[7] /\
        f[8] = f[7] + s[8] /\ f[9] = f[8] + s[9]
    BY <2>4
  <2>6. f[9] = a1 + a2 + a3 + a4 + a5 + a6 + a7 + a8 + a9
    BY <2>2, <2>4, <2>5
  <2>7. SumSeq(s) = a1 + a2 + a3 + a4 + a5 + a6 + a7 + a8 + a9 /\ s \in Seq(Nat)
    BY <2>1, <2>3, <2>6, Zenon
  <2> QED
    BY <2>7, Zenon DEF s
<1>Sum10.
    ASSUME NEW a1 \in Nat, NEW a2 \in Nat, NEW a3 \in Nat, NEW a4 \in Nat, NEW a5
           \in Nat, NEW a6 \in Nat, NEW a7 \in Nat, NEW a8 \in Nat, NEW a9 \in
           Nat, NEW a10 \in Nat
    PROVE  /\ SumSeq(<<a1, a2, a3, a4, a5, a6, a7, a8, a9, a10>>) =
              a1 + a2 + a3 + a4 + a5 + a6 + a7 + a8 + a9 + a10
           /\ <<a1, a2, a3, a4, a5, a6, a7, a8, a9, a10>> \in Seq(Nat)
  <2> USE <1>Sum10
  <2> DEFINE s == <<a1, a2, a3, a4, a5, a6, a7, a8, a9, a10>>
  <2>1. s \in Seq(Nat) /\ Len(s) = 10 /\ Len(s) \in Nat
    OBVIOUS
  <2>2. s[1] = a1 /\ s[2] = a2 /\ s[3] = a3 /\ s[4] = a4 /\ s[5] = a5 /\ s[6] = a6 /\
        s[7] = a7 /\ s[8] = a8 /\ s[9] = a9 /\ s[10] = a10
    OBVIOUS
  <2> HIDE DEF s
  <2>3. PICK f : IsSum(f, s) /\ SumSeq(s) = f[Len(s)]
    BY <2>1, <1>HasSum, Zenon
  <2>4. f[0] = 0 /\ \A i \in 1 .. 10 : f[i] = f[i - 1] + s[i]
    BY <2>1, <2>3, Zenon DEF IsSum
  <2>5. f[1] = f[0] + s[1] /\ f[2] = f[1] + s[2] /\ f[3] = f[2] + s[3] /\ f[4] = f[3]
        + s[4] /\ f[5] = f[4] + s[5] /\ f[6] = f[5] + s[6] /\ f[7] = f[6] + s[7] /\
        f[8] = f[7] + s[8] /\ f[9] = f[8] + s[9] /\ f[10] = f[9] + s[10]
    BY <2>4
  <2>6. f[10] = a1 + a2 + a3 + a4 + a5 + a6 + a7 + a8 + a9 + a10
    BY <2>2, <2>4, <2>5
  <2>7. SumSeq(s) = a1 + a2 + a3 + a4 + a5 + a6 + a7 + a8 + a9 + a10 /\ s \in Seq(Nat)
    BY <2>1, <2>3, <2>6, Zenon
  <2> QED
    BY <2>7, Zenon DEF s
  (* The layouts and the lengths of the TLVs *)
<1>OctetsConcat.
    ASSUME NEW s, NEW m \in Nat, Octets(s, m), NEW t, NEW n \in Nat, Octets(t, n),
           NEW k, k = m + n
    PROVE  Octets(s \o t, k)
    BY <1>OctetsConcat, <1>SumConcat DEF Octets
\* The octets of the types of fixed length.
<1>TypeOctets.
    Octets(PortIdentity, 10) /\ Octets(ClockQuality, 4) /\ Octets(Timestamp, 10)
  <2>1. Octets(PortIdentity, 10)
    BY <1>Sum2 DEF PortIdentity, Octets
  <2>2. Octets(ClockQuality, 4)
    BY <1>Sum3 DEF ClockQuality, Octets
  <2>3. Octets(Timestamp, 10)
    BY <1>Sum3 DEF Timestamp, Octets
  <2> QED
    BY <2>1, <2>2, <2>3, Zenon
\* The dataFields of IEEE 1588 of a fixed length.
<1>StdOctets.
    /\ Octets(StdFields("INITIALIZE"), 2)
    /\ Octets(StdFields("DEFAULT_DATA_SET"), 19)
    /\ Octets(StdFields("CURRENT_DATA_SET"), 18)
    /\ Octets(StdFields("PARENT_DATA_SET"), 32)
    /\ Octets(StdFields("TIME_PROPERTIES_DATA_SET"), 4)
    /\ Octets(StdFields("PORT_DATA_SET"), 26)
    /\ Octets(StdFields("TIME"), 10)
    /\ Octets(StdFields("UTC_PROPERTIES"), 3)
    /\ Octets(StdFields("UNICAST_MASTER_MAX_TABLE_SIZE"), 2)
    /\ Octets(StdFields("ACCEPTABLE_MASTER_MAX_TABLE_SIZE"), 2)
    /\ Octets(StdFields("ALTERNATE_MASTER"), 3)
    /\ Octets(StdFields("ALTERNATE_TIME_OFFSET_MAX_KEY"), 1)
    /\ Octets(StdFields("ALTERNATE_TIME_OFFSET_PROPERTIES"), 15)
    /\ Octets(StdFields("TRANSPARENT_CLOCK_PORT_DATA_SET"), 20)
    /\ Octets(StdFields("TRANSPARENT_CLOCK_DEFAULT_DATA_SET"), 12)
  <2>1. Octets(StdFields("INITIALIZE"), 2)
    <3>1. Octets(<<2>>, 2)
      BY <1>Sum1 DEF Octets
    <3>2. StdFields("INITIALIZE") = <<2>>
      BY Zenon DEF StdFields
    <3> QED
      BY <3>1, <3>2, Zenon
  <2>2. Octets(StdFields("DEFAULT_DATA_SET"), 19)
    <3>1. Octets(<<1, 1, 2, 1>>, 5)
      BY <1>Sum4 DEF Octets
    <3>2. Octets(ClockQuality, 4)
      BY <1>TypeOctets, Zenon
    <3>3. Octets(<<1, 1, 2, 1>> \o ClockQuality, 9)
      BY <3>1, <3>2, 5 \in Nat, 4 \in Nat, 9 = 5 + 4, <1>OctetsConcat, Zenon
    <3>4. Octets(<<1, 8, 1>>, 10)
      BY <1>Sum3 DEF Octets
    <3>5. Octets(<<1, 1, 2, 1>> \o ClockQuality \o <<1, 8, 1>>, 19)
      BY <3>3, <3>4, 9 \in Nat, 10 \in Nat, 19 = 9 + 10, <1>OctetsConcat, Zenon
    <3>6. StdFields("DEFAULT_DATA_SET") = <<1, 1, 2, 1>> \o ClockQuality \o <<1, 8, 1>>
      BY Zenon DEF StdFields
    <3> QED
      BY <3>5, <3>6, Zenon
  <2>3. Octets(StdFields("CURRENT_DATA_SET"), 18)
    <3>1. Octets(<<2, 8, 8>>, 18)
      BY <1>Sum3 DEF Octets
    <3>2. StdFields("CURRENT_DATA_SET") = <<2, 8, 8>>
      BY Zenon DEF StdFields
    <3> QED
      BY <3>1, <3>2, Zenon
  <2>4. Octets(StdFields("PARENT_DATA_SET"), 32)
    <3>1. Octets(PortIdentity, 10)
      BY <1>TypeOctets, Zenon
    <3>2. Octets(<<1, 1, 2, 4, 1>>, 9)
      BY <1>Sum5 DEF Octets
    <3>3. Octets(PortIdentity \o <<1, 1, 2, 4, 1>>, 19)
      BY <3>1, <3>2, 10 \in Nat, 9 \in Nat, 19 = 10 + 9, <1>OctetsConcat, Zenon
    <3>4. Octets(ClockQuality, 4)
      BY <1>TypeOctets, Zenon
    <3>5. Octets(PortIdentity \o <<1, 1, 2, 4, 1>> \o ClockQuality, 23)
      BY <3>3, <3>4, 19 \in Nat, 4 \in Nat, 23 = 19 + 4, <1>OctetsConcat, Zenon
    <3>6. Octets(<<1, 8>>, 9)
      BY <1>Sum2 DEF Octets
    <3>7. Octets(PortIdentity \o <<1, 1, 2, 4, 1>> \o ClockQuality \o <<1, 8>>, 32)
      BY <3>5, <3>6, 23 \in Nat, 9 \in Nat, 32 = 23 + 9, <1>OctetsConcat, Zenon
    <3>8. StdFields("PARENT_DATA_SET") =
            PortIdentity \o <<1, 1, 2, 4, 1>> \o ClockQuality \o <<1, 8>>
      BY Zenon DEF StdFields
    <3> QED
      BY <3>7, <3>8, Zenon
  <2>5. Octets(StdFields("TIME_PROPERTIES_DATA_SET"), 4)
    <3>1. Octets(<<2, 1, 1>>, 4)
      BY <1>Sum3 DEF Octets
    <3>2. StdFields("TIME_PROPERTIES_DATA_SET") = <<2, 1, 1>>
      BY Zenon DEF StdFields
    <3> QED
      BY <3>1, <3>2, Zenon
  <2>6. Octets(StdFields("PORT_DATA_SET"), 26)
    <3>1. Octets(PortIdentity, 10)
      BY <1>TypeOctets, Zenon
    <3>2. /\ SumSeq(<<1, 1, 8, 1, 1, 1, 1, 1, 1>>) = 1 + 1 + 8 + 1 + 1 + 1 + 1 + 1 + 1
          /\ <<1, 1, 8, 1, 1, 1, 1, 1, 1>> \in Seq(Nat)
      BY 1 \in Nat, 8 \in Nat, <1>Sum9, Zenon
    <3>3. 1 + 1 + 8 + 1 + 1 + 1 + 1 + 1 + 1 = 16
      OBVIOUS
    <3>4. Octets(<<1, 1, 8, 1, 1, 1, 1, 1, 1>>, 16)
      BY <3>2, <3>3, Zenon DEF Octets
    <3>5. Octets(PortIdentity \o <<1, 1, 8, 1, 1, 1, 1, 1, 1>>, 26)
      BY <3>1, <3>4, 10 \in Nat, 16 \in Nat, 26 = 10 + 16, <1>OctetsConcat, Zenon
    <3>6. StdFields("PORT_DATA_SET") = PortIdentity \o <<1, 1, 8, 1, 1, 1, 1, 1, 1>>
      BY Zenon DEF StdFields
    <3> QED
      BY <3>5, <3>6, Zenon
  <2>7. Octets(StdFields("TIME"), 10)
    <3>1. Octets(Timestamp, 10)
      BY <1>TypeOctets, Zenon
    <3>2. StdFields("TIME") = Timestamp
      BY Zenon DEF StdFields
    <3> QED
      BY <3>1, <3>2, Zenon
  <2>8. Octets(StdFields("UTC_PROPERTIES"), 3)
    <3>1. Octets(<<2, 1>>, 3)
      BY <1>Sum2 DEF Octets
    <3>2. StdFields("UTC_PROPERTIES") = <<2, 1>>
      BY Zenon DEF StdFields
    <3> QED
      BY <3>1, <3>2, Zenon
  <2>9. Octets(StdFields("UNICAST_MASTER_MAX_TABLE_SIZE"), 2)
    <3>1. Octets(<<2>>, 2)
      BY <1>Sum1 DEF Octets
    <3>2. StdFields("UNICAST_MASTER_MAX_TABLE_SIZE") = <<2>>
      BY Zenon DEF StdFields
    <3> QED
      BY <3>1, <3>2, Zenon
  <2>10. Octets(StdFields("ACCEPTABLE_MASTER_MAX_TABLE_SIZE"), 2)
    <3>1. Octets(<<2>>, 2)
      BY <1>Sum1 DEF Octets
    <3>2. StdFields("ACCEPTABLE_MASTER_MAX_TABLE_SIZE") = <<2>>
      BY Zenon DEF StdFields
    <3> QED
      BY <3>1, <3>2, Zenon
  <2>11. Octets(StdFields("ALTERNATE_MASTER"), 3)
    <3>1. Octets(<<1, 1, 1>>, 3)
      BY <1>Sum3 DEF Octets
    <3>2. StdFields("ALTERNATE_MASTER") = <<1, 1, 1>>
      BY Zenon DEF StdFields
    <3> QED
      BY <3>1, <3>2, Zenon
  <2>12. Octets(StdFields("ALTERNATE_TIME_OFFSET_MAX_KEY"), 1)
    <3>1. Octets(<<1>>, 1)
      BY <1>Sum1 DEF Octets
    <3>2. StdFields("ALTERNATE_TIME_OFFSET_MAX_KEY") = <<1>>
      BY Zenon DEF StdFields
    <3> QED
      BY <3>1, <3>2, Zenon
  <2>13. Octets(StdFields("ALTERNATE_TIME_OFFSET_PROPERTIES"), 15)
    <3>1. Octets(<<1, 4, 4, 2, 4>>, 15)
      BY <1>Sum5 DEF Octets
    <3>2. StdFields("ALTERNATE_TIME_OFFSET_PROPERTIES") = <<1, 4, 4, 2, 4>>
      BY Zenon DEF StdFields
    <3> QED
      BY <3>1, <3>2, Zenon
  <2>14. Octets(StdFields("TRANSPARENT_CLOCK_PORT_DATA_SET"), 20)
    <3>1. Octets(PortIdentity, 10)
      BY <1>TypeOctets, Zenon
    <3>2. Octets(<<1, 1, 8>>, 10)
      BY <1>Sum3 DEF Octets
    <3>3. Octets(PortIdentity \o <<1, 1, 8>>, 20)
      BY <3>1, <3>2, 10 \in Nat, 10 \in Nat, 20 = 10 + 10, <1>OctetsConcat, Zenon
    <3>4. StdFields("TRANSPARENT_CLOCK_PORT_DATA_SET") = PortIdentity \o <<1, 1, 8>>
      BY Zenon DEF StdFields
    <3> QED
      BY <3>3, <3>4, Zenon
  <2>15. Octets(StdFields("TRANSPARENT_CLOCK_DEFAULT_DATA_SET"), 12)
    <3>1. Octets(<<8, 2, 1, 1>>, 12)
      BY <1>Sum4 DEF Octets
    <3>2. StdFields("TRANSPARENT_CLOCK_DEFAULT_DATA_SET") = <<8, 2, 1, 1>>
      BY Zenon DEF StdFields
    <3> QED
      BY <3>1, <3>2, Zenon
  <2> QED
    BY <2>1, <2>2, <2>3, <2>4, <2>5, <2>6, <2>7, <2>8, <2>9, <2>10, <2>11, <2>12,
       <2>13, <2>14, <2>15, Zenon
\* The dataFields of linuxptp of a fixed length.
<1>LinuxptpOctets.
    /\ Octets(LinuxptpFields("TIME_STATUS_NP"), 50)
    /\ Octets(LinuxptpFields("GRANDMASTER_SETTINGS_NP"), 8)
    /\ Octets(LinuxptpFields("PORT_DATA_SET_NP"), 8)
    /\ Octets(LinuxptpFields("SUBSCRIBE_EVENTS_NP"), 66)
    /\ Octets(LinuxptpFields("PORT_STATS_NP"), 266)
    /\ Octets(LinuxptpFields("SYNCHRONIZATION_UNCERTAIN_NP"), 1)
    /\ Octets(LinuxptpFields("PORT_SERVICE_STATS_NP"), 90)
    /\ Octets(LinuxptpFields("PORT_HWCLOCK_NP"), 15)
    /\ Octets(LinuxptpFields("POWER_PROFILE_SETTINGS_NP"), 16)
    /\ Octets(LinuxptpFields("CMLDS_INFO_NP"), 16)
    /\ Octets(LinuxptpFields("PORT_CORRECTIONS_NP"), 24)
    /\ Octets(LinuxptpFields("EXTERNAL_GRANDMASTER_PROPERTIES_NP"), 10)
  <2>1. Octets(LinuxptpFields("TIME_STATUS_NP"), 50)
    <3>1. /\ SumSeq(<<8, 8, 4, 4, 2, 2, 8, 2, 4, 8>>) = 8 + 8 + 4 + 4 + 2 + 2 + 8 + 2 + 4 + 8
          /\ <<8, 8, 4, 4, 2, 2, 8, 2, 4, 8>> \in Seq(Nat)
      BY 2 \in Nat, 4 \in Nat, 8 \in Nat, <1>Sum10, Zenon
    <3>2. 8 + 8 + 4 + 4 + 2 + 2 + 8 + 2 + 4 + 8 = 50
      OBVIOUS
    <3>3. Octets(<<8, 8, 4, 4, 2, 2, 8, 2, 4, 8>>, 50)
      BY <3>1, <3>2, Zenon DEF Octets
    <3>4. LinuxptpFields("TIME_STATUS_NP") = <<8, 8, 4, 4, 2, 2, 8, 2, 4, 8>>
      BY Zenon DEF LinuxptpFields
    <3> QED
      BY <3>3, <3>4, Zenon
  <2>2. Octets(LinuxptpFields("GRANDMASTER_SETTINGS_NP"), 8)
    <3>1. Octets(ClockQuality, 4)
      BY <1>TypeOctets, Zenon
    <3>2. Octets(<<2, 1, 1>>, 4)
      BY <1>Sum3 DEF Octets
    <3>3. Octets(ClockQuality \o <<2, 1, 1>>, 8)
      BY <3>1, <3>2, 4 \in Nat, 4 \in Nat, 8 = 4 + 4, <1>OctetsConcat, Zenon
    <3>4. LinuxptpFields("GRANDMASTER_SETTINGS_NP") = ClockQuality \o <<2, 1, 1>>
      BY Zenon DEF LinuxptpFields
    <3> QED
      BY <3>3, <3>4, Zenon
  <2>3. Octets(LinuxptpFields("PORT_DATA_SET_NP"), 8)
    <3>1. Octets(<<4, 4>>, 8)
      BY <1>Sum2 DEF Octets
    <3>2. LinuxptpFields("PORT_DATA_SET_NP") = <<4, 4>>
      BY Zenon DEF LinuxptpFields
    <3> QED
      BY <3>1, <3>2, Zenon
  <2>4. Octets(LinuxptpFields("SUBSCRIBE_EVENTS_NP"), 66)
    <3>1. Octets(<<2, 64>>, 66)
      BY <1>Sum2 DEF Octets
    <3>2. LinuxptpFields("SUBSCRIBE_EVENTS_NP") = <<2, 64>>
      BY Zenon DEF LinuxptpFields
    <3> QED
      BY <3>1, <3>2, Zenon
  <2>5. Octets(LinuxptpFields("PORT_STATS_NP"), 266)
    <3>1. Octets(PortIdentity, 10)
      BY <1>TypeOctets, Zenon
    <3>2. Octets(Repeat(32, 8), 256)
      BY <1>SumConst, SMT
    <3>3. Octets(PortIdentity \o Repeat(32, 8), 266)
      BY <3>1, <3>2, 10 \in Nat, 256 \in Nat, 266 = 10 + 256, <1>OctetsConcat
    <3>4. LinuxptpFields("PORT_STATS_NP") = PortIdentity \o Repeat(32, 8)
      BY Zenon DEF LinuxptpFields, Repeat
    <3> QED
      BY <3>3, <3>4, Zenon
  <2>6. Octets(LinuxptpFields("SYNCHRONIZATION_UNCERTAIN_NP"), 1)
    <3>1. Octets(<<1>>, 1)
      BY <1>Sum1 DEF Octets
    <3>2. LinuxptpFields("SYNCHRONIZATION_UNCERTAIN_NP") = <<1>>
      BY Zenon DEF LinuxptpFields
    <3> QED
      BY <3>1, <3>2, Zenon
  <2>7. Octets(LinuxptpFields("PORT_SERVICE_STATS_NP"), 90)
    <3>1. Octets(PortIdentity, 10)
      BY <1>TypeOctets, Zenon
    <3>2. Octets(Repeat(10, 8), 80)
      BY <1>SumConst, SMT
    <3>3. Octets(PortIdentity \o Repeat(10, 8), 90)
      BY <3>1, <3>2, 10 \in Nat, 80 \in Nat, 90 = 10 + 80, <1>OctetsConcat
    <3>4. LinuxptpFields("PORT_SERVICE_STATS_NP") = PortIdentity \o Repeat(10, 8)
      BY Zenon DEF LinuxptpFields, Repeat
    <3> QED
      BY <3>3, <3>4, Zenon
  <2>8. Octets(LinuxptpFields("PORT_HWCLOCK_NP"), 15)
    <3>1. Octets(PortIdentity, 10)
      BY <1>TypeOctets, Zenon
    <3>2. Octets(<<4, 1>>, 5)
      BY <1>Sum2 DEF Octets
    <3>3. Octets(PortIdentity \o <<4, 1>>, 15)
      BY <3>1, <3>2, 10 \in Nat, 5 \in Nat, 15 = 10 + 5, <1>OctetsConcat, Zenon
    <3>4. LinuxptpFields("PORT_HWCLOCK_NP") = PortIdentity \o <<4, 1>>
      BY Zenon DEF LinuxptpFields
    <3> QED
      BY <3>3, <3>4, Zenon
  <2>9. Octets(LinuxptpFields("POWER_PROFILE_SETTINGS_NP"), 16)
    <3>1. Octets(<<2, 2, 4, 4, 4>>, 16)
      BY <1>Sum5 DEF Octets
    <3>2. LinuxptpFields("POWER_PROFILE_SETTINGS_NP") = <<2, 2, 4, 4, 4>>
      BY Zenon DEF LinuxptpFields
    <3> QED
      BY <3>1, <3>2, Zenon
  <2>10. Octets(LinuxptpFields("CMLDS_INFO_NP"), 16)
    <3>1. Octets(<<8, 4, 4>>, 16)
      BY <1>Sum3 DEF Octets
    <3>2. LinuxptpFields("CMLDS_INFO_NP") = <<8, 4, 4>>
      BY Zenon DEF LinuxptpFields
    <3> QED
      BY <3>1, <3>2, Zenon
  <2>11. Octets(LinuxptpFields("PORT_CORRECTIONS_NP"), 24)
    <3>1. Octets(<<8, 8, 8>>, 24)
      BY <1>Sum3 DEF Octets
    <3>2. LinuxptpFields("PORT_CORRECTIONS_NP") = <<8, 8, 8>>
      BY Zenon DEF LinuxptpFields
    <3> QED
      BY <3>1, <3>2, Zenon
  <2>12. Octets(LinuxptpFields("EXTERNAL_GRANDMASTER_PROPERTIES_NP"), 10)
    <3>1. Octets(<<8, 2>>, 10)
      BY <1>Sum2 DEF Octets
    <3>2. LinuxptpFields("EXTERNAL_GRANDMASTER_PROPERTIES_NP") = <<8, 2>>
      BY Zenon DEF LinuxptpFields
    <3> QED
      BY <3>1, <3>2, Zenon
  <2> QED
    BY <2>1, <2>2, <2>3, <2>4, <2>5, <2>6, <2>7, <2>8, <2>9, <2>10, <2>11, <2>12, Zenon
<1>FixedIdsAre.
    DOMAIN FixedSize = FixedStdIds \union FixedLinuxptpIds
    BY DEF FixedSize, FixedStdIds, FixedLinuxptpIds
<1>FixedIdsAlone.
    /\ \A id \in FixedStdIds : id \notin EmptyIds /\ id \notin VariableIds
    /\ \A id \in FixedStdIds : id \notin SmallIds /\ id \notin LinuxptpIds
    /\ \A id \in FixedLinuxptpIds : id \notin EmptyIds /\ id \notin VariableIds
    /\ \A id \in FixedLinuxptpIds : id \notin SmallIds /\ id \in LinuxptpIds
  <2>1. \A id \in FixedStdIds : id \notin EmptyIds
    BY DEF FixedStdIds, EmptyIds
  <2>2. \A id \in FixedStdIds : id \notin VariableIds
    BY DEF FixedStdIds, VariableIds
  <2>3. \A id \in FixedStdIds : id \notin SmallIds
    BY DEF FixedStdIds, SmallIds
  <2>4. \A id \in FixedStdIds : id \notin LinuxptpIds
    BY DEF FixedStdIds, LinuxptpIds
  <2>5. \A id \in FixedLinuxptpIds : id \notin EmptyIds
    BY DEF FixedLinuxptpIds, EmptyIds
  <2>6. \A id \in FixedLinuxptpIds : id \notin VariableIds
    BY DEF FixedLinuxptpIds, VariableIds
  <2>7. \A id \in FixedLinuxptpIds : id \notin SmallIds
    BY DEF FixedLinuxptpIds, SmallIds
  <2>8. \A id \in FixedLinuxptpIds : id \in LinuxptpIds
    BY DEF FixedLinuxptpIds, LinuxptpIds
  <2> QED
    BY <2>1, <2>2, <2>3, <2>4, <2>5, <2>6, <2>7, <2>8, Zenon
<1>StdPadded.
    ASSUME NEW id \in FixedStdIds, NEW n, Octets(StdFields(id), n),
           NEW k, FixedSize[id] = k, Padded(n, k), NEW v
    PROVE  Padded(DataOctets(id, v), mng_size(id))
  <2> USE <1>StdPadded
  <2>1. DataOctets(id, v) = n
    BY <1>FixedIdsAlone, Zenon DEF DataOctets, Fields, Octets
  <2>2. mng_size(id) = k
    BY <1>FixedIdsAlone, Zenon DEF mng_size
  <2> QED
    BY <2>1, <2>2, Zenon
<1>LinuxptpPadded.
    ASSUME NEW id \in FixedLinuxptpIds, NEW n, Octets(LinuxptpFields(id), n),
           NEW k, FixedSize[id] = k, Padded(n, k), NEW v
    PROVE  Padded(DataOctets(id, v), mng_size(id))
  <2> USE <1>LinuxptpPadded
  <2>1. DataOctets(id, v) = n
    BY <1>FixedIdsAlone, Zenon DEF DataOctets, Fields, Octets
  <2>2. mng_size(id) = k
    BY <1>FixedIdsAlone, Zenon DEF mng_size
  <2> QED
    BY <2>1, <2>2, Zenon
\* The octets that are added for an id of fixed length are, with the padding, those
\* of its column "size".
<1>FixedPadded.
    ASSUME NEW id \in DOMAIN FixedSize, NEW v
    PROVE  Padded(DataOctets(id, v), mng_size(id))
  <2> USE <1>FixedPadded
  <2>1. /\ FixedSize.INITIALIZE = 2 /\ FixedSize.DEFAULT_DATA_SET = 20
        /\ FixedSize.CURRENT_DATA_SET = 18 /\ FixedSize.PARENT_DATA_SET = 32
        /\ FixedSize.TIME_PROPERTIES_DATA_SET = 4 /\ FixedSize.PORT_DATA_SET = 26
        /\ FixedSize.TIME = 10 /\ FixedSize.UTC_PROPERTIES = 4
        /\ FixedSize.UNICAST_MASTER_MAX_TABLE_SIZE = 2
        /\ FixedSize.ACCEPTABLE_MASTER_MAX_TABLE_SIZE = 2
        /\ FixedSize.ALTERNATE_MASTER = 4 /\ FixedSize.ALTERNATE_TIME_OFFSET_MAX_KEY = 2
        /\ FixedSize.ALTERNATE_TIME_OFFSET_PROPERTIES = 16
        /\ FixedSize.TRANSPARENT_CLOCK_PORT_DATA_SET = 20
        /\ FixedSize.TRANSPARENT_CLOCK_DEFAULT_DATA_SET = 12
        /\ FixedSize.TIME_STATUS_NP = 50 /\ FixedSize.GRANDMASTER_SETTINGS_NP = 8
        /\ FixedSize.PORT_DATA_SET_NP = 8 /\ FixedSize.SUBSCRIBE_EVENTS_NP = 66
        /\ FixedSize.PORT_STATS_NP = 266 /\ FixedSize.SYNCHRONIZATION_UNCERTAIN_NP = 2
        /\ FixedSize.PORT_SERVICE_STATS_NP = 90 /\ FixedSize.PORT_HWCLOCK_NP = 16
        /\ FixedSize.POWER_PROFILE_SETTINGS_NP = 16 /\ FixedSize.CMLDS_INFO_NP = 16
        /\ FixedSize.PORT_CORRECTIONS_NP = 24
        /\ FixedSize.EXTERNAL_GRANDMASTER_PROPERTIES_NP = 10
    BY DEF FixedSize
  <2>2. /\ Padded(1, 2) /\ Padded(2, 2) /\ Padded(3, 4) /\ Padded(4, 4) /\ Padded(8, 8)
        /\ Padded(10, 10) /\ Padded(12, 12) /\ Padded(15, 16) /\ Padded(16, 16)
        /\ Padded(18, 18) /\ Padded(19, 20) /\ Padded(20, 20) /\ Padded(24, 24)
        /\ Padded(26, 26) /\ Padded(32, 32) /\ Padded(50, 50) /\ Padded(66, 66)
        /\ Padded(90, 90) /\ Padded(266, 266)
    BY DEF Padded, Even
  <2>3. CASE id \in FixedStdIds
    <3>1. CASE id = "INITIALIZE"
      <4>1. Octets(StdFields(id), 2) /\ FixedSize[id] = 2 /\ Padded(2, 2)
        BY <2>1, <2>2, <3>1, <1>StdOctets, Zenon
      <4> QED
        BY <2>3, <4>1, <1>StdPadded, Zenon
    <3>2. CASE id = "DEFAULT_DATA_SET"
      <4>1. Octets(StdFields(id), 19) /\ FixedSize[id] = 20 /\ Padded(19, 20)
        BY <2>1, <2>2, <3>2, <1>StdOctets, Zenon
      <4> QED
        BY <2>3, <4>1, <1>StdPadded, Zenon
    <3>3. CASE id = "CURRENT_DATA_SET"
      <4>1. Octets(StdFields(id), 18) /\ FixedSize[id] = 18 /\ Padded(18, 18)
        BY <2>1, <2>2, <3>3, <1>StdOctets, Zenon
      <4> QED
        BY <2>3, <4>1, <1>StdPadded, Zenon
    <3>4. CASE id = "PARENT_DATA_SET"
      <4>1. Octets(StdFields(id), 32) /\ FixedSize[id] = 32 /\ Padded(32, 32)
        BY <2>1, <2>2, <3>4, <1>StdOctets, Zenon
      <4> QED
        BY <2>3, <4>1, <1>StdPadded, Zenon
    <3>5. CASE id = "TIME_PROPERTIES_DATA_SET"
      <4>1. Octets(StdFields(id), 4) /\ FixedSize[id] = 4 /\ Padded(4, 4)
        BY <2>1, <2>2, <3>5, <1>StdOctets, Zenon
      <4> QED
        BY <2>3, <4>1, <1>StdPadded, Zenon
    <3>6. CASE id = "PORT_DATA_SET"
      <4>1. Octets(StdFields(id), 26) /\ FixedSize[id] = 26 /\ Padded(26, 26)
        BY <2>1, <2>2, <3>6, <1>StdOctets, Zenon
      <4> QED
        BY <2>3, <4>1, <1>StdPadded, Zenon
    <3>7. CASE id = "TIME"
      <4>1. Octets(StdFields(id), 10) /\ FixedSize[id] = 10 /\ Padded(10, 10)
        BY <2>1, <2>2, <3>7, <1>StdOctets, Zenon
      <4> QED
        BY <2>3, <4>1, <1>StdPadded, Zenon
    <3>8. CASE id = "UTC_PROPERTIES"
      <4>1. Octets(StdFields(id), 3) /\ FixedSize[id] = 4 /\ Padded(3, 4)
        BY <2>1, <2>2, <3>8, <1>StdOctets, Zenon
      <4> QED
        BY <2>3, <4>1, <1>StdPadded, Zenon
    <3>9. CASE id = "UNICAST_MASTER_MAX_TABLE_SIZE"
      <4>1. Octets(StdFields(id), 2) /\ FixedSize[id] = 2 /\ Padded(2, 2)
        BY <2>1, <2>2, <3>9, <1>StdOctets, Zenon
      <4> QED
        BY <2>3, <4>1, <1>StdPadded, Zenon
    <3>10. CASE id = "ACCEPTABLE_MASTER_MAX_TABLE_SIZE"
      <4>1. Octets(StdFields(id), 2) /\ FixedSize[id] = 2 /\ Padded(2, 2)
        BY <2>1, <2>2, <3>10, <1>StdOctets, Zenon
      <4> QED
        BY <2>3, <4>1, <1>StdPadded, Zenon
    <3>11. CASE id = "ALTERNATE_MASTER"
      <4>1. Octets(StdFields(id), 3) /\ FixedSize[id] = 4 /\ Padded(3, 4)
        BY <2>1, <2>2, <3>11, <1>StdOctets, Zenon
      <4> QED
        BY <2>3, <4>1, <1>StdPadded, Zenon
    <3>12. CASE id = "ALTERNATE_TIME_OFFSET_MAX_KEY"
      <4>1. Octets(StdFields(id), 1) /\ FixedSize[id] = 2 /\ Padded(1, 2)
        BY <2>1, <2>2, <3>12, <1>StdOctets, Zenon
      <4> QED
        BY <2>3, <4>1, <1>StdPadded, Zenon
    <3>13. CASE id = "ALTERNATE_TIME_OFFSET_PROPERTIES"
      <4>1. Octets(StdFields(id), 15) /\ FixedSize[id] = 16 /\ Padded(15, 16)
        BY <2>1, <2>2, <3>13, <1>StdOctets, Zenon
      <4> QED
        BY <2>3, <4>1, <1>StdPadded, Zenon
    <3>14. CASE id = "TRANSPARENT_CLOCK_PORT_DATA_SET"
      <4>1. Octets(StdFields(id), 20) /\ FixedSize[id] = 20 /\ Padded(20, 20)
        BY <2>1, <2>2, <3>14, <1>StdOctets, Zenon
      <4> QED
        BY <2>3, <4>1, <1>StdPadded, Zenon
    <3>15. CASE id = "TRANSPARENT_CLOCK_DEFAULT_DATA_SET"
      <4>1. Octets(StdFields(id), 12) /\ FixedSize[id] = 12 /\ Padded(12, 12)
        BY <2>1, <2>2, <3>15, <1>StdOctets, Zenon
      <4> QED
        BY <2>3, <4>1, <1>StdPadded, Zenon
    <3> QED
      BY <2>3, <3>1, <3>2, <3>3, <3>4, <3>5, <3>6, <3>7, <3>8, <3>9, <3>10, <3>11, <3>12,
         <3>13, <3>14, <3>15, Zenon DEF FixedStdIds
  <2>4. CASE id \in FixedLinuxptpIds
    <3>1. CASE id = "TIME_STATUS_NP"
      <4>1. Octets(LinuxptpFields(id), 50) /\ FixedSize[id] = 50 /\ Padded(50, 50)
        BY <2>1, <2>2, <3>1, <1>LinuxptpOctets, Zenon
      <4> QED
        BY <2>4, <4>1, <1>LinuxptpPadded, Zenon
    <3>2. CASE id = "GRANDMASTER_SETTINGS_NP"
      <4>1. Octets(LinuxptpFields(id), 8) /\ FixedSize[id] = 8 /\ Padded(8, 8)
        BY <2>1, <2>2, <3>2, <1>LinuxptpOctets, Zenon
      <4> QED
        BY <2>4, <4>1, <1>LinuxptpPadded, Zenon
    <3>3. CASE id = "PORT_DATA_SET_NP"
      <4>1. Octets(LinuxptpFields(id), 8) /\ FixedSize[id] = 8 /\ Padded(8, 8)
        BY <2>1, <2>2, <3>3, <1>LinuxptpOctets, Zenon
      <4> QED
        BY <2>4, <4>1, <1>LinuxptpPadded, Zenon
    <3>4. CASE id = "SUBSCRIBE_EVENTS_NP"
      <4>1. Octets(LinuxptpFields(id), 66) /\ FixedSize[id] = 66 /\ Padded(66, 66)
        BY <2>1, <2>2, <3>4, <1>LinuxptpOctets, Zenon
      <4> QED
        BY <2>4, <4>1, <1>LinuxptpPadded, Zenon
    <3>5. CASE id = "PORT_STATS_NP"
      <4>1. Octets(LinuxptpFields(id), 266) /\ FixedSize[id] = 266 /\ Padded(266, 266)
        BY <2>1, <2>2, <3>5, <1>LinuxptpOctets, Zenon
      <4> QED
        BY <2>4, <4>1, <1>LinuxptpPadded, Zenon
    <3>6. CASE id = "SYNCHRONIZATION_UNCERTAIN_NP"
      <4>1. Octets(LinuxptpFields(id), 1) /\ FixedSize[id] = 2 /\ Padded(1, 2)
        BY <2>1, <2>2, <3>6, <1>LinuxptpOctets, Zenon
      <4> QED
        BY <2>4, <4>1, <1>LinuxptpPadded, Zenon
    <3>7. CASE id = "PORT_SERVICE_STATS_NP"
      <4>1. Octets(LinuxptpFields(id), 90) /\ FixedSize[id] = 90 /\ Padded(90, 90)
        BY <2>1, <2>2, <3>7, <1>LinuxptpOctets, Zenon
      <4> QED
        BY <2>4, <4>1, <1>LinuxptpPadded, Zenon
    <3>8. CASE id = "PORT_HWCLOCK_NP"
      <4>1. Octets(LinuxptpFields(id), 15) /\ FixedSize[id] = 16 /\ Padded(15, 16)
        BY <2>1, <2>2, <3>8, <1>LinuxptpOctets, Zenon
      <4> QED
        BY <2>4, <4>1, <1>LinuxptpPadded, Zenon
    <3>9. CASE id = "POWER_PROFILE_SETTINGS_NP"
      <4>1. Octets(LinuxptpFields(id), 16) /\ FixedSize[id] = 16 /\ Padded(16, 16)
        BY <2>1, <2>2, <3>9, <1>LinuxptpOctets, Zenon
      <4> QED
        BY <2>4, <4>1, <1>LinuxptpPadded, Zenon
    <3>10. CASE id = "CMLDS_INFO_NP"
      <4>1. Octets(LinuxptpFields(id), 16) /\ FixedSize[id] = 16 /\ Padded(16, 16)
        BY <2>1, <2>2, <3>10, <1>LinuxptpOctets, Zenon
      <4> QED
        BY <2>4, <4>1, <1>LinuxptpPadded, Zenon
    <3>11. CASE id = "PORT_CORRECTIONS_NP"
      <4>1. Octets(LinuxptpFields(id), 24) /\ FixedSize[id] = 24 /\ Padded(24, 24)
        BY <2>1, <2>2, <3>11, <1>LinuxptpOctets, Zenon
      <4> QED
        BY <2>4, <4>1, <1>LinuxptpPadded, Zenon
    <3>12. CASE id = "EXTERNAL_GRANDMASTER_PROPERTIES_NP"
      <4>1. Octets(LinuxptpFields(id), 10) /\ FixedSize[id] = 10 /\ Padded(10, 10)
        BY <2>1, <2>2, <3>12, <1>LinuxptpOctets, Zenon
      <4> QED
        BY <2>4, <4>1, <1>LinuxptpPadded, Zenon
    <3> QED
      BY <2>4, <3>1, <3>2, <3>3, <3>4, <3>5, <3>6, <3>7, <3>8, <3>9, <3>10, <3>11,
         <3>12, Zenon DEF FixedLinuxptpIds
  <2> QED
    BY <2>3, <2>4, <1>FixedIdsAre, Zenon
\* The same for the ids of one octet, or two.
<1>SmallPadded.
    ASSUME NEW id \in SmallIds, NEW v
    PROVE  Padded(DataOctets(id, v), mng_size(id))
  <2> USE <1>SmallPadded
  <2> DEFINE Two == {"TIMESCALE_PROPERTIES", "ALTERNATE_TIME_OFFSET_ENABLE",
                     "EXT_PORT_CONFIG_PORT_DATA_SET"}
  <2>1. id \notin EmptyIds
    BY Zenon DEF SmallIds, EmptyIds
  <2>2. id \notin VariableIds
    BY Zenon DEF SmallIds, VariableIds
  <2>3. id \notin LinuxptpIds
    BY Zenon DEF SmallIds, LinuxptpIds
  <2>4. mng_size(id) = 2
    BY <2>1, <2>2, Zenon DEF mng_size
  <2>5. Octets(<<1>>, 1) /\ Octets(<<1, 1>>, 2)
    BY <1>Sum1, <1>Sum2 DEF Octets
  <2>6. CASE id \in Two
    <3>1. StdFields(id) = <<1, 1>>
      BY <2>6, Zenon DEF StdFields
    <3>2. DataOctets(id, v) = 2
      BY <2>1, <2>2, <2>3, <2>5, <3>1, Zenon DEF DataOctets, Fields, Octets
    <3>3. Padded(2, 2)
      BY DEF Padded, Even
    <3> QED
      BY <2>4, <3>2, <3>3, Zenon
  <2>7. CASE id \notin Two
    <3>1. StdFields(id) = <<1>>
      BY <2>7, Zenon DEF StdFields, SmallIds
    <3>2. DataOctets(id, v) = 1
      BY <2>1, <2>2, <2>3, <2>5, <3>1, Zenon DEF DataOctets, Fields, Octets
    <3>3. Padded(1, 2)
      BY DEF Padded, Even
    <3> QED
      BY <2>4, <3>2, <3>3, Zenon
  <2> QED
    BY <2>6, <2>7, Zenon
  (* The TLVs of variable length *)
\* The octets of the types with a text or an address of n octets.
<1>EntryOctets.
    ASSUME NEW n \in Nat
    PROVE  /\ Octets(PTPText(n), 1 + n)
           /\ n <= UINT16_MAX => Octets(PortAddress(n), 4 + n)
           /\ Octets(FaultRecord(n), 2 + 10 + 1 + 3 * (1 + n))
           /\ Octets(AcceptableMaster(n), 11)
           /\ n <= UINT16_MAX => Octets(UnicastMaster(n), 22 + n)
  <2> USE <1>EntryOctets
  <2>1. Octets(PTPText(n), 1 + n) /\ 1 + n \in Nat
    BY <1>Sum2 DEF PTPText, Octets
  <2>3. Octets(<<1>>, 1) /\ Octets(<<2>>, 2) /\ Octets(<<1, 1, 1, 1>>, 4)
    BY <1>Sum1, <1>Sum4 DEF Octets
  <2>2. ASSUME n <= UINT16_MAX PROVE Octets(PortAddress(n), 4 + n) /\ 4 + n \in Nat
    <3>1. n % (UINT16_MAX + 1) = n
      BY <2>2 DEF UINT16_MAX
    <3>2. Address(n) = <<2, n>>
      BY <3>1, Zenon DEF Address
    <3>3. Octets(<<2, n>>, 2 + n) /\ 2 + n \in Nat
      BY <1>Sum2 DEF Octets
    <3>4. 2 + (2 + n) = 4 + n /\ 4 + n \in Nat
      OBVIOUS
    <3>5. Octets(<<2>> \o Address(n), 2 + (2 + n))
      BY <2>3, <3>2, <3>3, 2 \in Nat, <1>OctetsConcat, Zenon
    <3> QED
      BY <3>4, <3>5, Zenon DEF PortAddress
  <2>4. Octets(FaultRecord(n), 2 + 10 + 1 + 3 * (1 + n))
    <3> DEFINE t == PTPText(n)
               k == 1 + n
    <3> HIDE DEF t, k
    <3>0. k \in Nat /\ 12 \in Nat /\ 13 \in Nat /\ 13 + k \in Nat /\ 13 + k + k \in Nat
      BY <2>1 DEF k
    <3>1. Octets(<<2>> \o Timestamp, 12)
      BY <2>3, 2 \in Nat, 10 \in Nat, 12 = 2 + 10, <1>TypeOctets, <1>OctetsConcat, Zenon
    <3>2. Octets(<<2>> \o Timestamp \o <<1>>, 13)
      BY <2>3, <3>1, 12 \in Nat, 1 \in Nat, 13 = 12 + 1, <1>OctetsConcat, Zenon
    <3>3. Octets(<<2>> \o Timestamp \o <<1>> \o t, 13 + k)
      BY <2>1, <3>0, <3>2, <1>OctetsConcat, Zenon DEF t, k
    <3>4. Octets(<<2>> \o Timestamp \o <<1>> \o t \o t, 13 + k + k)
      BY <2>1, <3>0, <3>3, <1>OctetsConcat, Zenon DEF t, k
    <3>5. Octets(<<2>> \o Timestamp \o <<1>> \o t \o t \o t, 13 + k + k + k)
      BY <2>1, <3>0, <3>4, <1>OctetsConcat, Zenon DEF t, k
    <3>6. 13 + k + k + k = 2 + 10 + 1 + 3 * (1 + n)
      BY DEF k
    <3> QED
      BY <3>5, <3>6, Zenon DEF FaultRecord, t
  <2>5. Octets(AcceptableMaster(n), 11)
    BY <2>3, 10 \in Nat, 1 \in Nat, 11 = 10 + 1, <1>TypeOctets, <1>OctetsConcat, Zenon
    DEF AcceptableMaster
  <2>6. ASSUME n <= UINT16_MAX PROVE Octets(UnicastMaster(n), 22 + n)
    <3> DEFINE a == PortAddress(n)
               k == 4 + n
    <3> HIDE DEF a, k
    <3>1. Octets(PortIdentity \o ClockQuality, 14)
      BY 10 \in Nat, 4 \in Nat, 14 = 10 + 4, <1>TypeOctets, <1>OctetsConcat, Zenon
    <3>2. Octets(PortIdentity \o ClockQuality \o <<1, 1, 1, 1>>, 18)
      BY <2>3, <3>1, 14 \in Nat, 4 \in Nat, 18 = 14 + 4, <1>OctetsConcat, Zenon
    <3>3. Octets(PortIdentity \o ClockQuality \o <<1, 1, 1, 1>> \o a, 18 + k)
      BY <2>2, <2>6, <3>2, 18 \in Nat, <1>OctetsConcat, Zenon DEF a, k
    <3>4. 18 + k = 22 + n
      BY DEF k
    <3> QED
      BY <3>3, <3>4, Zenon DEF UnicastMaster, a
  <2> QED
    BY <2>1, <2>2, <2>4, <2>5, <2>6, Zenon
\* vector_f takes the sum of what the entries take.
<1>EntriesOctets.
    ASSUME NEW id, NEW v \in Seq(Nat), NEW e \in Seq(Nat), DOMAIN e = DOMAIN v,
           \A i \in DOMAIN v : Octets(Entry(id, v[i]), e[i])
    PROVE  Octets(Entries(id, v), SumSeq(e)) /\ SumSeq(e) \in Nat
  <2> USE <1>EntriesOctets
  <2>1. \A i \in DOMAIN v : SumSeq(Entry(id, v[i])) = e[i]
    BY Zenon DEF Octets
  <2>2. e = [i \in DOMAIN e |-> e[i]]
    OBVIOUS
  <2>3. Entries(id, v) = e
    BY <2>1, <2>2, Zenon DEF Entries
  <2> QED
    BY <2>3, <1>SumNat, Zenon DEF Octets
\* The lengths of the entries of a table, each with a fixed part of k octets.
<1>SizesOf.
    ASSUME NEW v \in Seq(Nat), NEW k \in Nat
    PROVE  /\ [i \in DOMAIN v |-> k + v[i]] \in Seq(Nat)
           /\ DOMAIN [i \in DOMAIN v |-> k + v[i]] = DOMAIN v
    OBVIOUS
<1>FaultSizes.
    ASSUME NEW v \in Seq(Nat)
    PROVE  /\ [i \in DOMAIN v |-> 2 + 10 + 1 + 3 * (1 + v[i])] \in Seq(Nat)
           /\ DOMAIN [i \in DOMAIN v |-> 2 + 10 + 1 + 3 * (1 + v[i])] = DOMAIN v
  <2> USE <1>FaultSizes
  <2> DEFINE F(i) == 2 + 10 + 1 + 3 * (1 + v[i])
  <2>1. \A i \in DOMAIN v : F(i) \in Nat
    OBVIOUS
  <2> HIDE DEF F
  <2>2. [i \in DOMAIN v |-> F(i)] \in Seq(Nat) /\ DOMAIN [i \in DOMAIN v |-> F(i)] = DOMAIN v
    BY <2>1
  <2> QED
    BY <2>2, Zenon DEF F
\* The ids with one text: vector_l has no part in their length.
<1>TextOctets.
    ASSUME NEW id \in {"USER_DESCRIPTION", "ALTERNATE_TIME_OFFSET_NAME",
                       "PORT_PROPERTIES_NP"},
           NEW v, IsValue(id, v)
    PROVE  Octets(VariableFields(id, v), dataFieldSize(id, v)) /\ dataFieldSize(id, v) \in Nat
  <2> USE <1>TextOctets
  <2>1. v[1] \in Nat
    <3>1. EmptyValue(id) = <<0>>
      BY Zenon DEF EmptyValue
    <3>2. Len(<<0>>) = 1 /\ <<0>> # <<>>
      OBVIOUS
    <3>3. v \in Seq(Nat) /\ Len(v) = 1
      BY <3>1, <3>2, Zenon DEF IsValue
    <3> QED
      BY <3>3
  <2> DEFINE n == v[1]
  <2> HIDE DEF n
  <2>2. n \in Nat /\ 1 + n \in Nat /\ 1 + (1 + n) \in Nat /\ 2 + 10 + (1 + n) \in Nat
    BY <2>1 DEF n
  <2>3. Octets(PTPText(n), 1 + n)
    BY <2>2, <1>EntryOctets, Zenon
  <2>4. Octets(<<1>>, 1) /\ Octets(<<1, 1>>, 2)
    BY <1>Sum1, <1>Sum2 DEF Octets
  <2>5. CASE id = "USER_DESCRIPTION"
    <3>1. VariableFields(id, v) = PTPText(n) /\ dataFieldSize(id, v) = 1 + n
      BY <2>5, Zenon DEF VariableFields, dataFieldSize, n
    <3> QED
      BY <2>2, <2>3, <3>1, Zenon
  <2>6. CASE id = "ALTERNATE_TIME_OFFSET_NAME"
    <3>1. VariableFields(id, v) = <<1>> \o PTPText(n) /\ dataFieldSize(id, v) = 1 + (1 + n)
      BY <2>6, Zenon DEF VariableFields, dataFieldSize, n
    <3>2. Octets(<<1>> \o PTPText(n), 1 + (1 + n))
      BY <2>2, <2>3, <2>4, 1 \in Nat, <1>OctetsConcat, Zenon
    <3> QED
      BY <2>2, <3>1, <3>2, Zenon
  <2>7. CASE id = "PORT_PROPERTIES_NP"
    <3>1. /\ VariableFields(id, v) = PortIdentity \o <<1, 1>> \o PTPText(n)
          /\ dataFieldSize(id, v) = 2 + 10 + (1 + n)
      BY <2>7, Zenon DEF VariableFields, dataFieldSize, n
    <3>2. Octets(PortIdentity \o <<1, 1>>, 12)
      BY <2>4, 10 \in Nat, 2 \in Nat, 12 = 10 + 2, <1>TypeOctets, <1>OctetsConcat, Zenon
    <3>3. 2 + 10 + (1 + n) = 12 + (1 + n)
      BY <2>2
    <3>4. Octets(PortIdentity \o <<1, 1>> \o PTPText(n), 2 + 10 + (1 + n))
      BY <2>2, <2>3, <3>2, <3>3, 12 \in Nat, <1>OctetsConcat, Zenon
    <3> QED
      BY <2>2, <3>1, <3>4, Zenon
  <2> QED
    BY <2>5, <2>6, <2>7, Zenon
\* A table: the fields before it take k octets, and its entries the rest.
<1>TableOctets.
    ASSUME NEW id, NEW v \in Seq(Nat), NEW h, NEW k \in Nat, Octets(h, k),
           NEW e \in Seq(Nat), DOMAIN e = DOMAIN v,
           \A i \in DOMAIN v : Octets(Entry(id, v[i]), e[i])
    PROVE  Octets(h \o Entries(id, v), k + SumSeq(e)) /\ k + SumSeq(e) \in Nat
  <2> USE <1>TableOctets
  <2>1. Octets(Entries(id, v), SumSeq(e)) /\ SumSeq(e) \in Nat
    BY <1>EntriesOctets, Zenon
  <2>2. k + SumSeq(e) \in Nat
    BY <2>1
  <2> QED
    BY <2>1, <2>2, <1>OctetsConcat, Zenon
\* The tables of addresses: vector_l.
<1>AddressesOctets.
    ASSUME NEW id \in AddressIds,
           NEW v \in Seq(Nat), \A i \in DOMAIN v : v[i] <= UINT16_MAX
    PROVE  Octets(VariableFields(id, v), dataFieldSize(id, v)) /\ dataFieldSize(id, v) \in Nat
  <2> USE <1>AddressesOctets
  <2> DEFINE e(k) == [i \in DOMAIN v |-> k + v[i]]
  <2>1. \A k \in Nat : e(k) \in Seq(Nat) /\ DOMAIN e(k) = DOMAIN v
    BY <1>SizesOf
  <2>2. \A k \in Nat : \A i \in DOMAIN v : e(k)[i] = k + v[i]
    BY Zenon
  <2>3. \A i \in DOMAIN v : v[i] \in Nat
    OBVIOUS
  <2> HIDE DEF e
  <2>4. CASE id = "GRANDMASTER_CLUSTER_TABLE"
    <3>1. \A i \in DOMAIN v : Octets(Entry(id, v[i]), e(4)[i])
      <4>1. \A i \in DOMAIN v : Entry(id, v[i]) = PortAddress(v[i])
        BY <2>4, Zenon DEF Entry
      <4> QED
        BY <2>2, <2>3, <4>1, 4 \in Nat, <1>EntryOctets, Zenon
    <3>2. Octets(<<1, 1>>, 2)
      BY <1>Sum2 DEF Octets
    <3>3. Octets(<<1, 1>> \o Entries(id, v), 2 + SumSeq(e(4))) /\ 2 + SumSeq(e(4)) \in Nat
      BY <2>1, <3>1, <3>2, 2 \in Nat, 4 \in Nat, <1>TableOctets, Zenon
    <3>4. VariableFields(id, v) = <<1, 1>> \o Entries(id, v)
      BY <2>4, Zenon DEF VariableFields
    <3>5. dataFieldSize(id, v) = 2 + SumSeq(e(4))
      BY <2>4, Zenon DEF dataFieldSize, vector_l, e
    <3> QED
      BY <3>3, <3>4, <3>5, Zenon
  <2>5. CASE id = "UNICAST_MASTER_TABLE"
    <3>1. \A i \in DOMAIN v : Octets(Entry(id, v[i]), e(4)[i])
      <4>1. \A i \in DOMAIN v : Entry(id, v[i]) = PortAddress(v[i])
        BY <2>5, Zenon DEF Entry
      <4> QED
        BY <2>2, <2>3, <4>1, 4 \in Nat, <1>EntryOctets, Zenon
    <3>2. Octets(<<1, 2>>, 3)
      BY <1>Sum2 DEF Octets
    <3>3. Octets(<<1, 2>> \o Entries(id, v), 3 + SumSeq(e(4))) /\ 3 + SumSeq(e(4)) \in Nat
      BY <2>1, <3>1, <3>2, 3 \in Nat, 4 \in Nat, <1>TableOctets, Zenon
    <3>4. VariableFields(id, v) = <<1, 2>> \o Entries(id, v)
      BY <2>5, Zenon DEF VariableFields
    <3>5. dataFieldSize(id, v) = 3 + SumSeq(e(4))
      BY <2>5, Zenon DEF dataFieldSize, vector_l, e
    <3> QED
      BY <3>3, <3>4, <3>5, Zenon
  <2>6. CASE id = "UNICAST_MASTER_TABLE_NP"
    <3>1. \A i \in DOMAIN v : Octets(Entry(id, v[i]), e(22)[i])
      <4>1. \A i \in DOMAIN v : Entry(id, v[i]) = UnicastMaster(v[i])
        BY <2>6, Zenon DEF Entry
      <4> QED
        BY <2>2, <2>3, <4>1, 22 \in Nat, <1>EntryOctets, Zenon
    <3>2. Octets(<<2>>, 2)
      BY <1>Sum1 DEF Octets
    <3>3. Octets(<<2>> \o Entries(id, v), 2 + SumSeq(e(22))) /\ 2 + SumSeq(e(22)) \in Nat
      BY <2>1, <3>1, <3>2, 2 \in Nat, 22 \in Nat, <1>TableOctets, Zenon
    <3>4. VariableFields(id, v) = <<2>> \o Entries(id, v)
      BY <2>6, Zenon DEF VariableFields
    <3>5. dataFieldSize(id, v) = 2 + SumSeq(e(22))
      BY <2>6, Zenon DEF dataFieldSize, vector_l, e
    <3> QED
      BY <3>3, <3>4, <3>5, Zenon
  <2> QED
    BY <2>4, <2>5, <2>6, Zenon DEF AddressIds
\* The other tables.
<1>RecordsOctets.
    ASSUME NEW id \in {"FAULT_LOG", "PATH_TRACE_LIST", "ACCEPTABLE_MASTER_TABLE"},
           NEW v \in Seq(Nat)
    PROVE  Octets(VariableFields(id, v), dataFieldSize(id, v)) /\ dataFieldSize(id, v) \in Nat
  <2> USE <1>RecordsOctets
  <2>1. \A i \in DOMAIN v : v[i] \in Nat
    OBVIOUS
  <2>2. Octets(<<2>>, 2)
    BY <1>Sum1 DEF Octets
  <2>3. DOMAIN v = 1 .. Len(v) /\ Len(v) \in Nat
    OBVIOUS
  <2>4. CASE id = "FAULT_LOG"
    <3> DEFINE e == [i \in DOMAIN v |-> 2 + 10 + 1 + 3 * (1 + v[i])]
    <3>1. e \in Seq(Nat) /\ DOMAIN e = DOMAIN v
      BY <1>FaultSizes, Zenon
    <3>2. \A i \in DOMAIN v : Octets(Entry(id, v[i]), e[i])
      <4>1. \A i \in DOMAIN v : Entry(id, v[i]) = FaultRecord(v[i])
        BY <2>4, Zenon DEF Entry
      <4>2. \A i \in DOMAIN v : e[i] = 2 + 10 + 1 + 3 * (1 + v[i])
        BY Zenon
      <4> HIDE DEF e
      <4> QED
        BY <2>1, <4>1, <4>2, <1>EntryOctets, Zenon
    <3>3. dataFieldSize(id, v) = 2 + SumSeq(e)
      BY <2>4, Zenon DEF dataFieldSize
    <3> HIDE DEF e
    <3>4. Octets(<<2>> \o Entries(id, v), 2 + SumSeq(e)) /\ 2 + SumSeq(e) \in Nat
      BY <2>2, <3>1, <3>2, 2 \in Nat, <1>TableOctets, Zenon
    <3>5. VariableFields(id, v) = <<2>> \o Entries(id, v)
      BY <2>4, Zenon DEF VariableFields
    <3> QED
      BY <3>3, <3>4, <3>5, Zenon
  <2>5. CASE id = "PATH_TRACE_LIST"
    <3>1. VariableFields(id, v) = Repeat(Len(v), 8) /\ dataFieldSize(id, v) = 8 * Len(v)
      BY <2>3, <2>5, Zenon DEF VariableFields, dataFieldSize, Repeat
    <3>2. Octets(Repeat(Len(v), 8), 8 * Len(v))
      BY <2>3, 8 \in Nat, <1>SumConst, Zenon
    <3>3. 8 * Len(v) \in Nat
      BY <2>3
    <3> QED
      BY <3>1, <3>2, <3>3, Zenon
  <2>6. CASE id = "ACCEPTABLE_MASTER_TABLE"
    <3> DEFINE e == Repeat(Len(v), 11)
    <3>1. Octets(e, 11 * Len(v))
      BY <2>3, 11 \in Nat, <1>SumConst, Zenon
    <3>2. DOMAIN e = DOMAIN v /\ \A i \in DOMAIN v : e[i] = 11
      BY <2>3, Zenon DEF Repeat
    <3> HIDE DEF e
    <3>3. \A i \in DOMAIN v : Octets(Entry(id, v[i]), e[i])
      <4>1. \A i \in DOMAIN v : Entry(id, v[i]) = AcceptableMaster(v[i])
        BY <2>6, Zenon DEF Entry
      <4> QED
        BY <2>1, <3>2, <4>1, <1>EntryOctets, Zenon
    <3>4. e \in Seq(Nat) /\ SumSeq(e) = 11 * Len(v)
      BY <3>1, Zenon DEF Octets
    <3>5. Octets(<<2>> \o Entries(id, v), 2 + SumSeq(e)) /\ 2 + SumSeq(e) \in Nat
      BY <2>2, <3>2, <3>3, <3>4, 2 \in Nat, <1>TableOctets, Zenon
    <3>6. /\ VariableFields(id, v) = <<2>> \o Entries(id, v)
          /\ dataFieldSize(id, v) = 2 + 11 * Len(v)
      BY <2>6, Zenon DEF VariableFields, dataFieldSize
    <3> QED
      BY <3>4, <3>5, <3>6, Zenon
  <2> QED
    BY <2>4, <2>5, <2>6, Zenon
\* What *_f adds for a value is what *_s computes for it.  CLOCK_DESCRIPTION_s counts
\* one octet less than CLOCK_DESCRIPTION_f adds: it is only used for a GET, which
\* sends zeros for its dataField.
<1>VariableOctets.
    ASSUME NEW id \in VariableIds, id # "CLOCK_DESCRIPTION", NEW v, IsValue(id, v)
    PROVE  DataOctets(id, v) = dataFieldSize(id, v) /\ dataFieldSize(id, v) \in Nat
  <2> USE <1>VariableOctets
  <2>1. v \in Seq(Nat)
    BY Zenon DEF IsValue
  <2>2. Octets(VariableFields(id, v), dataFieldSize(id, v)) /\ dataFieldSize(id, v) \in Nat
    <3>1. CASE id \in {"USER_DESCRIPTION", "ALTERNATE_TIME_OFFSET_NAME", "PORT_PROPERTIES_NP"}
      BY <3>1, <1>TextOctets, Zenon
    <3>2. CASE id \in AddressIds
      BY <2>1, <3>2, <1>AddressesOctets, Zenon DEF IsValue
    <3>3. CASE id \in {"FAULT_LOG", "PATH_TRACE_LIST", "ACCEPTABLE_MASTER_TABLE"}
      BY <2>1, <3>3, <1>RecordsOctets, Zenon
    <3> QED
      BY <3>1, <3>2, <3>3, Zenon DEF VariableIds, AddressIds
  <2>3. id \notin EmptyIds
    BY Zenon DEF VariableIds, EmptyIds
  <2> QED
    BY <2>2, <2>3, Zenon DEF DataOctets, Fields, Octets
<1>EmptyIsValue.
    ASSUME NEW id PROVE IsValue(id, EmptyValue(id))
  <2> USE <1>EmptyIsValue
  <2>1. <<0, 0, 0, 0, 0, 0>> \in Seq(Nat) /\ <<0>> \in Seq(Nat) /\ <<>> \in Seq(Nat)
    OBVIOUS
  <2>2. EmptyValue(id) \in Seq(Nat)
    BY <2>1, Zenon DEF EmptyValue
  <2>3. id \in AddressIds => EmptyValue(id) = <<>>
    BY Zenon DEF AddressIds, EmptyValue
  <2>4. \A i \in DOMAIN <<>> : <<>>[i] <= UINT16_MAX
    OBVIOUS
  <2> QED
    BY <2>2, <2>3, <2>4, Zenon DEF IsValue
\* The octets of a GET of an id of variable length.
<1>EmptySize.
    ASSUME NEW id \in VariableIds PROVE dataFieldSize(id, EmptyValue(id)) \in Nat
  <2> USE <1>EmptySize
  <2>1. CASE id = "CLOCK_DESCRIPTION"
    <3> DEFINE v == <<0, 0, 0, 0, 0, 0>>
    <3>1. EmptyValue(id) = v
      BY <2>1, Zenon DEF EmptyValue
    <3>2. v[1] = 0 /\ v[2] = 0 /\ v[3] = 0 /\ v[4] = 0 /\ v[5] = 0 /\ v[6] = 0
      OBVIOUS
    <3> HIDE DEF v
    <3>3. dataFieldSize(id, v) =
            13 + v[2] + (4 + v[3]) + (1 + v[1]) + (1 + v[4]) + (1 + v[5]) + (1 + v[6])
      BY <2>1, Zenon DEF dataFieldSize
    <3>4. dataFieldSize(id, v) \in Nat
      BY <3>2, <3>3
    <3> QED
      BY <3>1, <3>4, Zenon
  <2>2. CASE id # "CLOCK_DESCRIPTION"
    BY <2>2, <1>EmptyIsValue, <1>VariableOctets, Zenon
  <2> QED
    BY <2>1, <2>2, Zenon
  (* The length planned for a message and the length built *)
<1>EvenNat.
    ASSUME NEW n \in Nat PROVE Even(n) \in Nat
    BY <1>EvenNat DEF Even
<1>SizeKinds.
    ASSUME NEW id \in MngIds
    PROVE  /\ mng_size(id) \in Nat \/ mng_size(id) = -2
           /\ mng_size(id) = -2 <=> id \in VariableIds
  <2> USE <1>SizeKinds
  <2>1. -2 \notin Nat /\ 0 \in Nat /\ 2 \in Nat
    OBVIOUS
  <2>2. CASE id \in EmptyIds
    <3>1. mng_size(id) = 0
      BY <2>2, Zenon DEF mng_size, EmptyIds, VariableIds, SmallIds
    <3>2. id \notin VariableIds
      BY <2>2, Zenon DEF EmptyIds, VariableIds
    <3> QED
      BY <2>1, <3>1, <3>2, Zenon
  <2>3. CASE id \in VariableIds
    <3>1. id \notin EmptyIds /\ id \notin SmallIds
      BY <2>3, Zenon DEF EmptyIds, VariableIds, SmallIds
    <3>2. mng_size(id) = -2
      BY <2>3, <3>1, Zenon DEF mng_size
    <3> QED
      BY <2>3, <3>2, Zenon
  <2>4. CASE id \notin EmptyIds /\ id \notin VariableIds
    <3>1. Padded(DataOctets(id, <<>>), mng_size(id))
      <4>1. id \in SmallIds \/ id \in DOMAIN FixedSize
        BY <2>4, Zenon DEF MngIds
      <4> QED
        BY <4>1, <1>SmallPadded, <1>FixedPadded, Zenon
    <3>2. mng_size(id) \in Nat
      BY <3>1, Zenon DEF Padded
    <3> QED
      BY <2>1, <2>4, <3>2, Zenon
  <2> QED
    BY <2>2, <2>3, <2>4, Zenon
\* What build adds for an object and the size that is planned for it are the same,
\* once each is padded.
<1>DataPadded.
    ASSUME NEW id \in MngIds, id \notin EmptyIds, id # "CLOCK_DESCRIPTION",
           NEW v, IsValue(id, v),
           NEW size, size = IF mng_size(id) = -2 THEN dataFieldSize(id, v) ELSE mng_size(id)
    PROVE  Even(DataOctets(id, v)) = Even(size) /\ size \in Nat
  <2> USE <1>DataPadded
  <2>1. CASE id \in VariableIds
    <3>1. size = dataFieldSize(id, v)
      BY <2>1, <1>SizeKinds, Zenon
    <3> QED
      BY <2>1, <3>1, <1>VariableOctets, Zenon
  <2>2. CASE id \notin VariableIds
    <3>1. size = mng_size(id)
      BY <2>2, <1>SizeKinds, Zenon
    <3>2. id \in SmallIds \/ id \in DOMAIN FixedSize
      BY <2>2, Zenon DEF MngIds
    <3>3. Padded(DataOctets(id, v), mng_size(id))
      BY <3>2, <1>SmallPadded, <1>FixedPadded, Zenon
    <3> QED
      BY <3>1, <3>3, Zenon DEF Padded
  <2> QED
    BY <2>1, <2>2, Zenon
<1>SetActionFields.
    ASSUME NEW linuxptp, NEW zeroGet, NEW mac, NEW action, NEW id, NEW object,
           NEW m, m = setAction(NewMessage(linuxptp, zeroGet, mac), action, id, object)
    PROVE  /\ m.sendAction = action /\ m.tlv_id = id
           /\ m.mac = mac /\ m.useZeroGet = zeroGet
  <2> USE <1>SetActionFields
  <2> DEFINE new == NewMessage(linuxptp, zeroGet, mac)
             d == IF NeedsData(action, id) THEN object ELSE NoObject
  <2>1. /\ DOMAIN new = {"linuxptp", "useZeroGet", "mac", "sendAction", "tlv_id", "dataSend"}
        /\ new.mac = mac /\ new.useZeroGet = zeroGet
    BY DEF NewMessage
  <2>2. m = [new EXCEPT !.sendAction = action, !.tlv_id = id, !.dataSend = d]
    BY Zenon DEF setAction
  <2> HIDE DEF new, d
  <2>3. /\ "sendAction" \in DOMAIN new /\ "tlv_id" \in DOMAIN new
        /\ "mac" \in DOMAIN new /\ "useZeroGet" \in DOMAIN new /\ "dataSend" \in DOMAIN new
    BY <2>1, Zenon
  <2>4. /\ "sendAction" # "tlv_id" /\ "sendAction" # "dataSend" /\ "tlv_id" # "dataSend"
        /\ "mac" # "sendAction" /\ "mac" # "tlv_id" /\ "mac" # "dataSend"
        /\ "useZeroGet" # "sendAction" /\ "useZeroGet" # "tlv_id" /\ "useZeroGet" # "dataSend"
    OBVIOUS
  <2>5. m.sendAction = action /\ m.tlv_id = id
    BY <2>2, <2>3, <2>4, Zenon
  <2>6. m.mac = new.mac /\ m.useZeroGet = new.useZeroGet
    BY <2>2, <2>3, <2>4, Zenon
  <2> QED
    BY <2>1, <2>5, <2>6, Zenon
\* build in a buffer of the length len and in one that is an octet shorter, when it
\* adds d octets.
<1>BuildFits.
    ASSUME NEW m, NEW content, NEW d \in Nat, BuiltData(m, content) = d,
           NEW a \in Nat, AuthOctets(m) = a,
           m.sendAction # "GET" /\ content # NoData =>
              /\ content.id = m.tlv_id
              /\ TextFits(m.tlv_id, content.v) /\ Fits48(m.tlv_id, content.v),
           NEW len, len = Even(d) + mngMsgBaseSize + a, NEW digest \in BOOLEAN
    PROVE  /\ build(m, content, len, digest) =
                IF m.mac > 0 /\ ~digest THEN [err |-> "AUTH", len |-> 0]
                ELSE [err |-> "OK", len |-> len]
           /\ build(m, content, len - 1, digest).err = "TOO_SMALL"
  <2> USE <1>BuildFits
  <2> DEFINE n == mngMsgBaseSize + Even(d) + a
             data == m.sendAction # "GET" /\ content # NoData
             small == [err |-> "TOO_SMALL", len |-> 0]
             auth_ == [err |-> "AUTH", len |-> 0]
             fails == m.mac > 0 /\ ~digest
             ok == [err |-> "OK", len |-> n]
  <2>1. n = len /\ len \in Nat /\ ~(len < mngMsgBaseSize) /\ ~(n > len) /\ n > len - 1
    <3>1. Even(d) \in Nat
      BY <1>EvenNat, Zenon
    <3> QED
      BY <3>1 DEF mngMsgBaseSize
  <2>2. /\ ~(data /\ content.id # m.tlv_id)
        /\ ~(data /\ ~TextFits(m.tlv_id, content.v))
        /\ ~(data /\ ~Fits48(m.tlv_id, content.v))
    BY Zenon
  <2>3. \A size : build(m, content, size, digest) =
          IF size < mngMsgBaseSize THEN small
          ELSE IF data /\ content.id # m.tlv_id THEN [err |-> "MISMATCH_TLV", len |-> 0]
          ELSE IF data /\ ~TextFits(m.tlv_id, content.v) THEN small
          ELSE IF data /\ ~Fits48(m.tlv_id, content.v) /\
                  size >= mngMsgBaseSize + End48(m.tlv_id)
               THEN [err |-> "VAL", len |-> 0]
          ELSE IF n > size THEN small ELSE IF fails THEN auth_ ELSE ok
    BY Zenon DEF build
  <2>4. small.err = "TOO_SMALL"
    OBVIOUS
  <2> HIDE DEF n, data, small, fails
  <2>5. build(m, content, len, digest) = IF fails THEN auth_ ELSE ok
    BY <2>1, <2>2, <2>3, Zenon
  <2>6. build(m, content, len - 1, digest) = small
    BY <2>1, <2>2, <2>3, Zenon
  <2> QED
    BY <2>1, <2>4, <2>5, <2>6, Zenon DEF fails
\* build refuses a value that cannot be encoded.
<1>BuildRefuses.
    ASSUME NEW m, NEW content, m.sendAction # "GET", content # NoData,
           content.id = m.tlv_id,
           ~(TextFits(m.tlv_id, content.v) /\ Fits48(m.tlv_id, content.v)),
           NEW len, NEW digest,
           m.tlv_id \in Ids48 => len >= mngMsgBaseSize + End48(m.tlv_id)
    PROVE  build(m, content, len, digest).err \in {"TOO_SMALL", "VAL"}
  <2> USE <1>BuildRefuses
  <2> DEFINE n == mngMsgBaseSize + Even(BuiltData(m, content)) + AuthOctets(m)
             small == [err |-> "TOO_SMALL", len |-> 0]
             val == [err |-> "VAL", len |-> 0]
             rest == IF n > len THEN small
                     ELSE IF m.mac > 0 /\ ~digest THEN [err |-> "AUTH", len |-> 0]
                     ELSE [err |-> "OK", len |-> n]
  <2>1. build(m, content, len, digest) =
          IF len < mngMsgBaseSize THEN small
          ELSE IF ~TextFits(m.tlv_id, content.v) THEN small
          ELSE IF ~Fits48(m.tlv_id, content.v) /\ len >= mngMsgBaseSize + End48(m.tlv_id)
               THEN val
          ELSE rest
    BY Zenon DEF build
  <2>2. ~Fits48(m.tlv_id, content.v) => len >= mngMsgBaseSize + End48(m.tlv_id)
    BY Zenon DEF Fits48
  <2>3. small.err = "TOO_SMALL" /\ val.err = "VAL"
    OBVIOUS
  <2> HIDE DEF n, small, val, rest
  <2>4. build(m, content, len, digest) = small \/ build(m, content, len, digest) = val
    BY <2>1, <2>2, Zenon
  <2> QED
    BY <2>3, <2>4, Zenon
<1>NoneIsNoId. "none" \notin MngIds
  <2>1. "none" \notin DOMAIN FixedSize
    BY <1>FixedIdsAre, Zenon DEF FixedStdIds, FixedLinuxptpIds
  <2>2. "none" \notin EmptyIds /\ "none" \notin VariableIds /\ "none" \notin SmallIds
    BY Zenon DEF EmptyIds, VariableIds, SmallIds
  <2> QED
    BY <2>1, <2>2, Zenon DEF MngIds
\* The length planned, and the octets that build adds, for each kind of message.
<1>PlannedOctets.
    ASSUME NEW m, NEW id \in MngIds, m.tlv_id = id, NEW action, m.sendAction = action,
           m.useZeroGet \in BOOLEAN, action \in mng_allowed(id),
           NEW v, IsValue(id, v),
           NEW content,
           content = IF NeedsData(action, id) THEN [id |-> id, v |-> v] ELSE NoData
    PROVE  \E d \in Nat :
              /\ BuiltData(m, content) = d
              /\ getMsgPlanedLen(m, content) = Even(d) + mngMsgBaseSize + AuthOctets(m)
  <2> USE <1>PlannedOctets
  <2>1. content # NoData <=> NeedsData(action, id)
    <3>1. id # "none"
      BY <1>NoneIsNoId, Zenon
    <3>2. [id |-> id, v |-> v] # NoData
      BY <3>1 DEF NoData
    <3> QED
      BY <3>2, Zenon
  <2>2. NeedsData(action, id) => content.v = v
    OBVIOUS
  <2>3. 0 \in Nat /\ Even(0) = 0 /\ 0 # -2
    BY DEF Even
  <2>4. CASE NeedsData(action, id)
    <3>1. action # "GET" /\ id \notin EmptyIds /\ id # "CLOCK_DESCRIPTION"
      <4>1. action # "GET" /\ mng_size(id) # 0
        BY <2>4, Zenon DEF NeedsData, isEmpty
      <4>2. id \notin EmptyIds
        BY <4>1, Zenon DEF mng_size, EmptyIds, VariableIds, SmallIds
      <4>3. mng_allowed("CLOCK_DESCRIPTION") = {"GET"}
        BY Zenon DEF mng_allowed, EmptyIds, SmallIds
      <4> QED
        BY <4>1, <4>2, <4>3, Zenon
    <3> DEFINE size == IF mng_size(id) = -2 THEN dataFieldSize(id, v) ELSE mng_size(id)
    <3>2. getMsgPlanedLen(m, content) = Even(size) + mngMsgBaseSize + AuthOctets(m)
      BY <2>1, <2>2, <2>4, <3>1, Zenon DEF getMsgPlanedLen
    <3>3. BuiltData(m, content) = DataOctets(id, v)
      BY <2>1, <2>2, <2>4, <3>1, Zenon DEF BuiltData
    <3> HIDE DEF size
    <3>4. Even(DataOctets(id, v)) = Even(size) /\ size \in Nat
      BY <3>1, <1>DataPadded, Zenon DEF size
    <3>5. DataOctets(id, v) \in Nat
      <4>1. CASE id \in VariableIds
        BY <3>1, <4>1, <1>VariableOctets, Zenon
      <4>2. CASE id \notin VariableIds
        BY <3>1, <4>2, <1>SmallPadded, <1>FixedPadded, Zenon DEF MngIds, Padded
      <4> QED
        BY <4>1, <4>2, Zenon
    <3> QED
      BY <3>2, <3>3, <3>4, <3>5, Zenon
  <2>5. CASE action = "GET"
    <3>1. ~NeedsData(action, id)
      BY <2>5, Zenon DEF NeedsData
    <3>2. content = NoData
      BY <3>1, Zenon
    <3> DEFINE size == IF mng_size(id) = -2 THEN dataFieldSize(id, EmptyValue(id))
                       ELSE mng_size(id)
    <3>3. size \in Nat
      BY <1>SizeKinds, <1>EmptySize, Zenon
    <3>4. CASE m.useZeroGet
      <4>1. getMsgPlanedLen(m, content) = mngMsgBaseSize + AuthOctets(m)
        BY <2>5, <3>4, Zenon DEF getMsgPlanedLen
      <4>2. BuiltData(m, content) = 0
        BY <2>5, <3>4, Zenon DEF BuiltData
      <4>3. Even(0) + mngMsgBaseSize = mngMsgBaseSize
        BY <2>3 DEF mngMsgBaseSize
      <4> QED
        BY <2>3, <4>1, <4>2, <4>3, Zenon
    <3>5. CASE ~m.useZeroGet
      <4>1. getMsgPlanedLen(m, content) = Even(size) + mngMsgBaseSize + AuthOctets(m)
        BY <2>5, <3>5, Zenon DEF getMsgPlanedLen
      <4>2. BuiltData(m, content) = IF isEmpty(id) THEN 0 ELSE size
        BY <2>5, <3>5, Zenon DEF BuiltData
      <4>3. isEmpty(id) => size = 0
        BY <2>3, Zenon DEF isEmpty
      <4> HIDE DEF size
      <4>4. BuiltData(m, content) = size
        BY <4>2, <4>3, Zenon
      <4> QED
        BY <3>3, <4>1, <4>4, Zenon
    <3> QED
      BY <3>4, <3>5, Zenon
  <2>6. CASE action # "GET" /\ ~NeedsData(action, id)
    <3>1. mng_size(id) = 0
      <4>1. mng_size("NULL_PTP_MANAGEMENT") = 0
        BY Zenon DEF mng_size, EmptyIds, VariableIds, SmallIds
      <4> QED
        BY <2>6, <4>1, Zenon DEF NeedsData, isEmpty
    <3>2. content = NoData
      BY <2>6, Zenon
    <3>3. getMsgPlanedLen(m, content) = Even(0) + mngMsgBaseSize + AuthOctets(m)
      BY <2>3, <2>6, <3>1, <3>2, Zenon DEF getMsgPlanedLen
    <3>4. BuiltData(m, content) = 0
      BY <2>6, <3>2, Zenon DEF BuiltData
    <3> QED
      BY <2>3, <3>3, <3>4, Zenon
  <2> QED
    BY <2>4, <2>5, <2>6, Zenon
<1> TAKE linuxptp, zeroGet, digest \in BOOLEAN, mac \in Nat, id \in MngIds,
         action \in Actions
<1> TAKE v
<1> HAVE IsValue(id, v)
<1> DEFINE content == IF NeedsData(action, id) THEN [id |-> id, v |-> v] ELSE NoData
           new == NewMessage(linuxptp, zeroGet, mac)
           m == setAction(new, action, id, "data")
           len == getMsgPlanedLen(m, content)
           refused == NeedsData(action, id) /\ ~(TextFits(id, v) /\ Fits48(id, v))
<1>1. SUFFICES ASSUME CanSetAction(new, action, id, content)
               PROVE  /\ refused => build(m, content, len, digest).err \in {"TOO_SMALL", "VAL"}
                      /\ ~refused => FillsPlanned(m, content, digest)
  BY Zenon DEF BuiltAsPlanned
<1>2. action \in mng_allowed(id)
  BY <1>1, Zenon DEF CanSetAction, allowedAction
<1>3. content # NoData => NeedsData(action, id) /\ content.id = id /\ content.v = v
  BY Zenon
<1>4. /\ m = setAction(NewMessage(linuxptp, zeroGet, mac), action, id, "data")
      /\ content = IF NeedsData(action, id) THEN [id |-> id, v |-> v] ELSE NoData
      /\ len = getMsgPlanedLen(m, content)
  BY Zenon
<1> HIDE DEF content, new, m, len
<1>5. m.sendAction = action /\ m.tlv_id = id /\ m.mac = mac /\ m.useZeroGet = zeroGet
  BY <1>4, <1>SetActionFields
<1>6. PICK d \in Nat : /\ BuiltData(m, content) = d
                       /\ len = Even(d) + mngMsgBaseSize + AuthOctets(m)
  <2>1. m.useZeroGet \in BOOLEAN
    BY <1>5, Zenon
  <2>2. \E d \in Nat :
            /\ BuiltData(m, content) = d
            /\ getMsgPlanedLen(m, content) = Even(d) + mngMsgBaseSize + AuthOctets(m)
    BY <1>2, <1>4, <1>5, <2>1, <1>PlannedOctets, SMTT(30)
  <2> QED
    BY <1>4, <2>2, Zenon
<1>7. AuthOctets(m) \in Nat
  BY <1>5 DEF AuthOctets, authTlvSize
<1>8. ASSUME ~refused PROVE FillsPlanned(m, content, digest)
  <2>1. m.sendAction # "GET" /\ content # NoData =>
          /\ content.id = m.tlv_id
          /\ TextFits(m.tlv_id, content.v) /\ Fits48(m.tlv_id, content.v)
    BY <1>3, <1>5, <1>8, Zenon
  <2>2. /\ build(m, content, len, digest) =
             IF m.mac > 0 /\ ~digest THEN [err |-> "AUTH", len |-> 0]
             ELSE [err |-> "OK", len |-> len]
        /\ build(m, content, len - 1, digest).err = "TOO_SMALL"
    BY <1>6, <1>7, <2>1, <1>BuildFits, SMTT(30)
  <2> QED
    BY <1>4, <2>2, Zenon DEF FillsPlanned
<1>9. ASSUME refused PROVE build(m, content, len, digest).err \in {"TOO_SMALL", "VAL"}
  <2>1. action # "GET" /\ content = [id |-> id, v |-> v]
    BY <1>4, <1>9, Zenon DEF NeedsData
  <2>2. content # NoData
    <3>1. id # "none"
      BY <1>NoneIsNoId, Zenon
    <3> QED
      BY <2>1, <3>1 DEF NoData
  <2>3. content.id = m.tlv_id /\ m.sendAction # "GET"
    BY <1>3, <1>5, <2>1, <2>2, Zenon
  <2>4. ~(TextFits(m.tlv_id, content.v) /\ Fits48(m.tlv_id, content.v))
    BY <1>3, <1>5, <1>9, <2>2, Zenon
  <2>5. ASSUME id \in Ids48 PROVE len >= mngMsgBaseSize + End48(id)
    <3>1. len = Even(mng_size(id)) + mngMsgBaseSize + AuthOctets(m)
      <4>1. id \notin VariableIds
        BY <2>5, Zenon DEF Ids48, VariableIds
      <4>2. mng_size(id) # -2
        BY <4>1, <1>SizeKinds, Zenon
      <4> QED
        BY <1>4, <1>5, <2>1, <4>2, Zenon DEF getMsgPlanedLen
    <3>2. (id = "TIME" /\ mng_size(id) = 10)
          \/ (id = "ALTERNATE_TIME_OFFSET_PROPERTIES" /\ mng_size(id) = 16)
      <4>1. FixedSize.TIME = 10 /\ FixedSize.ALTERNATE_TIME_OFFSET_PROPERTIES = 16
        BY DEF FixedSize
      <4>2. id \notin EmptyIds /\ id \notin VariableIds /\ id \notin SmallIds
        BY <2>5, Zenon DEF Ids48, EmptyIds, VariableIds, SmallIds
      <4> QED
        BY <2>5, <4>1, <4>2, Zenon DEF Ids48, mng_size
    <3>3. Even(10) = 10 /\ Even(16) = 16
      BY DEF Even
    <3>4. (End48(id) = 6 /\ Even(mng_size(id)) = 10)
          \/ (End48(id) = 15 /\ Even(mng_size(id)) = 16)
      <4>1. "TIME" # "ALTERNATE_TIME_OFFSET_PROPERTIES" /\ 9 + 6 = 15
        OBVIOUS
      <4> QED
        BY <3>2, <3>3, <4>1, Zenon DEF End48
    <3> QED
      BY <1>7, <3>1, <3>4 DEF mngMsgBaseSize
  <2> QED
    BY <1>5, <2>2, <2>3, <2>4, <2>5, <1>BuildRefuses, Zenon
<1> QED
  BY <1>8, <1>9, Zenon

\* The values that PlanIsRight goes through.
LEMMA ValuesAreValues ==
  ASSUME NEW id, NEW v \in Values(id) PROVE IsValue(id, v)
<1> DEFINE e == EmptyValue(id)
           Texts == {"USER_DESCRIPTION", "ALTERNATE_TIME_OFFSET_NAME", "PORT_PROPERTIES_NP"}
<1>1. /\ id = "CLOCK_DESCRIPTION" => e = <<0, 0, 0, 0, 0, 0>>
      /\ id \in Texts => e = <<0>>
      /\ id # "CLOCK_DESCRIPTION" /\ id \notin Texts => e = <<>>
  BY Zenon DEF EmptyValue
<1>2. id \in AddressIds => id \in VariableIds /\ e = <<>>
  BY Zenon DEF AddressIds, VariableIds, EmptyValue
<1>3. IsValue(id, v) <=>
        /\ v \in Seq(Nat) /\ (e # <<>> => Len(v) = Len(e))
        /\ id \in AddressIds => \A i \in DOMAIN v : v[i] <= UINT16_MAX
  BY Zenon DEF IsValue
<1>n. id \in Ids48 => id \notin VariableIds
  BY Zenon DEF Ids48, VariableIds
<1>4. CASE id \notin VariableIds
  <2>1. v = <<>> \/ v = <<1>>
    BY <1>4, Zenon DEF Values
  <2>2. id # "CLOCK_DESCRIPTION" /\ id \notin Texts
    BY <1>4, Zenon DEF VariableIds
  <2>3. <<>> \in Seq(Nat) /\ <<1>> \in Seq(Nat)
    OBVIOUS
  <2> HIDE DEF e, Texts
  <2> QED
    BY <1>1, <1>2, <1>3, <1>4, <2>1, <2>2, <2>3, Zenon
<1>5. CASE id \in VariableIds /\ e # <<>>
  <2>1. v \in [DOMAIN e -> {0, 1, UINT8_MAX, UINT8_MAX + 1}]
    BY <1>5, <1>n, Zenon DEF Values
  <2> HIDE DEF e, Texts
  <2>2. DOMAIN e = 1 .. Len(e) /\ Len(e) \in Nat
    <3>1. e \in Seq(Nat)
      <4>1. <<0, 0, 0, 0, 0, 0>> \in Seq(Nat) /\ <<0>> \in Seq(Nat)
        OBVIOUS
      <4> QED
        BY <1>1, <1>5, <4>1, Zenon
    <3> QED
      BY <3>1
  <2>3. v \in Seq(Nat) /\ Len(v) = Len(e)
    BY <2>1, <2>2 DEF UINT8_MAX
  <2> QED
    BY <1>2, <1>3, <1>5, <2>3, Zenon
<1>6. CASE id \in VariableIds /\ e = <<>>
  <2>1. v \in UNION {[1 .. k -> {0, 1, 2, UINT16_MAX}] : k \in 0 .. 2}
    BY <1>6, <1>n, Zenon DEF Values
  <2>2. PICK k \in 0 .. 2 : v \in [1 .. k -> {0, 1, 2, UINT16_MAX}]
    BY <2>1, Zenon
  <2>3. v \in Seq(Nat) /\ \A i \in DOMAIN v : v[i] <= UINT16_MAX
    BY <2>2 DEF UINT16_MAX
  <2> HIDE DEF e
  <2> QED
    BY <1>3, <1>6, <2>3, Zenon
<1> QED
  BY <1>4, <1>5, <1>6, Zenon

\* With any of the settings that process can make, every message is as planned.
LEMMA PlansAreRight == \A zeroGet \in BOOLEAN, mac \in {0, 16, 32} : Plans[zeroGet][mac]
<1>1. ASSUME NEW zeroGet \in BOOLEAN, NEW mac \in {0, 16, 32}
      PROVE  PlanIsRight(zeroGet, mac)
  <2>1. mac \in Nat
    OBVIOUS
  <2>2. ASSUME NEW id \in MngIds, NEW action \in Actions, NEW digest \in BOOLEAN,
               NEW v \in Values(id)
        PROVE  BuiltAsPlanned(TRUE, zeroGet, mac, id, action, v, digest)
    <3>1. IsValue(id, v) /\ TRUE \in BOOLEAN
      BY ValuesAreValues, Zenon
    <3> QED
      BY <2>1, <3>1, MessagesFitAsPlanned, Zenon
  <2> QED
    BY <2>2, Zenon DEF PlanIsRight
<1> QED
  BY <1>1, Zenon DEF Plans

---------------------------------------------------------------------------
(* Sockets *)

\* The fields of an object and of the system.
SockFields(s) ==
    DOMAIN s = {"kind", "isInit", "fd", "me", "haveIf", "vals", "addr"}
SysFields(y) == DOMAIN y = {"bound", "names", "others"}

\* An object of one of the classes, with a name that setSelfAddress accepts.
IsSock(s) ==
    /\ SockFields(s)
    /\ s.kind \in Kinds /\ s.isInit \in BOOLEAN
    /\ s.addr \in {"any", "mcast"}
    /\ s.me \in Files \union Abstracts \union {NoName}

\* The system without a descriptor of the object.
NoneOpen(y) == SysFields(y) /\ DOMAIN y.bound = {} /\ y.others \subseteq y.names

\* The system with the descriptor of object s: only a Unix socket that is
\* initialised is bound to an abstract address, and to its own.
Owns(s, y) ==
    /\ SysFields(y) /\ DOMAIN y.bound = {s.fd} \ {NoFd}
    /\ y.others \subseteq y.names
    /\ s.fd # NoFd /\ ~(s.isInit /\ s.kind = UDS) => y.bound[s.fd] \notin Abstracts
    /\ s.isInit => s.fd # NoFd /\ y.bound[s.fd] # Unbound
    /\ s.isInit /\ s.kind = UDS =>
         y.bound[s.fd] = s.me /\ s.me \in y.names \ y.others

SockInv ==
    \/ sk = NoSock /\ NoneOpen(sys)
    \/ IsSock(sk) /\ Owns(sk, sys)

\* An object is told from none by its fields.
LEMMA SockIsSome == ASSUME NEW s, IsSock(s) PROVE s # NoSock
<1>1. s.kind # 0
  BY DEF IsSock, Kinds, UDS
<1>2. NoSock.kind = 0
  BY DEF NoSock
<1> QED
  BY <1>1, <1>2, Zenon

\* What SocketKeepsItsOwn says follows.
LEMMA SockInvOwn == SockInv => SocketKeepsItsOwn
<1>1. CASE sk = NoSock /\ NoneOpen(sys)
  BY <1>1, Zenon DEF NoneOpen, SocketKeepsItsOwn
<1>2. CASE IsSock(sk) /\ Owns(sk, sys)
  <2>1. sk # NoSock
    BY <1>2, SockIsSome, Zenon
  <2> QED
    BY <1>2, <2>1, Zenon DEF Owns, SocketKeepsItsOwn
<1> QED
  BY <1>1, <1>2, Zenon DEF SockInv

---------------------------------------------------------------------------
(* Settings *)

\* process makes its socket from nothing, of the network it chose.
ProcessInv ==
    /\ SockInv
    /\ pc \notin {"sockets", "done", "failed", "exit"} => sk = NoSock
    /\ pc = "socket" => net \in Kinds

\* It is kept by every step; the lemmas about the sockets are the first steps.
LEMMA ProcessInvariant == Spec => []ProcessInv
\* close(fd) leaves no descriptor, and takes no address from another program.
<1>ReleasedFree.
    ASSUME NEW s, NEW y, Owns(s, y)
    PROVE  /\ NoneOpen(Released(y, s.fd)) /\ Released(y, s.fd).others = y.others
           /\ s.isInit /\ s.kind = UDS /\ s.me \notin Abstracts =>
                s.me \notin Released(y, s.fd).others
  <2> USE <1>ReleasedFree
  <2>1. CASE s.fd = NoFd
    <3>1. Released(y, s.fd) = y
      BY <2>1, Zenon DEF Released
    <3> QED
      BY <2>1, <3>1, Zenon DEF Owns, NoneOpen
  <2>2. CASE s.fd # NoFd
    <3> DEFINE b == Restrict(y.bound, DOMAIN y.bound \ {s.fd})
               n == y.names \ ({y.bound[s.fd]} \cap Abstracts)
    <3>1. Released(y, s.fd) = [y EXCEPT !.bound = b, !.names = n]
      BY <2>2, Zenon DEF Released
    <3>3. DOMAIN b = {}
      <4>1. DOMAIN y.bound \ {s.fd} = {}
        BY Zenon DEF Owns
      <4> QED
        BY <4>1, Zenon DEF Restrict
    <3>4. y.others \subseteq n
      <4>1. y.bound[s.fd] \in Abstracts => y.bound[s.fd] \notin y.others
        BY <2>2, Zenon DEF Owns
      <4> QED
        BY <4>1, Zenon DEF Owns
    <3> HIDE DEF b, n
    <3> DEFINE r == Released(y, s.fd)
    <3>s. SysFields(y) /\ r = [y EXCEPT !.bound = b, !.names = n]
      BY <3>1, Zenon DEF Owns
    <3> HIDE DEF r
    <3>5. /\ SysFields(r) /\ r.bound = b /\ r.names = n /\ r.others = y.others
      BY <3>s, SMTT(40) DEF SysFields
    <3>6. NoneOpen(r) /\ r.others = y.others
      BY <3>3, <3>4, <3>5, Zenon DEF NoneOpen
    <3> QED
      BY <3>6, Zenon DEF Owns, r
  <2> QED
    BY <2>1, <2>2, Zenon
\* closeBase: what it unlinks is the object's own.
<1>CloseFree.
    ASSUME NEW s, NEW y, Owns(s, y)
    PROVE  NoneOpen(closeBase(s, y))
  <2> USE <1>CloseFree
  <2> DEFINE r == Released(y, s.fd)
             n == r.names \ {s.me}
  <2>1. /\ NoneOpen(r)
        /\ s.isInit /\ s.kind = UDS /\ s.me \notin Abstracts => s.me \notin r.others
    BY <1>ReleasedFree, Zenon
  <2>2. closeBase(s, y) = closeChild(s, r)
    BY Zenon DEF closeBase
  <2> HIDE DEF r
  <2>3. CASE s.kind = UDS /\ s.isInit /\ s.me \notin Abstracts
    <3>1. closeChild(s, r) = [r EXCEPT !.names = n]
      BY <2>3, Zenon DEF closeChild
    <3>2. r.others \subseteq n
      BY <2>1, <2>3, Zenon DEF NoneOpen
    <3> HIDE DEF n
    <3> DEFINE c == closeChild(s, r)
    <3>s. SysFields(r) /\ c = [r EXCEPT !.names = n]
      BY <2>1, <3>1, Zenon DEF NoneOpen
    <3> HIDE DEF c
    <3>3. SysFields(c) /\ c.bound = r.bound /\ c.names = n /\ c.others = r.others
      BY <3>s, SMTT(40) DEF SysFields
    <3>4. NoneOpen(c)
      BY <2>1, <3>2, <3>3, Zenon DEF NoneOpen
    <3> QED
      BY <2>2, <3>4, Zenon DEF c
  <2>4. CASE ~(s.kind = UDS /\ s.isInit /\ s.me \notin Abstracts)
    BY <2>1, <2>2, <2>4, Zenon DEF closeChild
  <2> QED
    BY <2>3, <2>4, Zenon
<1>ClosedOwns.
    ASSUME NEW s, IsSock(s), NEW y, NoneOpen(y)
    PROVE  IsSock(Closed(s)) /\ Owns(Closed(s), y)
  <2> USE <1>ClosedOwns
  <2> DEFINE c == Closed(s)
  <2>1. /\ SockFields(c) /\ c.kind = s.kind /\ c.addr = s.addr /\ c.me = s.me
        /\ c.fd = NoFd /\ c.isInit = FALSE
    <3>1. SockFields(s) /\ c = [s EXCEPT !.fd = NoFd, !.isInit = FALSE]
      BY Zenon DEF IsSock, Closed
    <3> HIDE DEF c
    <3> QED
      BY <3>1, SMTT(40) DEF SockFields
  <2> HIDE DEF c
  <2>2. IsSock(c)
    BY <2>1, Zenon DEF IsSock
  <2>3. Owns(c, y)
    BY <2>1, Zenon DEF Owns, NoneOpen
  <2> QED
    BY <2>2, <2>3, Zenon DEF c
\* bind is one of the calls, and the last one of a Unix socket.
<1>BindPosition.
    /\ Len(Calls(UDS)) = 2 /\ Position(UDS, "bind") = 2
    /\ \A kind \in Kinds : Position(kind, "bind") \in 1 .. Len(Calls(kind))
  <2>1. Calls(UDS) = UnixCalls
    BY DEF Calls, UDS
  <2>2. Len(UnixCalls) = 2 /\ DOMAIN UnixCalls = 1 .. 2 /\ UnixCalls[1] # "bind"
        /\ UnixCalls[2] = "bind"
    BY DEF UnixCalls
  <2>3. \A i \in 1 .. 2 : UnixCalls[i] = "bind" <=> i = 2
    BY <2>2
  <2>4. Position(UDS, "bind") = 2
    <3>1. 2 \in DOMAIN UnixCalls
      BY <2>2
    <3> QED
      BY <2>1, <2>2, <2>3, <3>1, Zenon DEF Position
  <2>5. ASSUME NEW kind \in Kinds, NEW i \in 1 .. Len(Calls(kind)),
               Calls(kind)[i] = "bind", DOMAIN Calls(kind) = 1 .. Len(Calls(kind))
        PROVE  Position(kind, "bind") \in 1 .. Len(Calls(kind))
    BY <2>5, Zenon DEF Position
  <2>6. ASSUME NEW kind \in {4, 6}
        PROVE  3 \in 1 .. Len(Calls(kind)) /\ Calls(kind)[3] = "bind"
               /\ DOMAIN Calls(kind) = 1 .. Len(Calls(kind))
    <3>1. Calls(4) = IpCalls \o Ip4Calls /\ Calls(6) = IpCalls \o Ip6Calls
      BY DEF Calls, UDS
    <3>2. (IpCalls \o Ip4Calls)[3] = "bind" /\ (IpCalls \o Ip6Calls)[3] = "bind"
      BY DEF IpCalls, Ip4Calls, Ip6Calls
    <3>3. Len(IpCalls \o Ip4Calls) = 8 /\ DOMAIN (IpCalls \o Ip4Calls) = 1 .. 8
      BY DEF IpCalls, Ip4Calls
    <3>4. Len(IpCalls \o Ip6Calls) = 9 /\ DOMAIN (IpCalls \o Ip6Calls) = 1 .. 9
      BY DEF IpCalls, Ip6Calls
    <3>5. 3 \in 1 .. 8 /\ 3 \in 1 .. 9
      OBVIOUS
    <3> QED
      BY <3>1, <3>2, <3>3, <3>4, <3>5, Zenon
  <2>7. 6 \in 1 .. Len(Calls(2)) /\ Calls(2)[6] = "bind"
        /\ DOMAIN Calls(2) = 1 .. Len(Calls(2))
    <3>1. Calls(2) = RawCalls
      BY DEF Calls, UDS
    <3> QED
      BY <3>1 DEF RawCalls
  <2>8. Position(UDS, "bind") \in 1 .. Len(Calls(UDS))
    BY <2>1, <2>2, <2>4
  <2>9. ASSUME NEW kind \in Kinds PROVE Position(kind, "bind") \in 1 .. Len(Calls(kind))
    <3>1. kind = UDS \/ kind = 2 \/ kind \in {4, 6}
      BY Zenon DEF Kinds
    <3> QED
      BY <2>5, <2>6, <2>7, <2>8, <3>1, Zenon
  <2> QED
    BY <2>1, <2>2, <2>4, <2>9, Zenon
\* init, with any number of calls that succeed: it starts from a closed socket,
\* and what it opens and binds is the object's.
<1>InitOwns.
    ASSUME NEW s, IsSock(s), Owns(s, sys), NEW n \in Nat, initBase(s, n)
    PROVE  IsSock(sk') /\ Owns(sk', sys')
  <2> USE <1>InitOwns
  <2> DEFINE y == closeBase(s, sys)
             fd == CHOOSE d \in Fds \ DOMAIN y.bound : TRUE
             success == n = Len(Calls(s.kind))
             bound == n >= Position(s.kind, "bind")
             address == IF bound THEN BindAddress(s) ELSE Unbound
             table == [d \in DOMAIN y.bound \union {fd} |->
                         IF d # fd THEN y.bound[d] ELSE address]
             names == IF bound /\ s.kind = UDS THEN y.names \union {s.me} ELSE y.names
             addr == IF success /\ s.kind \in {4, 6} THEN "mcast" ELSE s.addr
  <2>1. NoneOpen(y)
    BY <1>CloseFree, Zenon
  <2>2. CASE ~CanInit(s)
    <3>1. sk' = s /\ sys' = sys
      BY <2>2, Zenon DEF initBase
    <3> QED
      BY <3>1, Zenon
  <2>3. CASE CanInit(s) /\ n = 0
    <3>1. sk' = Closed(s) /\ sys' = y
      BY <2>3, Zenon DEF initBase
    <3> QED
      BY <2>1, <3>1, <1>ClosedOwns, Zenon
  <2>4. CASE CanInit(s) /\ n # 0
    <3>1. /\ MaySucceed(s, y, n)
          /\ sk' = [s EXCEPT !.fd = fd, !.isInit = success, !.addr = addr]
          /\ sys' = [y EXCEPT !.bound = table, !.names = names]
      BY <2>4, Zenon DEF initBase
    <3>2. fd \in Fds /\ fd # NoFd /\ DOMAIN table = {fd} /\ table[fd] = address
      <4>1. DOMAIN y.bound = {}
        BY <2>1, Zenon DEF NoneOpen
      <4>2. Fds # {}
        BY <2>4, <3>1, <4>1, Zenon DEF MaySucceed
      <4>3. fd \in Fds
        BY <4>1, <4>2, Zenon
      <4>4. fd # NoFd
        BY <4>3, FdsAssumption, Zenon DEF NoFd
      <4> HIDE DEF fd, address
      <4> QED
        BY <4>1, <4>3, <4>4, Zenon
    <3>3. /\ s.kind = UDS => (success <=> bound)
          /\ success => bound
      <4>1. /\ n \in 0 .. Len(Calls(s.kind))
            /\ Position(s.kind, "bind") \in 1 .. Len(Calls(s.kind))
        BY <3>1, <1>BindPosition, Zenon DEF MaySucceed, IsSock
      <4>2. s.kind = UDS => Position(s.kind, "bind") = 2 /\ Len(Calls(s.kind)) = 2
        BY <1>BindPosition, Zenon
      <4>3. ASSUME NEW l, NEW p \in 1 .. l, n \in 0 .. l
            PROVE  (p = 2 /\ l = 2 => (n = l <=> n >= p)) /\ (n = l => n >= p)
        BY <4>3
      <4> QED
        BY <4>1, <4>2, <4>3, Zenon
    <3>4. s.kind = UDS => s.me \in Files \union Abstracts
      <4>1. s.kind = UDS => s.me # NoName
        BY <2>4 DEF CanInit, UDS
      <4> QED
        BY <4>1, Zenon DEF IsSock
    <3>5. s.kind = UDS /\ bound => s.me \notin y.names
      <4>1. s.kind = UDS /\ s.me \in y.names => n < Position(UDS, "bind")
        BY <3>1, Zenon DEF MaySucceed
      <4> QED
        BY <4>1, <1>BindPosition
    <3>6. /\ s.kind = UDS => BindAddress(s) = s.me
          /\ s.kind # UDS => BindAddress(s) \in {"device", "any", "mcast"}
      BY DEF BindAddress, IsSock, Kinds, UDS
    <3>7. /\ Unbound \notin Files \union Abstracts
          /\ {"device", "any", "mcast"} \cap Abstracts = {}
          /\ Unbound \notin {"device", "any", "mcast"}
      <4>1. Unbound \notin {"device", "any", "mcast"}
        BY DEF Unbound
      <4> QED
        BY <4>1, AddressAssumption, Zenon
    <3>8. /\ SockFields(sk') /\ sk'.kind = s.kind /\ sk'.me = s.me
          /\ sk'.fd = fd /\ sk'.isInit = success /\ sk'.addr = addr
      <4>1. SockFields(s)
        BY Zenon DEF IsSock
      <4> HIDE DEF fd, success, addr
      <4> QED
        BY <3>1, <4>1, SMTT(40) DEF SockFields
    <3>9. /\ SysFields(sys') /\ sys'.bound = table /\ sys'.names = names
          /\ sys'.others = y.others
      <4>1. SysFields(y)
        BY <2>1, Zenon DEF NoneOpen
      <4> HIDE DEF y, table, names
      <4> QED
        BY <3>1, <4>1, SMTT(40) DEF SysFields
    <3>10. addr \in {"any", "mcast"} /\ success \in BOOLEAN
      BY Zenon DEF IsSock
    <3>11. y.others \subseteq y.names
      BY <2>1, Zenon DEF NoneOpen
    <3>12. address = IF bound THEN BindAddress(s) ELSE Unbound
      BY Zenon
    <3>13. y.names \subseteq names /\ (bound /\ s.kind = UDS => s.me \in names)
      BY Zenon
    <3> HIDE DEF y, fd, success, bound, address, table, names, addr
    <3>14. IsSock(sk')
      BY <3>8, <3>10, Zenon DEF IsSock
    <3>15. /\ ~(success /\ s.kind = UDS) => address \notin Abstracts
           /\ success => address # Unbound
           /\ success /\ s.kind = UDS =>
                address = s.me /\ s.me \in names /\ s.me \notin y.others
      BY <3>3, <3>4, <3>5, <3>6, <3>7, <3>11, <3>12, <3>13, Zenon
    <3>16. Owns(sk', sys')
      <4>1. DOMAIN sys'.bound = {sk'.fd} \ {NoFd} /\ sys'.bound[sk'.fd] = address
            /\ sk'.fd # NoFd
        BY <3>2, <3>8, <3>9, Zenon
      <4>2. sys'.others \subseteq sys'.names
        BY <3>9, <3>11, <3>13, Zenon
      <4> QED
        BY <3>8, <3>9, <3>15, <4>1, <4>2, Zenon DEF Owns
    <3> QED
      BY <3>14, <3>16
  <2> QED
    BY <2>2, <2>3, <2>4, Zenon
\* A setter, of an object whose name can only change before it is initialised.
<1>SetterOwns.
    ASSUME NEW s, NEW y, IsSock(s), Owns(s, y), NEW t, SockFields(t),
           t.kind = s.kind, t.isInit = s.isInit, t.fd = s.fd, t.addr = s.addr,
           \/ t.me = s.me
           \/ ~s.isInit /\ t.me \in Files \union Abstracts \union {NoName}
    PROVE  IsSock(t) /\ Owns(t, y)
  <2> USE <1>SetterOwns
  <2>1. IsSock(t)
    BY Zenon DEF IsSock
  <2>2. Owns(t, y)
    BY Zenon DEF Owns
  <2> QED
    BY <2>1, <2>2
\* A new object has no descriptor.
<1>NewSockOwns.
    ASSUME NEW kind \in Kinds, NEW y, NoneOpen(y), NEW s, SockFields(s), s.kind = kind,
           s.isInit = FALSE, s.fd = NoFd, s.addr = "any",
           s.me \in Files \union Abstracts \union {NoName}
    PROVE  IsSock(s) /\ Owns(s, y)
  <2> USE <1>NewSockOwns
  <2>1. IsSock(s)
    BY Zenon DEF IsSock
  <2>2. Owns(s, y)
    BY Zenon DEF Owns, NoneOpen
  <2> QED
    BY <2>1, <2>2
<1>NewSockFields.
    ASSUME NEW kind
    PROVE  /\ SockFields(NewSock(kind)) /\ NewSock(kind).kind = kind
           /\ NewSock(kind).isInit = FALSE /\ NewSock(kind).fd = NoFd
           /\ NewSock(kind).addr = "any" /\ NewSock(kind).me = NoName
  BY <1>NewSockFields DEF SockFields, NewSock
<1>SetSockOwns.
    ASSUME IsSock(sk), Owns(sk, sys), setSock
    PROVE  SockInv'
  <2> USE <1>SetSockOwns
  <2>s. SockFields(sk) /\ sys' = sys
    BY Zenon DEF IsSock, setSock
  <2>1. ASSUME NEW key, NEW val, sk' = Set(sk, key, val) PROVE IsSock(sk') /\ Owns(sk', sys)
    <3>1. CASE sk' = sk
      BY <3>1, Zenon
    <3>2. CASE sk' = [sk EXCEPT !.vals[key] = val]
      <4>1. SockFields(sk') /\ sk'.kind = sk.kind /\ sk'.isInit = sk.isInit
            /\ sk'.fd = sk.fd /\ sk'.addr = sk.addr /\ sk'.me = sk.me
        BY <2>s, <3>2, SMTT(40) DEF SockFields
      <4> QED
        BY <4>1, <1>SetterOwns, Zenon
    <3> QED
      BY <2>1, <3>1, <3>2, Zenon DEF Set
  <2>2. ASSUME NEW name \in Files \union Abstracts \union {NoName},
               sk' = setSelfAddress(sk, name)
        PROVE  IsSock(sk') /\ Owns(sk', sys)
    <3>1. CASE sk' = sk
      BY <3>1, Zenon
    <3>2. CASE ~sk.isInit /\ sk' = [sk EXCEPT !.me = name]
      <4>1. SockFields(sk') /\ sk'.kind = sk.kind /\ sk'.isInit = sk.isInit
            /\ sk'.fd = sk.fd /\ sk'.addr = sk.addr /\ sk'.me = name
        BY <2>s, <3>2, SMTT(40) DEF SockFields
      <4> QED
        BY <3>2, <4>1, <1>SetterOwns, Zenon
    <3> QED
      BY <2>2, <3>1, <3>2, Zenon DEF setSelfAddress
  <2>3. ASSUME NEW found, sk' = setIf(sk, found) PROVE IsSock(sk') /\ Owns(sk', sys)
    <3>1. CASE sk' = sk
      BY <3>1, Zenon
    <3>2. CASE sk' = [sk EXCEPT !.haveIf = TRUE]
      <4>1. SockFields(sk') /\ sk'.kind = sk.kind /\ sk'.isInit = sk.isInit
            /\ sk'.fd = sk.fd /\ sk'.addr = sk.addr /\ sk'.me = sk.me
        BY <2>s, <3>2, SMTT(40) DEF SockFields
      <4> QED
        BY <4>1, <1>SetterOwns, Zenon
    <3> QED
      BY <2>3, <3>1, <3>2, Zenon DEF setIf
  <2>4. IsSock(sk') /\ Owns(sk', sys)
    BY <2>1, <2>2, <2>3, Zenon DEF setSock
  <2> QED
    BY <2>s, <2>4, Zenon DEF SockInv
\* Other programs: they only take what is free and only give up their own.
<1>OthersOwns.
    ASSUME SockInv, NEW name, otherBinds(name) \/ otherEnds(name)
    PROVE  SockInv'
  <2> USE <1>OthersOwns
  <2>1. /\ SysFields(sys) /\ sys.others \subseteq sys.names /\ sk' = sk
        /\ \/ sk = NoSock /\ DOMAIN sys.bound = {}
           \/ IsSock(sk) /\ Owns(sk, sys)
    BY Zenon DEF SockInv, NoneOpen, Owns, otherBinds, otherEnds
  <2>r. ASSUME NEW n, NEW o, sys' = [sys EXCEPT !.names = n, !.others = o]
        PROVE  SysFields(sys') /\ sys'.bound = sys.bound /\ sys'.names = n
               /\ sys'.others = o
    BY <2>1, <2>r, SMTT(40) DEF SysFields
  <2>2. \/ /\ name \notin sys.names
           /\ sys' = [sys EXCEPT !.names = sys.names \union {name},
                                 !.others = sys.others \union {name}]
        \/ /\ name \in sys.others
           /\ sys' = [sys EXCEPT !.names = sys.names \ {name},
                                 !.others = sys.others \ {name}]
    BY Zenon DEF otherBinds, otherEnds
  <2>3. SysFields(sys') /\ sys'.bound = sys.bound
    BY <2>2, <2>r, Zenon
  <2>4. \/ /\ name \notin sys.names /\ sys'.names = sys.names \union {name}
           /\ sys'.others = sys.others \union {name}
        \/ /\ name \in sys.others /\ sys'.names = sys.names \ {name}
           /\ sys'.others = sys.others \ {name}
    BY <2>2, <2>r, Zenon
  <2>5. sys'.others \subseteq sys'.names
        /\ \A x \in sys.names \ sys.others : x \in sys'.names \ sys'.others
    BY <2>1, <2>4, Zenon
  <2>6. CASE sk = NoSock /\ DOMAIN sys.bound = {}
    BY <2>1, <2>3, <2>5, <2>6, Zenon DEF SockInv, NoneOpen
  <2>7. CASE IsSock(sk) /\ Owns(sk, sys)
    <3>1. Owns(sk, sys')
      BY <2>3, <2>5, <2>7, Zenon DEF Owns
    <3> QED
      BY <2>1, <2>7, <3>1, Zenon DEF SockInv
  <2> QED
    BY <2>1, <2>6, <2>7, Zenon
\* An application that uses a socket by itself.
<1>SockNextOwns.
    ASSUME SockInv, SockNext
    PROVE  SockInv'
  <2> USE <1>SockNextOwns
  <2>1. CASE \E kind \in Kinds : newSock(kind)
    <3>1. PICK kind \in Kinds : newSock(kind)
      BY <2>1, Zenon
    <3>2. NoneOpen(sys) /\ sk' = NewSock(kind) /\ sys' = sys
      BY <3>1, SockIsSome, Zenon DEF SockInv, newSock
    <3>3. IsSock(sk') /\ Owns(sk', sys)
      BY <3>2, <1>NewSockFields, <1>NewSockOwns, Zenon
    <3> QED
      BY <3>2, <3>3, Zenon DEF SockInv
  <2>2. ASSUME sk # NoSock PROVE IsSock(sk) /\ Owns(sk, sys)
    BY <2>2, Zenon DEF SockInv
  <2>3. CASE sk # NoSock /\ setSock
    BY <2>2, <2>3, <1>SetSockOwns
  <2>4. CASE sk # NoSock /\ closeSock
    <3>1. sk' = Closed(sk) /\ sys' = closeBase(sk, sys)
      BY <2>4, Zenon DEF closeSock
    <3>2. IsSock(Closed(sk)) /\ Owns(Closed(sk), closeBase(sk, sys))
      BY <2>2, <2>4, <1>CloseFree, <1>ClosedOwns, Zenon
    <3> QED
      BY <3>1, <3>2, Zenon DEF SockInv
  <2>5. CASE sk # NoSock /\ deleteSock
    <3>1. sk' = NoSock /\ sys' = Released(sys, sk.fd)
      BY <2>5, Zenon DEF deleteSock
    <3>2. NoneOpen(Released(sys, sk.fd))
      BY <2>2, <2>5, <1>ReleasedFree, Zenon
    <3> QED
      BY <3>1, <3>2, Zenon DEF SockInv
  <2>6. ASSUME sk # NoSock, NEW n \in 0 .. Len(Calls(sk.kind)), initBase(sk, n)
        PROVE  SockInv'
    <3>1. n \in Nat
      OBVIOUS
    <3> QED
      BY <2>2, <2>6, <3>1, <1>InitOwns, Zenon DEF SockInv
  <2>7. ASSUME NEW name, otherBinds(name) \/ otherEnds(name) PROVE SockInv'
    BY <2>7, <1>OthersOwns, Zenon
  <2> QED
    BY <2>1, <2>3, <2>4, <2>5, <2>6, <2>7, Zenon DEF SockNext
\* The object that process makes is closed.
<1>ProcessSocketOwns.
    ASSUME ProcessInv, NEW n \in Nat, process_socket(n)
    PROVE  IsSock(sk') /\ Owns(sk', sys')
  <2> USE <1>ProcessSocketOwns
  <2> DEFINE v == SockVals(net)
             ok == SockAccepts(v)
             s == [NewSock(net) EXCEPT
                     !.haveIf = net # UDS, !.vals = IF ok THEN v ELSE NewSock(net).vals,
                     !.me = IF net = UDS THEN SelfAddress ELSE NewSock(net).me]
  <2>1. pc = "socket" /\ (initBase(s, n) \/ (sk' = s /\ sys' = sys))
    BY Zenon DEF process_socket
  <2>2. sk = NoSock /\ net \in Kinds
    <3>1. pc \notin {"sockets", "done", "failed", "exit"}
      BY <2>1
    <3> QED
      BY <2>1, <3>1, Zenon DEF ProcessInv
  <2>3. NoneOpen(sys)
    BY <2>2, SockIsSome, Zenon DEF ProcessInv, SockInv
  <2>4. SelfAddress \in Files
    BY AddressAssumption, Zenon DEF SelfAddress
  <2>5. /\ SockFields(s) /\ s.kind = net /\ s.isInit = FALSE /\ s.fd = NoFd
        /\ s.addr = "any" /\ (s.me = SelfAddress \/ s.me = NoName)
    <3> DEFINE x == IF ok THEN v ELSE NewSock(net).vals
               m == IF net = UDS THEN SelfAddress ELSE NewSock(net).me
               h == net # UDS
               o == NewSock(net)
    <3>1. s = [o EXCEPT !.haveIf = h, !.vals = x, !.me = m]
      BY Zenon
    <3>2. m = SelfAddress \/ m = NoName
      BY <1>NewSockFields, Zenon
    <3>3. /\ SockFields(o) /\ o.kind = net /\ o.isInit = FALSE /\ o.fd = NoFd
          /\ o.addr = "any"
      BY <1>NewSockFields, Zenon
    <3> HIDE DEF s, x, m, h, o
    <3>4. /\ SockFields(s) /\ s.kind = o.kind /\ s.isInit = o.isInit /\ s.fd = o.fd
          /\ s.addr = o.addr /\ s.me = m
      BY <3>1, <3>3, SMTT(40) DEF SockFields
    <3> QED
      BY <3>2, <3>3, <3>4, Zenon
  <2> HIDE DEF s
  <2>6. IsSock(s) /\ Owns(s, sys)
    BY <2>2, <2>3, <2>4, <2>5, <1>NewSockOwns, Zenon
  <2> QED
    BY <2>1, <2>6, <1>InitOwns, Zenon
<1>1. Init => ProcessInv
  <2> SUFFICES ASSUME Init PROVE ProcessInv
    OBVIOUS
  <2>1. sk = NoSock /\ sys = [bound |-> Empty, names |-> {}, others |-> {}]
    BY Zenon DEF Init, SockInit
  <2>2. NoneOpen(sys)
    BY <2>1 DEF NoneOpen, SysFields, Empty
  <2>3. pc # "socket"
    BY DEF Init
  <2> QED
    BY <2>1, <2>2, <2>3, Zenon DEF ProcessInv, SockInv
<1>2. ProcessInv /\ [Next]_vars => ProcessInv'
  <2> SUFFICES ASSUME ProcessInv, [Next]_vars PROVE ProcessInv'
    OBVIOUS
  <2>s. ASSUME UNCHANGED <<sk, sys>> PROVE SockInv'
    <3>1. (sk = NoSock)' <=> sk = NoSock
      BY <2>s, Zenon
    <3>2. NoneOpen(sys') <=> NoneOpen(sys)
      BY <2>s, Zenon
    <3>3. (IsSock(sk') <=> IsSock(sk)) /\ (Owns(sk', sys') <=> Owns(sk, sys))
      BY <2>s, Zenon
    <3> QED
      BY <3>1, <3>2, <3>3, Zenon DEF ProcessInv, SockInv
  <2>1. CASE \/ \E line \in CfgLines : cfg_read(line)
             \/ \E line \in SaLines : sa_read(line)
             \/ sa_eof
             \/ \E a \in Args : parse_option(a[1], a[2])
             \/ process_cfg \/ process_cfg_line \/ process_cfg_eof
             \/ process_auth \/ process_sa_line \/ process_sa_eof
             \/ \E hmac \in BOOLEAN : process_key(hmac)
    <3> DEFINE Before == /\ UNCHANGED <<sk, sys>> /\ pc' # "socket"
                         /\ pc \notin {"sockets", "done", "failed", "exit"}
    <3>1. ASSUME NEW line, cfg_read(line) \/ sa_read(line) PROVE Before
      BY <3>1 DEF cfg_read, sa_read, cfg_turn, sa_turn, socket
    <3>2. ASSUME sa_eof \/ process_cfg \/ process_cfg_eof PROVE Before
      BY <3>2 DEF sa_eof, process_cfg, process_cfg_eof, fail, socket
    <3>3. ASSUME NEW c, NEW v, parse_option(c, v) PROVE Before
      BY <3>3 DEF parse_option, socket
    <3>4. ASSUME NEW hmac, process_key(hmac) PROVE Before
      BY <3>4 DEF process_key, fail, socket
    <3>5. ASSUME process_cfg_line \/ process_sa_line PROVE Before
      BY <3>5 DEF process_cfg_line, process_sa_line, cfg_turn, sa_turn, socket
    <3>6. ASSUME process_auth PROVE Before
      BY <3>6 DEF process_auth, open_sa, fail, socket
    <3>7. ASSUME process_sa_eof PROVE Before
      BY <3>7 DEF process_sa_eof, open_sa, fail, socket
    <3>8. Before
      <4> HIDE DEF Before
      <4> QED
        BY <2>1, <3>1, <3>2, <3>3, <3>4, <3>5, <3>6, <3>7, Zenon
    <3> QED
      BY <2>s, <3>8, Zenon DEF ProcessInv
  <2>2. ASSUME NEW found, process_net(found) PROVE ProcessInv'
    <3>1. UNCHANGED <<sk, sys>> /\ pc = "net" /\ net' \in Kinds
      <4>1. UNCHANGED <<sk, sys>> /\ pc = "net"
        BY <2>2, Zenon DEF process_net, socket
      <4>2. PICK m : net' = IF m \in Kinds THEN m ELSE 4
        BY <2>2, Zenon DEF process_net
      <4>3. 4 \in Kinds
        BY DEF Kinds
      <4> QED
        BY <4>1, <4>2, <4>3, Zenon
    <3>2. pc \notin {"sockets", "done", "failed", "exit"}
      BY <3>1
    <3> QED
      BY <2>s, <3>1, <3>2, Zenon DEF ProcessInv
  <2>3. ASSUME NEW n \in 0 .. Len(Calls(6)), process_socket(n) PROVE ProcessInv'
    <3>1. IsSock(sk') /\ Owns(sk', sys')
      <4>1. n \in Nat
        OBVIOUS
      <4> QED
        BY <2>3, <4>1, <1>ProcessSocketOwns, Zenon
    <3>2. pc' = "done" \/ pc' = "failed"
      BY <2>3, Zenon DEF process_socket, fail
    <3>3. pc' \in {"sockets", "done", "failed", "exit"} /\ pc' # "socket"
      BY <3>2
    <3> QED
      BY <3>1, <3>3, Zenon DEF ProcessInv, SockInv
  <2>4. CASE close
    <3>1. pc' \in {"sockets", "done", "failed", "exit"} /\ pc' # "socket"
      BY <2>4 DEF close
    <3>2. CASE UNCHANGED <<sk, sys>>
      BY <2>s, <3>1, <3>2, Zenon DEF ProcessInv
    <3>3. CASE sk # NoSock /\ closeSock
      <4>1. SockNext
        BY <3>3, Zenon DEF SockNext
      <4> QED
        BY <3>1, <4>1, <1>SockNextOwns, Zenon DEF ProcessInv
    <3> QED
      BY <2>4, <3>2, <3>3, Zenon DEF close, socket
  <2>5. CASE use_socket
    <3>1. SockNext /\ pc = "sockets" /\ pc' = "sockets"
      BY <2>5, Zenon DEF use_socket
    <3>2. pc' \in {"sockets", "done", "failed", "exit"} /\ pc' # "socket"
      BY <3>1
    <3> QED
      BY <3>1, <3>2, <1>SockNextOwns, Zenon DEF ProcessInv
  <2>6. CASE UNCHANGED vars
    <3>1. UNCHANGED <<sk, sys>> /\ UNCHANGED <<pc, net>>
      BY <2>6, Zenon DEF vars
    <3> QED
      BY <2>s, <3>1, Zenon DEF ProcessInv
  <2> QED
    BY <2>1, <2>2, <2>3, <2>4, <2>5, <2>6, Zenon DEF Next
<1> QED
  BY <1>1, <1>2, PTL DEF Spec

\* Whatever system calls fail, in whatever order a socket is set up, initialised,
\* closed, deleted and made again, and whatever addresses other programs take
\* meanwhile: the only open descriptor is the object's, an initialised Unix socket
\* is bound to its own address, and no other program's address is unlinked.
THEOREM SocketsKeepTheirOwn == Spec => []SocketKeepsItsOwn
<1>1. ProcessInv => SocketKeepsItsOwn
  BY SockInvOwn, Zenon DEF ProcessInv
<1> QED
  BY <1>1, ProcessInvariant, PTL

---------------------------------------------------------------------------
(* Authentication *)

\* The steps of process before the Message has a key.
Reading == {"options", "cfg", "auth", "sa_F", "sa_cfg", "key"}

\* The Message, and the parameters that are to become its own, after
\* process_key has passed, or process_auth without an spp.
Told ==
    /\ auth.haveAuth <=> Spp # -1
    /\ auth.haveAuth => /\ have(auth.spps, Spp, Key)
                        /\ msg.mac = auth.spps[Spp][Key]
                        /\ prms.minorVersion >= 1
    /\ prms.ignore <=> auth.haveAuth /\ allow > 0

\* Before it nothing is set, and until the end the Message has the parameters of
\* a new one.
AuthInv ==
    /\ {"mac", "useZeroGet"} \subseteq DOMAIN msg
    /\ {"ignore", "minorVersion", "transportSpecific"} \subseteq DOMAIN prms
    /\ pc \in Reading =>
         ~auth.haveAuth /\ prms = NewParams /\ params = NewParams
    /\ pc \in {"sa_F", "sa_cfg", "key"} => Spp # -1
    /\ pc \in {"net", "socket"} => Told /\ params = NewParams
    /\ pc = "socket" =>
         prms.transportSpecific = option("t", "transportSpecific") % 256
    /\ AuthenticatesAsTold

\* It is kept by every step; what each step of process tells the Message comes first.
LEMMA AuthInvariant == Spec => []AuthInv
\* What the settings ask for is the same as long as they are.
<1>SameSettings.
    ASSUME UNCHANGED <<opts, cfg>>
    PROVE  Spp' = Spp /\ Key' = Key
           /\ (option("t", "transportSpecific") % 256)' =
                option("t", "transportSpecific") % 256
  <2> USE <1>SameSettings
  <2>1. Spp' = Spp
    BY Zenon DEF Spp, given
  <2>2. Key' = Key
    BY Zenon DEF Key, option, given
  <2>3. (option("t", "transportSpecific") % 256)' = option("t", "transportSpecific") % 256
    BY Zenon DEF option, given
  <2> QED
    BY <2>1, <2>2, <2>3, Zenon
<1>NewParamsFields.
    /\ {"ignore", "minorVersion", "transportSpecific"} \subseteq DOMAIN NewParams
    /\ NewParams.ignore = FALSE /\ NewParams.minorVersion = 0
  BY DEF NewParams
<1>ProcessAuthTold.
    ASSUME AuthInv, process_auth
    PROVE  AuthInv'
  <2> USE <1>ProcessAuthTold
  <2>1. pc = "auth" /\ UNCHANGED <<opts, cfg, auth, msg, params, prms>>
    BY Zenon DEF process_auth, options, message
  <2>2. Spp' = Spp /\ Key' = Key
    BY <2>1, <1>SameSettings, Zenon
  <2>3. ~auth.haveAuth /\ prms = NewParams /\ params = NewParams
    <3>1. pc \in Reading
      BY <2>1 DEF Reading
    <3> QED
      BY <3>1, Zenon DEF AuthInv
  <2>4. CASE Spp = -1 /\ pc' = "net"
    <3>1. Told'
      BY <2>1, <2>2, <2>3, <2>4, <1>NewParamsFields, Zenon DEF Told
    <3>2. /\ pc' \notin Reading /\ pc' # "done" /\ pc' \notin {"sa_F", "sa_cfg", "key"}
          /\ pc' # "socket"
      BY <2>4 DEF Reading
    <3> QED
      BY <2>1, <2>3, <2>4, <3>1, <3>2, Zenon DEF AuthInv, AuthenticatesAsTold
  <2>5. CASE pc' = "failed" \/ (Spp \in 0 .. 255 /\ pc' \in {"sa_F", "sa_cfg"})
    <3>1. pc' \notin {"net", "socket"} /\ pc' # "done" /\ pc' # "socket"
      BY <2>5
    <3>2. pc' \in {"sa_F", "sa_cfg", "key"} => Spp # -1
      BY <2>5
    <3> QED
      BY <2>1, <2>2, <2>3, <3>1, <3>2, Zenon DEF AuthInv, AuthenticatesAsTold
  <2>6. (Spp = -1 /\ pc' = "net") \/ pc' = "failed"
        \/ (Spp \in 0 .. 255 /\ (pc' = "sa_F" \/ pc' = "sa_cfg"))
    BY Zenon DEF process_auth, open_sa, fail
  <2>7. pc' = "sa_F" \/ pc' = "sa_cfg" => pc' \in {"sa_F", "sa_cfg"}
    BY Zenon
  <2> QED
    BY <2>4, <2>5, <2>6, <2>7, Zenon
<1>ProcessKeyTold.
    ASSUME AuthInv, NEW hmac, process_key(hmac)
    PROVE  AuthInv'
  <2> USE <1>ProcessKeyTold
  <2>1. pc = "key" /\ UNCHANGED <<opts, cfg, params>>
    BY Zenon DEF process_key, options, files
  <2>2. Spp' = Spp /\ Key' = Key
    BY <2>1, <1>SameSettings, Zenon
  <2>3. ~auth.haveAuth /\ prms = NewParams /\ params = NewParams
    <3>1. pc \in Reading
      BY <2>1 DEF Reading
    <3> QED
      BY <3>1, Zenon DEF AuthInv
  <2>4. Spp # -1
    <3>1. pc \in {"sa_F", "sa_cfg", "key"}
      BY <2>1
    <3> QED
      BY <3>1, Zenon DEF AuthInv
  <2>5. CASE pc' = "failed" /\ UNCHANGED <<auth, msg, allow, prms>>
    <3>1. /\ pc' \notin Reading /\ pc' \notin {"net", "socket"} /\ pc' # "done"
          /\ pc' \notin {"sa_F", "sa_cfg", "key"} /\ pc' # "socket"
      BY <2>5 DEF Reading
    <3> QED
      BY <2>5, <3>1, Zenon DEF AuthInv, AuthenticatesAsTold
  <2>6. CASE /\ have(loaded, Spp, Key)
             /\ auth' = [haveAuth |-> TRUE, sppID |-> Spp, keyID |-> Key, spps |-> loaded]
             /\ msg' = [msg EXCEPT !.mac = loaded[Spp][Key]]
             /\ prms' = [prms EXCEPT !.ignore = prms.ignore \/ allow' > 0,
                                     !.minorVersion = 1]
             /\ pc' = "net"
    <3>2. auth'.haveAuth = TRUE /\ auth'.spps = loaded
      BY <2>6
    <3>3. DOMAIN msg' = DOMAIN msg /\ msg'.mac = loaded[Spp][Key]
      <4>1. "mac" \in DOMAIN msg
        BY Zenon DEF AuthInv
      <4> QED
        BY <2>6, <4>1, Zenon
    <3>4. /\ DOMAIN prms' = DOMAIN prms /\ prms'.minorVersion = 1
          /\ prms'.ignore <=> allow' > 0
      <4> DEFINE i == prms.ignore \/ allow' > 0
      <4>1. i <=> allow' > 0
        BY <2>3, <1>NewParamsFields, Zenon
      <4>2. prms' = [prms EXCEPT !.ignore = i, !.minorVersion = 1]
        BY <2>6, Zenon
      <4>3. "ignore" \in DOMAIN prms /\ "minorVersion" \in DOMAIN prms
        BY Zenon DEF AuthInv
      <4> HIDE DEF i
      <4>4. DOMAIN prms' = DOMAIN prms /\ prms'.minorVersion = 1 /\ prms'.ignore = i
        BY <4>2, <4>3
      <4> QED
        BY <4>1, <4>4, Zenon
    <3>5. prms'.minorVersion >= 1
      BY <3>4
    <3>6. Told'
      BY <2>2, <2>4, <2>6, <3>2, <3>3, <3>4, <3>5, Zenon DEF Told
    <3>7. /\ pc' \notin Reading /\ pc' # "done" /\ pc' \notin {"sa_F", "sa_cfg", "key"}
          /\ pc' # "socket"
      BY <2>6 DEF Reading
    <3> QED
      BY <2>1, <2>3, <3>3, <3>4, <3>6, <3>7, Zenon DEF AuthInv, AuthenticatesAsTold
  <2> QED
    BY <2>5, <2>6, Zenon DEF process_key, fail, useAuth
<1>ProcessNetTold.
    ASSUME AuthInv, NEW found, process_net(found)
    PROVE  AuthInv'
  <2> USE <1>ProcessNetTold
  <2>1. /\ pc = "net" /\ (pc' = "failed" \/ pc' = "socket")
        /\ UNCHANGED <<opts, cfg, auth, msg, params, allow>>
    BY Zenon DEF process_net, fail, files, message
  <2>2. Spp' = Spp /\ Key' = Key
        /\ (option("t", "transportSpecific") % 256)' =
             option("t", "transportSpecific") % 256
    BY <2>1, <1>SameSettings, Zenon
  <2>3. Told /\ params = NewParams
    <3>1. pc \in {"net", "socket"}
      BY <2>1
    <3> QED
      BY <3>1, Zenon DEF AuthInv
  <2>4. /\ DOMAIN prms' = DOMAIN prms /\ prms'.ignore = prms.ignore
        /\ prms'.minorVersion = prms.minorVersion
        /\ pc' = "socket" =>
             prms'.transportSpecific = option("t", "transportSpecific") % 256
    <3>1. {"ignore", "minorVersion", "transportSpecific"} \subseteq DOMAIN prms
      BY Zenon DEF AuthInv
    <3> DEFINE n == IF net = 0 THEN global(cfg, "network_transport") ELSE net
               a == IF n = UDS THEN "pid" ELSE "mac"
               b == IF given("b") THEN opts["b"] % 256 ELSE 1
               c == option("d", "domainNumber") % 256
               d == option("t", "transportSpecific") % 256
               e == given("z")
    <3>2. CASE prms' = prms /\ pc' = "failed"
      BY <3>2
    <3>3. CASE prms' = [prms EXCEPT !.self = a, !.boundaryHops = b, !.domainNumber = c,
                                    !.transportSpecific = d, !.useZeroGet = e]
      <4>d. d = option("t", "transportSpecific") % 256
        BY Zenon
      <4> HIDE DEF a, b, c, d, e
      <4>1. /\ DOMAIN prms' = DOMAIN prms /\ prms'.ignore = prms.ignore
            /\ prms'.minorVersion = prms.minorVersion
        BY <3>1, <3>3, SMTT(40)
      <4>2. prms'.transportSpecific = d
        BY <3>1, <3>3, SMTT(40)
      <4> QED
        BY <4>1, <4>2, <4>d, Zenon
    <3> QED
      BY <3>2, <3>3, Zenon DEF process_net, fail
  <2>5. Told'
    BY <2>1, <2>2, <2>3, <2>4, Zenon DEF Told
  <2>6. pc' \notin Reading /\ pc' # "done" /\ pc' \notin {"sa_F", "sa_cfg", "key"}
    BY <2>1 DEF Reading
  <2> QED
    BY <2>1, <2>2, <2>3, <2>4, <2>5, <2>6, Zenon DEF AuthInv, AuthenticatesAsTold
<1>ProcessSocketTold.
    ASSUME AuthInv, NEW n, process_socket(n)
    PROVE  AuthInv'
  <2> USE <1>ProcessSocketTold
  <2>1. /\ pc = "socket" /\ UNCHANGED <<opts, cfg, auth, allow, prms>>
        /\ \/ /\ pc' = "done" /\ sk'.isInit /\ params' = updateParams(params, prms)
              /\ msg' = [msg EXCEPT !.useZeroGet = params'.useZeroGet]
           \/ pc' = "failed" /\ UNCHANGED <<params, msg>>
    BY Zenon DEF process_socket, fail, files, options
  <2>2. Spp' = Spp /\ Key' = Key
        /\ (option("t", "transportSpecific") % 256)' =
             option("t", "transportSpecific") % 256
    BY <2>1, <1>SameSettings, Zenon
  <2>3. /\ Told /\ params = NewParams
        /\ prms.transportSpecific = option("t", "transportSpecific") % 256
    <3>1. pc \in {"net", "socket"}
      BY <2>1
    <3> QED
      BY <2>1, <3>1, Zenon DEF AuthInv
  <2>4. /\ pc' \notin Reading /\ pc' \notin {"net", "socket"}
        /\ pc' \notin {"sa_F", "sa_cfg", "key"} /\ pc' # "socket"
    BY <2>1 DEF Reading
  <2>5. DOMAIN msg' = DOMAIN msg /\ msg'.mac = msg.mac
    <3>1. "mac" \in DOMAIN msg /\ "mac" # "useZeroGet"
      BY DEF AuthInv
    <3>2. CASE msg' = [msg EXCEPT !.useZeroGet = params'.useZeroGet]
      <4> DEFINE z == params'.useZeroGet
      <4>1. msg' = [msg EXCEPT !.useZeroGet = z]
        BY <3>2, Zenon
      <4> HIDE DEF z
      <4> QED
        BY <3>1, <4>1
    <3> QED
      BY <2>1, <3>2, Zenon
  <2>6. AuthenticatesAsTold'
    <3>1. CASE pc' = "done" /\ sk'.isInit /\ params' = updateParams(params, prms)
      <4> DEFINE t == option("t", "transportSpecific") % 256
      <4>0. t' = t /\ prms.transportSpecific = t
        BY <2>2, <2>3, Zenon
      <4> HIDE DEF t
      <4>1. t > 15 => params' = NewParams
        BY <2>3, <3>1, <4>0, Zenon DEF updateParams
      <4>2. ASSUME ~(t > 15)
            PROVE  /\ auth'.haveAuth => params'.minorVersion >= 1
                   /\ params'.ignore <=> auth'.haveAuth /\ allow' > 0
        <5>1. params' = prms
          BY <3>1, <4>0, <4>2, Zenon DEF updateParams
        <5> QED
          BY <2>1, <2>3, <5>1, Zenon DEF Told
      <4>3. IF t' > 15 THEN params' = NewParams
            ELSE /\ auth'.haveAuth => params'.minorVersion >= 1
                 /\ params'.ignore <=> auth'.haveAuth /\ allow' > 0
        BY <4>0, <4>1, <4>2, Zenon
      <4> USE DEF t
      <4> QED
        BY <2>1, <2>2, <2>3, <2>5, <3>1, <4>3, Zenon
        DEF AuthenticatesAsTold, Told
    <3>2. CASE pc' = "failed"
      BY <3>2 DEF AuthenticatesAsTold
    <3> QED
      BY <2>1, <3>1, <3>2, Zenon
  <2> QED
    BY <2>1, <2>4, <2>5, <2>6, Zenon DEF AuthInv
<1>1. Init => AuthInv
  <2> SUFFICES ASSUME Init PROVE AuthInv
    OBVIOUS
  <2>1. /\ {"mac", "useZeroGet"} \subseteq DOMAIN msg
    BY DEF Init, NewMessage
  <2>2. ~auth.haveAuth
    BY DEF Init, NoAuth
  <2>3. /\ pc \notin {"net", "socket"} /\ pc # "done" /\ pc \notin {"sa_F", "sa_cfg", "key"}
        /\ pc # "socket"
    BY DEF Init
  <2>4. prms = NewParams /\ params = NewParams
    BY Zenon DEF Init
  <2> QED
    BY <2>1, <2>2, <2>3, <2>4, <1>NewParamsFields, Zenon DEF AuthInv, AuthenticatesAsTold
<1>2. AuthInv /\ [Next]_vars => AuthInv'
  <2> SUFFICES ASSUME AuthInv, [Next]_vars PROVE AuthInv'
    OBVIOUS
  \* Steps before there is a key, and steps of something else.
  <2>1. ASSUME UNCHANGED <<msg, auth, prms, params>>,
               pc' \in Reading => pc \in Reading,
               pc' \in {"sa_F", "sa_cfg", "key"} =>
                 pc \in {"sa_F", "sa_cfg", "key"} /\ UNCHANGED <<opts, cfg>>,
               pc' \notin {"net", "socket"}, pc' # "done"
        PROVE  AuthInv'
    <3>0. pc' # "socket"
      BY <2>1
    <3>1. pc' \in {"sa_F", "sa_cfg", "key"} => Spp' # -1
      <4>1. ASSUME pc' \in {"sa_F", "sa_cfg", "key"} PROVE Spp' = Spp /\ Spp # -1
        BY <2>1, <4>1, <1>SameSettings, Zenon DEF AuthInv
      <4> QED
        BY <4>1, Zenon
    <3> QED
      BY <2>1, <3>0, <3>1, Zenon DEF AuthInv, AuthenticatesAsTold
  <2>o. ASSUME UNCHANGED <<msg, auth, prms, params>>,
               pc' \in {"read_cfg", "read_sa", "wrong", "loaded", "exit", "failed",
                        "sockets"}
        PROVE  AuthInv'
    <3>1. /\ pc' \notin Reading /\ pc' \notin {"sa_F", "sa_cfg", "key"}
          /\ pc' \notin {"net", "socket"} /\ pc' # "done"
      BY <2>o DEF Reading
    <3> QED
      BY <2>1, <2>o, <3>1, Zenon
  <2>2. ASSUME NEW line, cfg_read(line) \/ sa_read(line) PROVE AuthInv'
    <3>1. /\ UNCHANGED <<msg, auth, prms, params>>
          /\ pc' \in {"read_cfg", "read_sa", "wrong", "loaded", "exit", "failed",
                      "sockets"}
      BY <2>2 DEF cfg_read, sa_read, cfg_turn, sa_turn, message
    <3> QED
      BY <2>o, <3>1, Zenon
  <2>3. CASE sa_eof \/ close \/ use_socket
    <3>1. /\ UNCHANGED <<msg, auth, prms, params>>
          /\ pc' \in {"read_cfg", "read_sa", "wrong", "loaded", "exit", "failed",
                      "sockets"}
      BY <2>3 DEF sa_eof, close, use_socket, message
    <3> QED
      BY <2>o, <3>1, Zenon
  <2>4. ASSUME process_cfg \/ process_cfg_line \/ process_cfg_eof
               \/ \E c, v : parse_option(c, v)
        PROVE  AuthInv'
    <3>1. /\ UNCHANGED <<msg, auth, prms, params>> /\ (pc = "options" \/ pc = "cfg")
      BY <2>4, Zenon DEF process_cfg, process_cfg_line, process_cfg_eof, cfg_turn,
         parse_option, message
    <3>2. pc' = pc \/ pc' \in {"cfg", "auth", "failed", "exit"}
      BY <2>4, Zenon DEF process_cfg, process_cfg_line, process_cfg_eof, cfg_turn,
         parse_option, fail
    <3>3. /\ pc \in Reading /\ pc' \notin {"net", "socket"} /\ pc' # "done"
          /\ pc' \notin {"sa_F", "sa_cfg", "key"}
      BY <3>1, <3>2 DEF Reading
    <3> QED
      BY <2>1, <3>1, <3>3, Zenon
  <2>5. CASE process_sa_line \/ process_sa_eof
    <3>1. /\ UNCHANGED <<msg, auth, prms, params, opts, cfg>>
          /\ pc \in {"sa_F", "sa_cfg"}
      BY <2>5, Zenon DEF process_sa_line, process_sa_eof, sa_turn, options, message
    <3>2. pc' = pc \/ pc' \in {"sa_cfg", "key", "failed"}
      BY <2>5, Zenon DEF process_sa_line, process_sa_eof, sa_turn, open_sa, fail
    <3>3. /\ pc \in Reading /\ pc' \notin {"net", "socket"} /\ pc' # "done"
          /\ pc \in {"sa_F", "sa_cfg", "key"}
      BY <3>1, <3>2 DEF Reading
    <3> QED
      BY <2>1, <3>1, <3>3, Zenon
  <2>6. CASE UNCHANGED vars
    <3>1. UNCHANGED <<pc, opts, cfg, msg, auth, prms, params, allow, sk>>
      BY <2>6, Zenon DEF vars
    <3>2. Spp' = Spp /\ Key' = Key
          /\ (option("t", "transportSpecific") % 256)' =
               option("t", "transportSpecific") % 256
      BY <3>1, <1>SameSettings, Zenon
    <3>3. Told' <=> Told
      BY <3>1, <3>2, Zenon DEF Told
    <3>4. AuthenticatesAsTold'
      <4>1. AuthenticatesAsTold
        BY Zenon DEF AuthInv
      <4> DEFINE t == option("t", "transportSpecific") % 256
                 P == IF t > 15 THEN params = NewParams
                      ELSE /\ auth.haveAuth => params.minorVersion >= 1
                           /\ params.ignore <=> auth.haveAuth /\ allow > 0
      <4>2. t' = t
        BY <3>2, Zenon
      <4> HIDE DEF t
      <4>3. P' <=> P
        BY <3>1, <4>2, Zenon
      <4> USE DEF t
      <4> HIDE DEF P
      <4>4. AuthenticatesAsTold' <=> AuthenticatesAsTold
        BY <3>1, <3>2, <4>3, Zenon DEF AuthenticatesAsTold, P
      <4> QED
        BY <4>1, <4>4, Zenon
    <3> QED
      BY <3>1, <3>2, <3>3, <3>4, Zenon DEF AuthInv
  <2> QED
    BY <2>2, <2>3, <2>4, <2>5, <2>6, <1>ProcessAuthTold, <1>ProcessKeyTold, <1>ProcessNetTold,
       <1>ProcessSocketTold, Zenon DEF Next
<1> QED
  BY <1>1, <1>2, PTL DEF Spec

\* A process that succeeded has an open socket, and authenticates exactly when the
\* options or the configuration name an spp, with a key its association has.  Its
\* parameters are those that authentication needs, except with a transportSpecific that
\* updateParams refuses, where they are those of a new Message.  For any command line,
\* any configuration and association files and any failures.
THEOREM SettingsAuthenticate == Spec => []AuthenticatesAsTold
<1>1. AuthInv => AuthenticatesAsTold
  BY Zenon DEF AuthInv
<1> QED
  BY <1>1, AuthInvariant, PTL
---------------------------------------------------------------------------
(* Numbers of lines *)

LEMMA EarliestIs ==
  ASSUME NEW S, S \subseteq Nat, NEW i \in S, \A j \in S : i <= j
  PROVE  Earliest(S) = i
<1>1. Earliest(S) \in S /\ \A j \in S : Earliest(S) <= j
  BY Zenon DEF Earliest
<1> HIDE DEF Earliest
<1>2. Earliest(S) <= i /\ i <= Earliest(S) /\ i \in Nat /\ Earliest(S) \in Nat
  BY <1>1, Zenon
<1> QED
  BY <1>2

LEMMA HasEarliest ==
  ASSUME NEW S, S \subseteq Nat, S # {}
  PROVE  Earliest(S) \in S /\ \A j \in S : Earliest(S) <= j
<1>1. \E i \in S : \A j \in S : i <= j
  BY NatMin, Zenon
<1> QED
  BY <1>1, Zenon DEF Earliest

LEMMA LatestIs ==
  ASSUME NEW S, S \subseteq Nat, NEW i \in S, \A j \in S : j <= i
  PROVE  Latest(S) = i
<1>1. Latest(S) \in S /\ \A j \in S : j <= Latest(S)
  BY Zenon DEF Latest
<1> HIDE DEF Latest
<1>2. Latest(S) <= i /\ i <= Latest(S) /\ i \in Nat /\ Latest(S) \in Nat
  BY <1>1, Zenon
<1> QED
  BY <1>2

LEMMA HasLatest ==
  ASSUME NEW n \in Nat, NEW S, S \subseteq 0 .. n, S # {}
  PROVE  Latest(S) \in S /\ \A j \in S : j <= Latest(S)
<1> DEFINE T == {n - j : j \in S}
<1>1. T \subseteq Nat /\ T # {}
  <2>1. \A j \in S : n - j \in Nat
    OBVIOUS
  <2> QED
    BY <2>1, Zenon
<1> HIDE DEF T
<1>2. PICK x \in T : \A y \in T : x <= y
  BY <1>1, NatMin, Zenon
<1>3. PICK i \in S : x = n - i
  BY DEF T
<1>4. ASSUME NEW j \in S PROVE j <= i
  <2>1. n - j \in T
    BY DEF T
  <2>2. n - i <= n - j /\ i \in Nat /\ j \in Nat
    BY <1>2, <1>3, <2>1
  <2> QED
    BY <2>2
<1> QED
  BY <1>4, Zenon DEF Latest
---------------------------------------------------------------------------
(* What a file says, with one line more *)

\* The lines L, and the lines M with l after them.
IsNext(L, l, M) ==
    /\ DOMAIN L = 1 .. Len(L) /\ Len(L) \in Nat
    /\ DOMAIN M = 1 .. Len(L) + 1 /\ Len(M) = Len(L) + 1
    /\ \A i \in 1 .. Len(L) : M[i] = L[i]
    /\ M[Len(L) + 1] = l

LEMMA AppendIsNext ==
  ASSUME NEW X, NEW L \in Seq(X), NEW l \in X
  PROVE  IsNext(L, l, Append(L, l)) /\ Append(L, l) \in Seq(X)
BY DEF IsNext

LEMMA SectionStartRange ==
  ASSUME NEW L, NEW i \in Nat
  PROVE  /\ SectionStart(L, i) \in 0 .. i
         /\ SectionStart(L, i) # 0 => L[SectionStart(L, i)].kind = "section"
<1> DEFINE S == {j \in 1 .. i : L[j].kind = "section"}
<1>1. SectionStart(L, i) = IF S = {} THEN 0 ELSE Latest(S)
  BY Zenon DEF SectionStart
<1>2. CASE S = {}
  BY <1>1, <1>2
<1>3. CASE S # {}
  <2>1. S \subseteq 0 .. i
    OBVIOUS
  <2> HIDE DEF S
  <2>2. Latest(S) \in S
    BY <1>3, <2>1, HasLatest, Zenon
  <2>3. SectionStart(L, i) \in S
    BY <1>1, <1>3, <2>2, Zenon
  <2> QED
    BY <2>3 DEF S
<1> QED
  BY <1>2, <1>3

LEMMA SectionStartSame ==
  ASSUME NEW L, NEW l, NEW M, IsNext(L, l, M), NEW i \in 0 .. Len(L)
  PROVE  SectionStart(M, i) = SectionStart(L, i)
<1>1. {j \in 1 .. i : M[j].kind = "section"} = {j \in 1 .. i : L[j].kind = "section"}
  BY DEF IsNext
<1> QED
  BY <1>1, Zenon DEF SectionStart

LEMMA SectionStartNext ==
  ASSUME NEW L, NEW l, NEW M, IsNext(L, l, M)
  PROVE  SectionStart(M, Len(L) + 1) = IF l.kind = "section" THEN Len(L) + 1
                                       ELSE SectionStart(L, Len(L))
<1> DEFINE n == Len(L)
           S == {j \in 1 .. n + 1 : M[j].kind = "section"}
<1>0. n \in Nat /\ M[n + 1] = l /\ \A j \in 1 .. n : M[j] = L[j]
  BY DEF IsNext
<1>1. SectionStart(M, n + 1) = IF S = {} THEN 0 ELSE Latest(S)
  BY Zenon DEF SectionStart
<1>2. CASE l.kind = "section"
  <2>1. n + 1 \in S /\ S \subseteq Nat /\ \A j \in S : j <= n + 1
    BY <1>0, <1>2
  <2> HIDE DEF S
  <2>2. Latest(S) = n + 1 /\ S # {}
    BY <2>1, LatestIs, Zenon
  <2> QED
    BY <1>1, <1>2, <2>2, Zenon
<1>3. CASE l.kind # "section"
  <2>1. S = {j \in 1 .. n : L[j].kind = "section"}
    BY <1>0, <1>3
  <2> HIDE DEF S, n
  <2>2. SectionStart(L, n) = IF S = {} THEN 0 ELSE Latest(S)
    BY <2>1, Zenon DEF SectionStart
  <2> QED
    BY <1>1, <1>3, <2>2, Zenon DEF n
<1> QED
  BY <1>2, <1>3

LEMMA SectionNameSame ==
  ASSUME NEW L, NEW l, NEW M, IsNext(L, l, M), NEW i \in 0 .. Len(L)
  PROVE  SectionName(M, i) = SectionName(L, i)
<1> DEFINE s == SectionStart(L, i)
<1>1. i \in Nat /\ \A j \in 0 .. i : j # 0 => M[j] = L[j]
  BY DEF IsNext
<1>2. SectionStart(M, i) = s
  BY SectionStartSame, Zenon
<1>3. s \in 0 .. i
  BY <1>1, SectionStartRange, Zenon
<1> HIDE DEF s
<1>4. s # 0 => M[s] = L[s]
  BY <1>1, <1>3, Zenon
<1> QED
  BY <1>2, <1>4, Zenon DEF SectionName, s

LEMMA SectionNameNext ==
  ASSUME NEW L, NEW l, NEW M, IsNext(L, l, M)
  PROVE  SectionName(M, Len(L) + 1) = IF l.kind = "section" THEN l.name
                                      ELSE SectionName(L, Len(L))
<1> DEFINE n == Len(L)
           s == SectionStart(M, n + 1)
<1>1. n \in Nat /\ n + 1 # 0 /\ M[n + 1] = l /\ n \in 0 .. n
  BY DEF IsNext
<1>2. s = IF l.kind = "section" THEN n + 1 ELSE SectionStart(L, n)
  BY SectionStartNext, Zenon
<1>3. CASE l.kind = "section"
  <2>1. s = n + 1
    BY <1>2, <1>3, Zenon
  <2> QED
    BY <1>1, <1>3, <2>1, Zenon DEF SectionName
<1>4. CASE l.kind # "section"
  <2>1. s = SectionStart(L, n) /\ SectionStart(M, n) = SectionStart(L, n)
    BY <1>1, <1>2, <1>4, SectionStartSame, Zenon
  <2>2. SectionName(M, n + 1) = SectionName(M, n)
    <3> HIDE DEF n
    <3> QED
      BY <2>1, Zenon DEF SectionName
  <2>3. SectionName(M, n) = SectionName(L, n)
    BY <1>1, SectionNameSame, Zenon
  <2> QED
    BY <1>4, <2>2, <2>3, Zenon
<1> QED
  BY <1>3, <1>4

\* Line l sets key k when it is in section name, and that is s.
SetsKey(l, name, s, k) == l.kind = "value" /\ l.key = k /\ name = s

\* The value of a key changes with a line that sets it in the section the file is in.
LEMMA CfgSaysNext ==
  ASSUME NEW L, NEW l, NEW M, IsNext(L, l, M), NEW s, NEW k
  PROVE  /\ SetsKey(l, SectionName(L, Len(L)), s, k) => CfgSays(M, s, k) = l.val
         /\ ~SetsKey(l, SectionName(L, Len(L)), s, k) =>
              CfgSays(M, s, k) = CfgSays(L, s, k)
<1> DEFINE n == Len(L)
           A == {i \in DOMAIN L : /\ L[i].kind = "value" /\ L[i].key = k
                                  /\ SectionName(L, i) = s}
           B == {i \in DOMAIN M : /\ M[i].kind = "value" /\ M[i].key = k
                                  /\ SectionName(M, i) = s}
           new == SetsKey(l, SectionName(L, n), s, k)
<1>0. /\ n \in Nat /\ M[n + 1] = l /\ \A j \in 1 .. n : M[j] = L[j]
      /\ DOMAIN L = 1 .. n /\ DOMAIN M = 1 .. n + 1
  BY DEF IsNext
<1>1. /\ CfgSays(L, s, k) = IF A = {} THEN Unset ELSE L[Latest(A)].val
      /\ CfgSays(M, s, k) = IF B = {} THEN Unset ELSE M[Latest(B)].val
  BY Zenon DEF CfgSays
<1>2. \A i \in 1 .. n : SectionName(M, i) = SectionName(L, i)
  <2>1. \A i \in 1 .. n : i \in 0 .. Len(L)
    BY <1>0
  <2> QED
    BY <2>1, SectionNameSame, Zenon
<1>3. l.kind = "value" => SectionName(M, n + 1) = SectionName(L, n)
  <2>1. "value" # "section"
    OBVIOUS
  <2> QED
    BY <2>1, SectionNameNext, Zenon
<1>4. \A i : i \in 1 .. n + 1 <=> i \in 1 .. n \/ i = n + 1
  BY <1>0
<1>5. \A i \in 1 .. n : i \in A <=> i \in B
  BY <1>0, <1>2, <1>4, Zenon
<1>6. n + 1 \in B <=> new
  BY <1>0, <1>3, <1>4, Zenon DEF SetsKey
<1>7. A \subseteq 1 .. n /\ B \subseteq 1 .. n + 1
  BY <1>0, Zenon
<1> HIDE DEF A, B, n, new
<1>8. CASE new
  <2>1. n + 1 \in B /\ B \subseteq Nat /\ \A j \in B : j <= n + 1
    BY <1>0, <1>6, <1>7, <1>8
  <2>2. Latest(B) = n + 1 /\ B # {}
    BY <2>1, LatestIs, Zenon
  <2>3. CfgSays(M, s, k) = l.val
    BY <1>0, <1>1, <2>2, Zenon
  <2> QED
    BY <1>8, <2>3, Zenon DEF new, n
<1>9. CASE ~new
  <2>1. A = B
    BY <1>4, <1>5, <1>6, <1>7, <1>9, Zenon
  <2>2. A # {} => Latest(A) \in 1 .. n
    <3>1. A \subseteq 0 .. n
      BY <1>0, <1>7
    <3> QED
      BY <1>0, <1>7, <3>1, HasLatest, Zenon
  <2>3. A # {} => M[Latest(A)] = L[Latest(A)]
    BY <1>0, <2>2, Zenon
  <2>4. CfgSays(M, s, k) = CfgSays(L, s, k)
    <3>1. CASE A = {}
      BY <1>1, <2>1, <3>1, Zenon
    <3>2. CASE A # {}
      BY <1>1, <2>1, <2>3, <3>2, Zenon
    <3> QED
      BY <3>1, <3>2
  <2> QED
    BY <1>9, <2>4, Zenon DEF new, n
<1> QED
  BY <1>8, <1>9
---------------------------------------------------------------------------
(* The reader of a configuration file *)

\* The values are unset or in the range of their key.
CfgTyped(st) ==
    /\ DOMAIN st = {"vals", "cur", "err"}
    /\ DOMAIN st.vals = Sections /\ st.cur \in Sections
    /\ \A s \in Sections : DOMAIN st.vals[s] = CfgKeys
    /\ \A s \in Sections : \A k \in CfgKeys :
         st.vals[s][k] = Unset \/ st.vals[s][k] \in Ranges[k]

\* The reader is in the section, and has the values, that the lines say.
CfgAgrees(st, L) ==
    /\ st.cur = SectionName(L, Len(L))
    /\ \A s \in Sections, k \in CfgKeys : st.vals[s][k] = CfgSays(L, s, k)

\* What a turn of the loop does.
Sets(st, l) == ~st.err /\ l.kind = "value" /\ l.val \in Ranges[l.key]

LEMMA CfgLineCases ==
  ASSUME NEW st, NEW l
  PROVE  \/ (st.err \/ l.kind = "ignored") /\ cfg_line(st, l) = st
         \/ ~st.err /\ l.kind = "section" /\ cfg_line(st, l) = [st EXCEPT !.cur = l.name]
         \/ /\ Sets(st, l)
            /\ cfg_line(st, l) = [st EXCEPT !.vals[st.cur][l.key] = l.val]
         \/ /\ ~Sets(st, l) /\ l.kind # "section"
            /\ cfg_line(st, l) = [st EXCEPT !.err = TRUE]
<1>1. CASE st.err \/ l.kind = "ignored"
  BY <1>1 DEF cfg_line
<1>2. CASE ~st.err /\ l.kind = "section"
  BY <1>2 DEF cfg_line
<1>3. CASE Sets(st, l)
  BY <1>3 DEF cfg_line, Sets
<1>4. CASE ~st.err /\ l.kind # "ignored" /\ l.kind # "section" /\ ~Sets(st, l)
  BY <1>4 DEF cfg_line, Sets
<1> QED
  BY <1>1, <1>2, <1>3, <1>4, Zenon

\* The reader took line l: it is in the section, or has the value, of the line.
Took(st, l, t) ==
    /\ t.cur = IF l.kind = "section" THEN l.name ELSE st.cur
    /\ \A s \in Sections, k \in CfgKeys :
         /\ SetsKey(l, st.cur, s, k) => t.vals[s][k] = l.val
         /\ ~SetsKey(l, st.cur, s, k) => t.vals[s][k] = st.vals[s][k]

LEMMA CfgLineFields ==
  ASSUME NEW st, CfgTyped(st), NEW l, IsCfgLine(l), NEW t, t = cfg_line(st, l)
  PROVE  CfgTyped(t) /\ (~t.err => Took(st, l, t))
<1>f. DOMAIN st = {"vals", "cur", "err"}
  BY Zenon DEF CfgTyped
<1>d. "ignored" # "section" /\ "ignored" # "value" /\ "section" # "value"
  OBVIOUS
<1>1. CASE (st.err \/ l.kind = "ignored") /\ t = st
  <2>1. CASE l.kind = "ignored"
    BY <1>1, <1>d, <2>1, Zenon DEF SetsKey, Took
  <2>2. CASE t.err
    BY <1>1, <2>2, Zenon
  <2> QED
    BY <1>1, <2>1, <2>2, Zenon
<1>2. CASE ~st.err /\ l.kind = "section" /\ t = [st EXCEPT !.cur = l.name]
  <2>1. l.name \in Sections
    BY <1>2, Zenon DEF IsCfgLine
  <2>2. DOMAIN t = DOMAIN st /\ t.vals = st.vals /\ t.cur = l.name
    BY <1>2, <1>f
  <2>3. CfgTyped(t)
    BY <2>1, <2>2, Zenon DEF CfgTyped
  <2> QED
    BY <1>2, <1>d, <2>2, <2>3, Zenon DEF SetsKey, Took
<1>3. CASE Sets(st, l) /\ t = [st EXCEPT !.vals[st.cur][l.key] = l.val]
  <2> DEFINE c == st.cur
             row == [st.vals[c] EXCEPT ![l.key] = l.val]
             new == [st.vals EXCEPT ![c] = row]
  <2>1. l.key \in CfgKeys /\ l.val \in Ranges[l.key] /\ c \in Sections /\ l.kind = "value"
    BY <1>3, Zenon DEF IsCfgLine, Sets, CfgTyped
  <2>2. /\ DOMAIN row = CfgKeys
        /\ \A k \in CfgKeys : row[k] = IF l.key = k THEN l.val ELSE st.vals[c][k]
    <3>1. DOMAIN st.vals[c] = CfgKeys
      BY <2>1, Zenon DEF CfgTyped
    <3> QED
      BY <2>1, <3>1, Zenon
  <2>3. t = [st EXCEPT !.vals = new]
    BY <1>3, Zenon
  <2> HIDE DEF row
  <2>4. /\ DOMAIN new = Sections
        /\ \A s \in Sections : new[s] = IF c = s THEN row ELSE st.vals[s]
    <3>1. DOMAIN st.vals = Sections
      BY Zenon DEF CfgTyped
    <3> HIDE DEF c
    <3> QED
      BY <2>1, <3>1, Zenon
  <2> HIDE DEF new
  <2>5. DOMAIN t = DOMAIN st /\ t.vals = new /\ t.cur = c
    BY <1>f, <2>3
  <2> HIDE DEF c
  <2>6. \A s \in Sections, k \in CfgKeys : t.vals[s][k] =
          IF l.key = k /\ c = s THEN l.val ELSE st.vals[s][k]
    <3> TAKE s \in Sections, k \in CfgKeys
    <3>1. CASE c = s
      BY <2>2, <2>4, <2>5, <3>1, Zenon
    <3>2. CASE c # s
      BY <2>4, <2>5, <3>2, Zenon
    <3> QED
      BY <3>1, <3>2
  <2>7. CfgTyped(t)
    <3>1. \A s \in Sections : DOMAIN t.vals[s] = CfgKeys
      BY <2>2, <2>4, <2>5, Zenon DEF CfgTyped
    <3>2. ASSUME NEW s \in Sections, NEW k \in CfgKeys
          PROVE  t.vals[s][k] = Unset \/ t.vals[s][k] \in Ranges[k]
      <4>1. CASE l.key = k /\ c = s
        BY <2>1, <2>6, <4>1, Zenon
      <4>2. CASE ~(l.key = k /\ c = s)
        BY <2>6, <4>2, Zenon DEF CfgTyped
      <4> QED
        BY <4>1, <4>2
    <3> QED
      BY <1>f, <2>1, <2>4, <2>5, <3>1, <3>2, Zenon DEF CfgTyped
  <2> QED
    BY <1>d, <2>1, <2>5, <2>6, <2>7, Zenon DEF c, SetsKey, Took
<1>4. CASE t = [st EXCEPT !.err = TRUE]
  <2>1. DOMAIN t = DOMAIN st /\ t.vals = st.vals /\ t.cur = st.cur /\ t.err = TRUE
    BY <1>4, <1>f
  <2> QED
    BY <2>1, Zenon DEF CfgTyped
<1> QED
  BY <1>1, <1>2, <1>3, <1>4, CfgLineCases, Zenon

\* A turn that finds no error keeps the reader with the lines.
LEMMA CfgTurnAgrees ==
  ASSUME NEW st, CfgTyped(st), NEW L, CfgAgrees(st, L), NEW l, IsCfgLine(l),
         NEW M, IsNext(L, l, M), ~cfg_line(st, l).err
  PROVE  CfgAgrees(cfg_line(st, l), M)
<1> DEFINE t == cfg_line(st, l)
<1>0. Took(st, l, t)
  <2>1. t = cfg_line(st, l) /\ ~t.err
    BY Zenon
  <2> HIDE DEF t
  <2> QED
    BY <2>1, CfgLineFields, Zenon
<1>1. /\ t.cur = IF l.kind = "section" THEN l.name ELSE st.cur
      /\ \A s \in Sections, k \in CfgKeys :
           /\ SetsKey(l, st.cur, s, k) => t.vals[s][k] = l.val
           /\ ~SetsKey(l, st.cur, s, k) => t.vals[s][k] = st.vals[s][k]
  <2> HIDE DEF t
  <2> QED
    BY <1>0, Zenon DEF Took
<1> HIDE DEF t
<1>2. t.cur = SectionName(M, Len(M))
  <2>1. Len(M) = Len(L) + 1
    BY Zenon DEF IsNext
  <2>2. SectionName(M, Len(L) + 1) = IF l.kind = "section" THEN l.name
                                     ELSE SectionName(L, Len(L))
    BY SectionNameNext, Zenon
  <2> QED
    BY <1>1, <2>1, <2>2, Zenon DEF CfgAgrees
<1>3. ASSUME NEW s \in Sections, NEW k \in CfgKeys
      PROVE  t.vals[s][k] = CfgSays(M, s, k)
  <2>1. /\ SetsKey(l, SectionName(L, Len(L)), s, k) => CfgSays(M, s, k) = l.val
        /\ ~SetsKey(l, SectionName(L, Len(L)), s, k) =>
             CfgSays(M, s, k) = CfgSays(L, s, k)
    BY CfgSaysNext
  <2>2. st.cur = SectionName(L, Len(L)) /\ st.vals[s][k] = CfgSays(L, s, k)
    BY Zenon DEF CfgAgrees
  <2>3. CASE SetsKey(l, st.cur, s, k)
    BY <1>1, <2>1, <2>2, <2>3, Zenon
  <2>4. CASE ~SetsKey(l, st.cur, s, k)
    BY <1>1, <2>1, <2>2, <2>4, Zenon
  <2> QED
    BY <2>3, <2>4
<1> QED
  BY <1>2, <1>3, Zenon DEF CfgAgrees, t

\* A new reader, before any line.
LEMMA NewCfgAgrees == CfgTyped(NewCfg(Sections)) /\ CfgAgrees(NewCfg(Sections), <<>>)
<1> DEFINE t == NewCfg(Sections)
<1>1. /\ DOMAIN t = {"vals", "cur", "err"} /\ t.cur = "global"
      /\ t.vals = [s \in Sections |-> [k \in CfgKeys |-> Unset]]
  BY DEF NewCfg
<1> HIDE DEF t
<1>2. /\ DOMAIN t.vals = Sections
      /\ \A s \in Sections : DOMAIN t.vals[s] = CfgKeys
      /\ \A s \in Sections, k \in CfgKeys : t.vals[s][k] = Unset
  <2>1. \A s \in Sections : t.vals[s] = [k \in CfgKeys |-> Unset]
    BY <1>1, Zenon
  <2>2. ASSUME NEW s \in Sections, NEW k \in CfgKeys PROVE t.vals[s][k] = Unset
    BY <2>1
  <2>3. \A s \in Sections : DOMAIN t.vals[s] = CfgKeys
    BY <2>1
  <2> QED
    BY <1>1, <2>2, <2>3, Zenon
<1>3. CfgTyped(t)
  BY <1>1, <1>2, SectionsAssumption, Zenon DEF CfgTyped
<1>4. SectionName(<<>>, Len(<<>>)) = "global"
  <2>1. Len(<<>>) = 0 /\ 0 \in Nat /\ \A i \in 0 .. 0 : i = 0
    OBVIOUS
  <2>2. SectionStart(<<>>, 0) \in 0 .. 0
    BY <2>1, SectionStartRange, Zenon
  <2> QED
    BY <2>1, <2>2, Zenon DEF SectionName
<1>5. \A s \in Sections, k \in CfgKeys : CfgSays(<<>>, s, k) = Unset
  <2>1. DOMAIN <<>> = {}
    OBVIOUS
  <2>2. ASSUME NEW s, NEW k PROVE CfgSays(<<>>, s, k) = Unset
    <3> DEFINE A == {i \in DOMAIN <<>> : /\ <<>>[i].kind = "value" /\ <<>>[i].key = k
                                         /\ SectionName(<<>>, i) = s}
    <3>1. A = {}
      BY <2>1, Zenon
    <3> QED
      BY <3>1, Zenon DEF CfgSays
  <2> QED
    BY <2>2, Zenon
<1> QED
  BY <1>1, <1>2, <1>3, <1>4, <1>5, Zenon DEF CfgAgrees, t
---------------------------------------------------------------------------
(* What a file of associations says, with one line more *)

\* The spps on the lines from s to i.
SppsFrom(L, s, i) == {j \in s .. i : j > 0 /\ L[j].kind = "spp"}

LEMMA SppLineIs ==
  ASSUME NEW L, NEW i
  PROVE  SppLine(L, i) =
           IF SectionStart(L, i) = 0 \/ SppsFrom(L, SectionStart(L, i), i) = {} THEN 0
           ELSE Earliest(SppsFrom(L, SectionStart(L, i), i))
BY Zenon DEF SppLine, SppsFrom

LEMMA SppLineRange ==
  ASSUME NEW L, NEW i \in Nat
  PROVE  /\ SppLine(L, i) \in 0 .. i
         /\ SppLine(L, i) # 0 =>
              /\ SectionStart(L, i) # 0
              /\ SppLine(L, i) \in SppsFrom(L, SectionStart(L, i), i)
              /\ \A j \in SppsFrom(L, SectionStart(L, i), i) : SppLine(L, i) <= j
<1> DEFINE s == SectionStart(L, i)
           S == SppsFrom(L, s, i)
<1>1. s \in 0 .. i
  BY SectionStartRange, Zenon
<1>2. S \subseteq Nat /\ S \subseteq 0 .. i
  BY <1>1 DEF SppsFrom
<1>3. SppLine(L, i) = IF s = 0 \/ S = {} THEN 0 ELSE Earliest(S)
  BY SppLineIs, Zenon
<1> HIDE DEF s, S
<1>4. CASE s = 0 \/ S = {}
  <2>1. SppLine(L, i) = 0
    BY <1>3, <1>4, Zenon
  <2> QED
    BY <2>1
<1>5. CASE ~(s = 0 \/ S = {})
  <2>1. Earliest(S) \in S /\ \A j \in S : Earliest(S) <= j
    BY <1>2, <1>5, HasEarliest, Zenon
  <2>2. SppLine(L, i) = Earliest(S)
    BY <1>3, <1>5, Zenon
  <2> QED
    BY <1>2, <1>5, <2>1, <2>2, Zenon DEF s, S
<1> QED
  BY <1>4, <1>5

\* The lines with the spp of an association.
LEMMA SppLinesRange ==
  ASSUME NEW L, DOMAIN L = 1 .. Len(L), Len(L) \in Nat
  PROVE  /\ SppLines(L) \subseteq 1 .. Len(L)
         /\ SppLine(L, Len(L)) # 0 => SppLine(L, Len(L)) \in SppLines(L)
<1>1. ASSUME NEW i \in 1 .. Len(L), SppLine(L, i) # 0 PROVE SppLine(L, i) \in 1 .. Len(L)
  <2>1. SppLine(L, i) \in 0 .. i
    BY SppLineRange
  <2> QED
    BY <1>1, <2>1
<1>2. SppLine(L, Len(L)) # 0 => Len(L) \in 1 .. Len(L)
  <2>1. SppLine(L, Len(L)) \in 0 .. Len(L)
    BY SppLineRange, Zenon
  <2> QED
    BY <2>1
<1> QED
  BY <1>1, <1>2, Zenon DEF SppLines

\* The ids of the keys of an association, the line that gives key id, and its
\* digest.
KeyIds(L, i) == {L[j].n : j \in KeyLines(L, i)}
LinesOfKey(L, i, id) == {j \in KeyLines(L, i) : L[j].n = id}
KeyLine(L, i, id) == Earliest(LinesOfKey(L, i, id))
Digest(L, i, id) == key_cfg[L[KeyLine(L, i, id)].type].digest
Digests(D, L, i) == [id \in D |-> Digest(L, i, id)]

\* A line that is no key of the association leaves its keys.
KeysKept(L, M, i) == KeysOf(M, i) = KeysOf(L, i)

\* A line with a key that the association did not have adds it.
KeyAdded(L, l, M, i) ==
    KeysOf(M, i) = Put(KeysOf(L, i), l.n, key_cfg[l.type].digest)

---------------------------------------------------------------------------
(* The associations of a file *)

SppIds(L, S) == {L[i].n : i \in S}
LinesOfSpp(L, S, id) == {i \in S : L[i].n = id}
LatestKeys(D, L, S) == [id \in D |-> KeysOf(L, Latest(LinesOfSpp(L, S, id)))]

LEMMA AssociationsIs ==
  ASSUME NEW L, NEW S
  PROVE  Associations(L, S) = LatestKeys(SppIds(L, S), L, S)
BY Zenon DEF Associations, LatestKeys, SppIds, LinesOfSpp

\* A line that leaves the keys of the associations leaves these.
SameKeys(L, M, S) ==
    S \subseteq 1 .. Len(L) /\ \A i \in S : KeysOf(M, i) = KeysOf(L, i)
SameAssociations(L, M, S) == Associations(M, S) = Associations(L, S)

\* The association of a later line replaces the one with its spp.
LEMMA AssociationsPut ==
  ASSUME NEW L, NEW n \in Nat, NEW S, S \subseteq 1 .. n, NEW c \in 1 .. n,
         \A i \in S : i <= c
  PROVE  Associations(L, S \union {c}) =
           Put(Associations(L, S), L[c].n, KeysOf(L, c))
<1> DEFINE D == SppIds(L, S)
           T == S \union {c}
           spp == L[c].n
           A == Associations(L, S)
<1>1. SppIds(L, T) = D \union {spp}
  BY Zenon DEF SppIds
<1>2. A = LatestKeys(D, L, S)
  BY AssociationsIs, Zenon
<1> HIDE DEF A, D
<1>3. DOMAIN A = D /\ \A id \in D : A[id] = KeysOf(L, Latest(LinesOfSpp(L, S, id)))
  BY <1>2, Zenon DEF LatestKeys
<1>4. KeysOf(L, Latest(LinesOfSpp(L, T, spp))) = KeysOf(L, c)
  <2> DEFINE Q == LinesOfSpp(L, T, spp)
  <2>1. c \in Q /\ Q \subseteq T
    BY Zenon DEF LinesOfSpp
  <2>2. T \subseteq Nat /\ \A i \in T : i <= c
    OBVIOUS
  <2> HIDE DEF Q
  <2>3. Q \subseteq Nat /\ \A i \in Q : i <= c
    BY <2>1, <2>2, Zenon
  <2>4. Latest(Q) = c
    BY <2>1, <2>3, LatestIs, Zenon
  <2> QED
    BY <2>4, Zenon DEF Q
<1>5. ASSUME NEW id \in D, id # spp
      PROVE  KeysOf(L, Latest(LinesOfSpp(L, T, id))) = A[id]
  <2>1. LinesOfSpp(L, T, id) = LinesOfSpp(L, S, id)
    BY <1>5, Zenon DEF LinesOfSpp
  <2> QED
    BY <1>3, <2>1, Zenon
<1> HIDE DEF T, spp
<1>6. LatestKeys(D \union {spp}, L, T) = Put(A, spp, KeysOf(L, c))
  <2>1. \A id \in D \union {spp} : KeysOf(L, Latest(LinesOfSpp(L, T, id))) =
          IF id = spp THEN KeysOf(L, c) ELSE A[id]
    BY <1>4, <1>5, Zenon
  <2> QED
    BY <1>3, <2>1, Zenon DEF LatestKeys, Put
<1>7. Associations(L, T) = LatestKeys(D \union {spp}, L, T)
  BY <1>1, AssociationsIs, Zenon
<1> QED
  BY <1>6, <1>7, Zenon DEF A, T, spp

---------------------------------------------------------------------------
(* The reader of a file of associations *)

\* The keys of an association have one of the two lengths of an ICV.
KeysTyped(keys) == \A k \in DOMAIN keys : keys[k] \in {16, 32}
SppsTyped(spps) == \A s \in DOMAIN spps : KeysTyped(spps[s])

SaTyped(st) ==
    /\ DOMAIN st = {"step", "own", "keys", "spps", "err"}
    /\ KeysTyped(st.keys) /\ SppsTyped(st.spps)

\* The reader is after the spp of the association that the last line is in, with
\* the keys of this association, and has stored those before it.
SaAgrees(st, L) ==
    LET c == SppLine(L, Len(L))
    IN  /\ st.step = 2 <=> c # 0
        /\ st.step = 1 => SectionStart(L, Len(L)) # 0
        /\ c # 0 => /\ st.own = L[c].n /\ st.keys = KeysOf(L, c)
                    /\ \A i \in SppLines(L) : i <= c
        /\ st.spps = Associations(L, SppLines(L) \ {c})

\* What the end of an association does.
LEMMA CloseSppFields ==
  ASSUME NEW st, SaTyped(st), NEW t, t = CloseSpp(st)
  PROVE  /\ SaTyped(t)
         /\ t.step = st.step
         /\ ~t.err /\ st.step = 2 => t.spps = Put(st.spps, st.own, st.keys)
         /\ st.step # 2 => t = st
<1>f. DOMAIN st = {"step", "own", "keys", "spps", "err"}
  BY Zenon DEF SaTyped
<1>1. CASE st.step # 2
  <2>1. t = st
    BY <1>1, Zenon DEF CloseSpp
  <2> QED
    BY <1>1, <2>1, Zenon
<1>2. CASE st.step = 2 /\ st.keys = Empty
  <2>1. t = [st EXCEPT !.err = TRUE]
    BY <1>2, Zenon DEF CloseSpp
  <2>2. /\ DOMAIN t = DOMAIN st /\ t.step = st.step /\ t.keys = st.keys
        /\ t.spps = st.spps /\ t.err = TRUE
    BY <1>f, <2>1
  <2> QED
    BY <1>2, <2>2, Zenon DEF SaTyped
<1>3. CASE st.step = 2 /\ st.keys # Empty
  <2> DEFINE x == Put(st.spps, st.own, st.keys)
  <2>1. t = [st EXCEPT !.spps = x]
    BY <1>3, Zenon DEF CloseSpp
  <2>2. SppsTyped(x)
    BY Zenon DEF SaTyped, SppsTyped, Put
  <2> HIDE DEF x
  <2>3. /\ DOMAIN t = DOMAIN st /\ t.step = st.step /\ t.keys = st.keys
        /\ t.spps = x /\ t.err = st.err
    BY <1>f, <2>1
  <2> QED
    BY <1>3, <2>2, <2>3, Zenon DEF SaTyped, x
<1> QED
  BY <1>1, <1>2, <1>3, Zenon

\* At the end of an association, those stored are all there were.
LEMMA CloseSppAgrees ==
  ASSUME NEW st, SaTyped(st), NEW L, DOMAIN L = 1 .. Len(L), Len(L) \in Nat,
         SaAgrees(st, L), ~CloseSpp(st).err
  PROVE  CloseSpp(st).spps = Associations(L, SppLines(L))
<1> DEFINE n == Len(L)
           c == SppLine(L, n)
           S == SppLines(L)
           t == CloseSpp(st)
<1>1. S \subseteq 1 .. n /\ (c # 0 => c \in S)
  BY SppLinesRange
<1>2. /\ st.step = 2 <=> c # 0
      /\ c # 0 => /\ st.own = L[c].n /\ st.keys = KeysOf(L, c)
                  /\ \A i \in S : i <= c
      /\ st.spps = Associations(L, S \ {c})
  BY Zenon DEF SaAgrees
<1>3. /\ st.step = 2 => t.spps = Put(st.spps, st.own, st.keys)
      /\ st.step # 2 => t.spps = st.spps
  <2>1. t = CloseSpp(st) /\ ~t.err
    BY Zenon
  <2> HIDE DEF t
  <2> QED
    BY <2>1, CloseSppFields, Zenon
<1> HIDE DEF S, t, c
<1>4. CASE c = 0
  <2>1. S \ {c} = S
    BY <1>1, <1>4
  <2> QED
    BY <1>2, <1>3, <1>4, <2>1, Zenon DEF t, S
<1>5. CASE c # 0
  <2> DEFINE R == S \ {c}
  <2>1. R \union {c} = S /\ R \subseteq 1 .. n /\ c \in 1 .. n /\ \A i \in R : i <= c
    BY <1>1, <1>2, <1>5, Zenon
  <2> HIDE DEF R
  <2>2. Associations(L, R \union {c}) = Put(Associations(L, R), L[c].n, KeysOf(L, c))
    BY <2>1, AssociationsPut, Zenon
  <2>3. t.spps = Put(Associations(L, R), L[c].n, KeysOf(L, c))
    BY <1>2, <1>3, <1>5, Zenon DEF R
  <2> QED
    BY <2>1, <2>2, <2>3, Zenon DEF t, S
<1> QED
  BY <1>4, <1>5

\* What a turn of the loop does.
LEMMA SaLineCases ==
  ASSUME NEW st, ~st.err, NEW l
  PROVE  \/ l.kind = "ignored" /\ sa_line(st, l) = st
         \/ /\ l.kind = "section"
            /\ sa_line(st, l) = [CloseSpp(st) EXCEPT
                 !.step = IF l.name = "security_association" THEN 1 ELSE 0]
         \/ /\ st.step = 1 /\ l.kind = "spp"
            /\ sa_line(st, l) = [st EXCEPT !.step = 2, !.own = l.n, !.keys = Empty]
         \/ /\ st.step = 2 /\ l.kind = "key" /\ l.n \notin DOMAIN st.keys
            /\ sa_line(st, l) =
                 [st EXCEPT !.keys = Put(st.keys, l.n, key_cfg[l.type].digest)]
         \/ st.step = 2 /\ l.kind \in {"spp", "word"} /\ sa_line(st, l) = st
         \/ sa_line(st, l) = [st EXCEPT !.err = TRUE]
<1>1. CASE l.kind = "ignored"
  BY <1>1 DEF sa_line
<1>2. CASE l.kind = "section"
  BY <1>2 DEF sa_line
<1>3. CASE st.step = 1 /\ l.kind = "spp" /\ l.n \in 0 .. 255
  BY <1>3 DEF sa_line
<1>4. CASE st.step = 2 /\ l.kind = "key" /\ CanAddKey(st.keys, l)
  <2>1. l.n \notin DOMAIN st.keys
    BY <1>4, Zenon DEF CanAddKey
  <2> QED
    BY <1>4, <2>1 DEF sa_line
<1>5. CASE st.step = 2 /\ l.kind \in {"spp", "word"}
  BY <1>5 DEF sa_line
<1>6. CASE /\ l.kind # "ignored" /\ l.kind # "section"
           /\ ~(st.step = 1 /\ l.kind = "spp" /\ l.n \in 0 .. 255)
           /\ ~(st.step = 2 /\ l.kind = "key" /\ CanAddKey(st.keys, l))
           /\ ~(st.step = 2 /\ l.kind \in {"spp", "word"})
  <2> DEFINE p == ~st.err /\ l.kind = "section"
             q == ~st.err /\ st.step = 1 /\ l.kind = "spp" /\ l.n \in 0 .. 255
             r == ~st.err /\ st.step = 2 /\ l.kind = "key" /\ CanAddKey(st.keys, l)
             s == ~st.err /\ st.step = 2 /\ l.kind \in {"spp", "word"}
             a == [CloseSpp(st) EXCEPT
                     !.step = IF l.name = "security_association" THEN 1 ELSE 0]
             b == [st EXCEPT !.step = 2, !.own = l.n, !.keys = Empty]
             c == [st EXCEPT !.keys = Put(@, l.n, key_cfg[l.type].digest)]
             d == [st EXCEPT !.err = TRUE]
  <2>1. sa_line(st, l) = CASE st.err \/ l.kind = "ignored" -> st
                           [] p -> a [] q -> b [] r -> c [] s -> st [] OTHER -> d
    BY Zenon DEF sa_line
  <2>2. ~(st.err \/ l.kind = "ignored") /\ ~p /\ ~q /\ ~r /\ ~s
    BY <1>6, Zenon
  <2> HIDE DEF p, q, r, s, a, b, c, d
  <2>3. sa_line(st, l) = d
    BY <2>1, <2>2, Zenon
  <2> QED
    BY <2>3, Zenon DEF d
<1> QED
  BY <1>1, <1>2, <1>3, <1>4, <1>5, <1>6, Zenon

LEMMA DigestLength ==
  ASSUME NEW k \in DOMAIN key_cfg
  PROVE  key_cfg[k].digest \in {16, 32}
BY SMTT(30) DEF key_cfg

\* The fields after a turn.
LEMMA SaLineTyped ==
  ASSUME NEW st, SaTyped(st), ~st.err, NEW l, IsSaLine(l), NEW t, t = sa_line(st, l)
  PROVE  SaTyped(t)
<1>f. DOMAIN st = {"step", "own", "keys", "spps", "err"}
  BY Zenon DEF SaTyped
<1>1. CASE t = st
  BY <1>1, Zenon
<1>2. CASE t = [CloseSpp(st) EXCEPT
                  !.step = IF l.name = "security_association" THEN 1 ELSE 0]
  <2> DEFINE x == CloseSpp(st)
             i == IF l.name = "security_association" THEN 1 ELSE 0
  <2>1. SaTyped(x)
    <3>1. x = CloseSpp(st)
      BY Zenon
    <3> HIDE DEF x
    <3> QED
      BY <3>1, CloseSppFields, Zenon
  <2>2. t = [x EXCEPT !.step = i]
    BY <1>2, Zenon
  <2> HIDE DEF x, i
  <2>3. DOMAIN x = {"step", "own", "keys", "spps", "err"}
    BY <2>1, Zenon DEF SaTyped
  <2>4. DOMAIN t = DOMAIN x /\ t.keys = x.keys /\ t.spps = x.spps
    BY <2>2, <2>3
  <2> QED
    BY <2>1, <2>4, Zenon DEF SaTyped
<1>3. CASE t = [st EXCEPT !.step = 2, !.own = l.n, !.keys = Empty]
  <2>1. DOMAIN t = DOMAIN st /\ t.keys = Empty /\ t.spps = st.spps
    BY <1>3, <1>f
  <2>2. KeysTyped(Empty)
    BY DEF KeysTyped, Empty
  <2> QED
    BY <2>1, <2>2, Zenon DEF SaTyped
<1>4. CASE /\ l.kind = "key"
           /\ t = [st EXCEPT !.keys = Put(st.keys, l.n, key_cfg[l.type].digest)]
  <2> DEFINE x == Put(st.keys, l.n, key_cfg[l.type].digest)
  <2>1. key_cfg[l.type].digest \in {16, 32}
    BY <1>4, DigestLength, Zenon DEF IsSaLine
  <2>2. KeysTyped(x)
    BY <2>1, Zenon DEF SaTyped, KeysTyped, Put
  <2>3. t = [st EXCEPT !.keys = x]
    BY <1>4, Zenon
  <2> HIDE DEF x
  <2>4. DOMAIN t = DOMAIN st /\ t.keys = x /\ t.spps = st.spps
    BY <1>f, <2>3
  <2> QED
    BY <2>2, <2>4, Zenon DEF SaTyped
<1>5. CASE t = [st EXCEPT !.err = TRUE]
  <2>1. DOMAIN t = DOMAIN st /\ t.keys = st.keys /\ t.spps = st.spps
    BY <1>5, <1>f
  <2> QED
    BY <2>1, Zenon DEF SaTyped
<1> QED
  BY <1>1, <1>2, <1>3, <1>4, <1>5, SaLineCases, Zenon

\* A section ends an association.
ClosedAs(st, t) ==
    t.step \in {0, 1} /\ t.spps = CloseSpp(st).spps /\ ~CloseSpp(st).err

\* A turn of read_sa that finds no error keeps the reader with the lines.
TurnIsRight(st, L, l, M) ==
    SaTyped(st) /\ ~st.err /\ SaAgrees(st, L) /\ IsSaLine(l) /\ IsNext(L, l, M)
      /\ ~sa_line(st, l).err => SaAgrees(sa_line(st, l), M)

\* It does so for every line, from what the line adds to spps, keys and associations.
LEMMA SaTurnAgrees == \A st, L, l, M : TurnIsRight(st, L, l, M)
<1>SppLineSame.
    ASSUME NEW L, NEW l, NEW M, IsNext(L, l, M), NEW i \in 0 .. Len(L)
    PROVE  SppLine(M, i) = SppLine(L, i)
  <2> USE <1>SppLineSame
  <2> DEFINE s == SectionStart(L, i)
  <2>1. i \in Nat /\ \A j \in 0 .. i : j # 0 => M[j] = L[j]
    BY DEF IsNext
  <2>2. SectionStart(M, i) = s /\ s \in 0 .. i
    BY <2>1, SectionStartSame, SectionStartRange, Zenon
  <2> HIDE DEF s
  <2>3. \A j \in s .. i : j \in 0 .. i /\ (j > 0 => j # 0)
    BY <2>1, <2>2
  <2>4. SppsFrom(M, s, i) = SppsFrom(L, s, i)
    BY <2>1, <2>3, Zenon DEF SppsFrom
  <2>5. SppLine(M, i) = IF s = 0 \/ SppsFrom(M, s, i) = {} THEN 0
                        ELSE Earliest(SppsFrom(M, s, i))
    BY <2>2, SppLineIs, Zenon
  <2>6. SppLine(L, i) = IF s = 0 \/ SppsFrom(L, s, i) = {} THEN 0
                        ELSE Earliest(SppsFrom(L, s, i))
    BY SppLineIs, Zenon DEF s
  <2> QED
    BY <2>4, <2>5, <2>6
\* A section starts without an spp, the first spp of a section is its own, and
\* other lines leave it.
<1>SppLineNext.
    ASSUME NEW L, NEW l, NEW M, IsNext(L, l, M)
    PROVE  LET n == Len(L)
               c == SppLine(L, n)
           IN  /\ l.kind = "section" => SppLine(M, n + 1) = 0
               /\ l.kind # "section" /\ c # 0 => SppLine(M, n + 1) = c
               /\ l.kind = "spp" /\ c = 0 /\ SectionStart(L, n) # 0 =>
                    SppLine(M, n + 1) = n + 1
               /\ l.kind \notin {"section", "spp"} /\ c = 0 => SppLine(M, n + 1) = 0
  <2> USE <1>SppLineNext
  <2> DEFINE n == Len(L)
             c == SppLine(L, n)
             s == SectionStart(L, n)
             t == SectionStart(M, n + 1)
             A == SppsFrom(L, s, n)
             B == SppsFrom(M, t, n + 1)
  <2>0. n \in Nat /\ M[n + 1] = l /\ \A j \in 1 .. n : M[j] = L[j]
    BY DEF IsNext
  <2>1. t = IF l.kind = "section" THEN n + 1 ELSE s
    BY SectionStartNext, Zenon
  <2>2. s \in 0 .. n
    BY <2>0, SectionStartRange, Zenon
  <2>3. SppLine(M, n + 1) = IF t = 0 \/ B = {} THEN 0 ELSE Earliest(B)
    BY SppLineIs, Zenon
  <2>4. c = IF s = 0 \/ A = {} THEN 0 ELSE Earliest(A)
    BY SppLineIs, Zenon
  <2>r. c # 0 => s # 0 /\ c \in A /\ \A j \in A : c <= j
    BY <2>0, SppLineRange, Zenon
  <2>k. "section" # "spp"
    OBVIOUS
  <2>5. ASSUME l.kind = "section" PROVE SppLine(M, n + 1) = 0
    <3>1. \A j \in n + 1 .. n + 1 : M[j].kind # "spp"
      BY <2>0, <2>5, <2>k
    <3>2. t = n + 1
      BY <2>1, <2>5, Zenon
    <3>3. B = {}
      BY <3>1, <3>2, Zenon DEF SppsFrom
    <3> QED
      BY <2>3, <3>3, Zenon
  <2>6. ASSUME l.kind # "section"
        PROVE  /\ t = s /\ \A j \in 1 .. n : j \in A <=> j \in B
               /\ n + 1 \in B <=> l.kind = "spp"
               /\ A \subseteq 1 .. n /\ B \subseteq 1 .. n + 1
    <3>1. t = s
      BY <2>1, <2>6, Zenon
    <3>2. \A j \in 1 .. n : (j \in s .. n <=> j \in s .. n + 1)
      BY <2>0, <2>2
    <3>3. n + 1 \in s .. n + 1 /\ n + 1 > 0 /\ \A j \in 1 .. n : j > 0
      BY <2>0, <2>2
    <3>4. /\ \A j \in s .. n : j > 0 => j \in 1 .. n
          /\ \A j \in s .. n + 1 : j > 0 => j \in 1 .. n + 1
      BY <2>0, <2>2
    <3> HIDE DEF n, s, t
    <3>5. \A j \in 1 .. n : j \in A <=> j \in B
      BY <2>0, <3>1, <3>2, <3>3, Zenon DEF SppsFrom
    <3>6. n + 1 \in B <=> l.kind = "spp"
      BY <2>0, <3>1, <3>3, Zenon DEF SppsFrom
    <3>7. A \subseteq 1 .. n /\ B \subseteq 1 .. n + 1
      BY <3>1, <3>4, Zenon DEF SppsFrom
    <3> QED
      BY <3>1, <3>5, <3>6, <3>7, Zenon
  <2> HIDE DEF c, s, t, A, B
  <2>7. ASSUME l.kind # "section", c # 0 PROVE SppLine(M, n + 1) = c
    <3>1. c \in A /\ c \in 1 .. n /\ c \in B /\ t # 0
      BY <2>6, <2>7, <2>r, Zenon
    <3>2. ASSUME NEW j \in B PROVE c <= j
      <4>1. CASE j \in 1 .. n
        BY <2>6, <2>7, <2>r, <4>1, Zenon
      <4>2. CASE j \notin 1 .. n
        <5>1. j = n + 1
          BY <2>0, <2>6, <2>7, <4>2, SMTT(30)
        <5> QED
          BY <2>0, <3>1, <5>1
      <4> QED
        BY <4>1, <4>2
    <3>3. B \subseteq Nat
      BY <2>0, <2>6, <2>7
    <3>4. Earliest(B) = c
      BY <3>1, <3>2, <3>3, EarliestIs, Zenon
    <3> QED
      BY <2>3, <3>1, <3>4, Zenon
  <2>8. ASSUME c = 0, s # 0 PROVE A = {}
    <3>1. CASE A # {}
      <4>1. c = Earliest(A)
        BY <2>4, <2>8, <3>1, Zenon
      <4>2. A \subseteq Nat /\ 0 \notin A
        BY DEF A, SppsFrom
      <4>3. Earliest(A) \in A
        BY <3>1, <4>2, HasEarliest, Zenon
      <4> QED
        BY <2>8, <4>1, <4>2, <4>3, Zenon
    <3> QED
      BY <3>1
  <2>9. ASSUME l.kind = "spp", c = 0, s # 0 PROVE SppLine(M, n + 1) = n + 1
    <3>1. l.kind # "section" /\ A = {}
      BY <2>8, <2>9, <2>k, Zenon
    <3>2. n + 1 \in B /\ t # 0
      BY <2>6, <2>9, <3>1, Zenon
    <3>3. B \subseteq Nat /\ \A j \in B : n + 1 <= j
      <4>1. \A j \in B : j \notin 1 .. n
        BY <2>6, <3>1, Zenon
      <4> QED
        BY <2>0, <2>6, <3>1, <4>1
    <3>4. Earliest(B) = n + 1
      BY <3>2, <3>3, EarliestIs, Zenon
    <3> QED
      BY <2>3, <3>2, <3>4, Zenon
  <2>10. ASSUME l.kind # "section", l.kind # "spp", c = 0 PROVE SppLine(M, n + 1) = 0
    <3>1. CASE s = 0
      BY <2>3, <2>6, <2>10, <3>1, Zenon
    <3>2. CASE s # 0
      <4>1. \A j \in 1 .. n + 1 : j \in 1 .. n \/ j = n + 1
        BY <2>0
      <4>2. B = {}
        BY <2>6, <2>8, <2>10, <3>2, <4>1, Zenon
      <4> QED
        BY <2>3, <4>2, Zenon
    <3> QED
      BY <3>1, <3>2
  <2> QED
    BY <2>5, <2>7, <2>9, <2>10, Zenon DEF c, s
<1>SppLinesNext.
    ASSUME NEW L, NEW l, NEW M, IsNext(L, l, M)
    PROVE  SppLines(M) = SppLines(L) \union ({SppLine(M, Len(L) + 1)} \ {0})
  <2> USE <1>SppLinesNext
  <2> DEFINE n == Len(L)
  <2>1. n \in Nat /\ DOMAIN L = 1 .. n /\ DOMAIN M = 1 .. n + 1
    BY DEF IsNext
  <2>2. /\ \A i : i \in 1 .. n + 1 <=> i \in 1 .. n \/ i = n + 1
        /\ \A i \in 1 .. n : i \in 0 .. n
    BY <2>1
  <2>3. \A i \in 1 .. n : SppLine(M, i) = SppLine(L, i)
    BY <2>2, <1>SppLineSame, Zenon
  <2> HIDE DEF n
  <2>4. ASSUME NEW x PROVE x \in SppLines(M) <=>
                           x \in SppLines(L) \/ (x = SppLine(M, n + 1) /\ x # 0)
    <3>1. x \in SppLines(M) <=> x # 0 /\ \E i \in 1 .. n + 1 : x = SppLine(M, i)
      BY <2>1, Zenon DEF SppLines
    <3>2. x \in SppLines(L) <=> x # 0 /\ \E i \in 1 .. n : x = SppLine(L, i)
      BY <2>1, Zenon DEF SppLines
    <3> QED
      BY <2>2, <2>3, <3>1, <3>2
  <2>5. SppLines(M) = SppLines(L) \union ({SppLine(M, n + 1)} \ {0})
    BY <2>4
  <2> QED
    BY <2>5, Zenon DEF n
\* The lines with the keys of an association.
<1>KeyLinesNext.
    ASSUME NEW L, NEW l, NEW M, IsNext(L, l, M), NEW i
    PROVE  /\ l.kind = "key" /\ SppLine(M, Len(L) + 1) = i =>
                KeyLines(M, i) = KeyLines(L, i) \union {Len(L) + 1}
           /\ ~(l.kind = "key" /\ SppLine(M, Len(L) + 1) = i) =>
                KeyLines(M, i) = KeyLines(L, i)
           /\ KeyLines(L, i) \subseteq 1 .. Len(L)
  <2> USE <1>KeyLinesNext
  <2> DEFINE n == Len(L)
  <2>1. /\ n \in Nat /\ DOMAIN L = 1 .. n /\ DOMAIN M = 1 .. n + 1
        /\ M[n + 1] = l /\ \A j \in 1 .. n : M[j] = L[j]
    BY DEF IsNext
  <2>2. /\ \A j : j \in 1 .. n + 1 <=> j \in 1 .. n \/ j = n + 1
        /\ \A j \in 1 .. n : j \in 0 .. n
    BY <2>1, SMTT(30)
  <2>3. \A j \in 1 .. n : SppLine(M, j) = SppLine(L, j)
    BY <2>2, <1>SppLineSame, Zenon
  <2> HIDE DEF n
  <2>4. ASSUME NEW j
        PROVE  /\ j \in KeyLines(M, i) <=>
                    j \in 1 .. n + 1 /\ M[j].kind = "key" /\ SppLine(M, j) = i
               /\ j \in KeyLines(L, i) <=>
                    j \in 1 .. n /\ L[j].kind = "key" /\ SppLine(L, j) = i
    BY <2>1, Zenon DEF KeyLines
  <2>5. ASSUME NEW j
        PROVE  j \in KeyLines(M, i) <=>
                 \/ j \in KeyLines(L, i)
                 \/ j = n + 1 /\ l.kind = "key" /\ SppLine(M, n + 1) = i
    BY <2>1, <2>2, <2>3, <2>4
  <2>6. CASE l.kind = "key" /\ SppLine(M, n + 1) = i
    <3>1. KeyLines(M, i) = KeyLines(L, i) \union {n + 1}
      BY <2>5, <2>6
    <3> QED
      BY <2>4, <2>6, <3>1, Zenon DEF n
  <2>7. CASE ~(l.kind = "key" /\ SppLine(M, n + 1) = i)
    <3>1. KeyLines(M, i) = KeyLines(L, i)
      BY <2>5, <2>7
    <3> QED
      BY <2>4, <2>7, <3>1, Zenon DEF n
  <2> QED
    BY <2>6, <2>7
<1>KeyLinesSame.
    ASSUME NEW L, NEW l, NEW M, IsNext(L, l, M), NEW i,
           ~(l.kind = "key" /\ SppLine(M, Len(L) + 1) = i)
    PROVE  KeyLines(M, i) = KeyLines(L, i)
  BY <1>KeyLinesSame, <1>KeyLinesNext
<1>KeyLinesAdd.
    ASSUME NEW L, NEW l, NEW M, IsNext(L, l, M), NEW i,
           l.kind = "key", SppLine(M, Len(L) + 1) = i
    PROVE  KeyLines(M, i) = KeyLines(L, i) \union {Len(L) + 1}
  BY <1>KeyLinesAdd, <1>KeyLinesNext
<1>KeyLinesRange.
    ASSUME NEW L, NEW i, DOMAIN L = 1 .. Len(L)
    PROVE  KeyLines(L, i) \subseteq 1 .. Len(L)
  BY <1>KeyLinesRange, Zenon DEF KeyLines
<1>KeysOfIs.
    ASSUME NEW L, NEW i
    PROVE  KeysOf(L, i) = Digests(KeyIds(L, i), L, i)
  BY <1>KeysOfIs, Zenon DEF KeysOf, Digests, Digest, KeyLine, LinesOfKey, KeyIds
<1>DomainKeysOf.
    ASSUME NEW L, NEW i
    PROVE  /\ DOMAIN KeysOf(L, i) = KeyIds(L, i)
           /\ \A id \in KeyIds(L, i) : KeysOf(L, i)[id] = Digest(L, i, id)
  <2> USE <1>DomainKeysOf
  <2> DEFINE D == KeyIds(L, i)
  <2>1. KeysOf(L, i) = Digests(D, L, i)
    BY <1>KeysOfIs, Zenon
  <2> HIDE DEF D
  <2>2. DOMAIN Digests(D, L, i) = D /\ \A id \in D : Digests(D, L, i)[id] = Digest(L, i, id)
    BY Zenon DEF Digests
  <2> QED
    BY <2>1, <2>2, Zenon DEF D
<1>KeyLineIn.
    ASSUME NEW L, NEW i, NEW id \in KeyIds(L, i), DOMAIN L = 1 .. Len(L)
    PROVE  KeyLine(L, i, id) \in KeyLines(L, i) /\ KeyLine(L, i, id) \in DOMAIN L
  <2> USE <1>KeyLineIn
  <2> DEFINE S == LinesOfKey(L, i, id)
  <2>1. S # {}
    BY Zenon DEF KeyIds, LinesOfKey
  <2>2. S \subseteq KeyLines(L, i) /\ KeyLines(L, i) \subseteq DOMAIN L
    BY Zenon DEF KeyLines, LinesOfKey
  <2>3. DOMAIN L \subseteq Nat
    OBVIOUS
  <2> HIDE DEF S
  <2>4. S \subseteq Nat
    BY <2>2, <2>3, Zenon
  <2>5. Earliest(S) \in S
    BY <2>1, <2>4, HasEarliest, Zenon
  <2> QED
    BY <2>2, <2>5, Zenon DEF KeyLine, S
<1>KeysOfSame.
    ASSUME NEW L, NEW l, NEW M, IsNext(L, l, M), NEW i,
           ~(l.kind = "key" /\ SppLine(M, Len(L) + 1) = i)
    PROVE  KeysKept(L, M, i)
  <2> USE <1>KeysOfSame
  <2> DEFINE D == KeyIds(L, i)
  <2>0. KeyLines(M, i) = KeyLines(L, i)
    BY <1>KeyLinesSame
  <2>r. KeyLines(L, i) \subseteq 1 .. Len(L)
    BY <1>KeyLinesRange, Zenon DEF IsNext
  <2>1. KeyLines(M, i) = KeyLines(L, i) /\ KeyLines(L, i) \subseteq 1 .. Len(L)
    BY <2>0, <2>r
  <2>2. \A j \in KeyLines(L, i) : M[j] = L[j]
    BY <2>1, Zenon DEF IsNext
  <2>3. KeyIds(M, i) = D
    BY <2>1, <2>2 DEF KeyIds
  <2> HIDE DEF D
  <2>4. ASSUME NEW id \in D PROVE Digest(M, i, id) = Digest(L, i, id)
    <3>1. LinesOfKey(M, i, id) = LinesOfKey(L, i, id)
      BY <2>1, <2>2, Zenon DEF LinesOfKey
    <3>2. KeyLine(M, i, id) = KeyLine(L, i, id)
      BY <3>1, Zenon DEF KeyLine
    <3>3. KeyLine(L, i, id) \in KeyLines(L, i)
      BY <1>KeyLineIn, Zenon DEF D, IsNext
    <3> QED
      BY <2>2, <3>2, <3>3, Zenon DEF Digest
  <2>5. Digests(D, M, i) = Digests(D, L, i)
    BY <2>4, Zenon DEF Digests
  <2> QED
    BY <2>3, <2>5, <1>KeysOfIs, Zenon DEF D, KeysKept
<1>KeysOfNext.
    ASSUME NEW L, NEW l, NEW M, IsNext(L, l, M), NEW i,
           l.kind = "key", SppLine(M, Len(L) + 1) = i, l.n \notin DOMAIN KeysOf(L, i)
    PROVE  KeyAdded(L, l, M, i)
  <2> USE <1>KeysOfNext
  <2> DEFINE n == Len(L)
             K == KeyLines(L, i)
             D == KeyIds(L, i)
             d == key_cfg[l.type].digest
  <2>0. /\ n \in Nat /\ DOMAIN L = 1 .. n /\ M[n + 1] = l
        /\ \A j \in 1 .. n : M[j] = L[j]
    BY Zenon DEF IsNext
  <2>a. KeyLines(M, i) = K \union {n + 1}
    BY <1>KeyLinesAdd, SMTT(30)
  <2>r. K \subseteq 1 .. n
    BY <2>0, <1>KeyLinesRange, Zenon
  <2>1. KeyLines(M, i) = K \union {n + 1} /\ K \subseteq 1 .. n
    BY <2>a, <2>r
  <2>2. \A j \in K : M[j] = L[j]
    BY <2>0, <2>1, Zenon
  <2>d. l.n \notin D /\ DOMAIN KeysOf(L, i) = D
    BY <1>DomainKeysOf, Zenon
  <2>e. \A id \in D : KeysOf(L, i)[id] = Digest(L, i, id)
    BY <1>DomainKeysOf, Zenon
  <2>3. \A j \in K : L[j].n # l.n
    BY <2>d, Zenon DEF KeyIds
  <2> HIDE DEF K, n, d
  <2>4. KeyIds(M, i) = D \union {l.n}
    <3>0. ASSUME NEW x PROVE x \in KeyIds(M, i) <=> \E j \in KeyLines(M, i) : x = M[j].n
      BY Zenon DEF KeyIds
    <3>1. ASSUME NEW x PROVE x \in KeyIds(M, i) <=> x = l.n \/ \E j \in K : x = L[j].n
      BY <2>0, <2>1, <2>2, <3>0, ZenonT(30)
    <3>2. ASSUME NEW x PROVE x \in D <=> \E j \in K : x = L[j].n
      BY Zenon DEF KeyIds, K
    <3> HIDE DEF D
    <3> QED
      BY <3>1, <3>2, Zenon
  <2> HIDE DEF D
  <2>5. ASSUME NEW id \in D PROVE id # l.n /\ Digest(M, i, id) = Digest(L, i, id)
    <3>1. LinesOfKey(M, i, id) = LinesOfKey(L, i, id)
      <4>1. M[n + 1].n # id
        BY <2>0, <2>d, Zenon
      <4> QED
        BY <2>1, <2>2, <4>1, Zenon DEF LinesOfKey, K
    <3>2. KeyLine(M, i, id) = KeyLine(L, i, id)
      BY <3>1, Zenon DEF KeyLine
    <3>3. KeyLine(L, i, id) \in K
      BY <1>KeyLineIn, Zenon DEF D, K, IsNext
    <3> QED
      BY <2>2, <2>d, <3>2, <3>3, Zenon DEF Digest
  <2>6. Digest(M, i, l.n) = d
    <3>1. LinesOfKey(M, i, l.n) = {n + 1}
      BY <2>0, <2>1, <2>2, <2>3, Zenon DEF LinesOfKey
    <3>2. Earliest({n + 1}) = n + 1
      <4>1. {n + 1} \subseteq Nat /\ n + 1 \in {n + 1} /\ \A j \in {n + 1} : n + 1 <= j
        BY <2>0
      <4> QED
        BY <4>1, EarliestIs, Zenon
    <3> QED
      BY <2>0, <3>1, <3>2, Zenon DEF KeyLine, Digest, d
  <2>7. Digests(D \union {l.n}, M, i) = Put(KeysOf(L, i), l.n, d)
    <3>1. \A id \in D \union {l.n} : Digest(M, i, id) =
            IF id = l.n THEN d ELSE KeysOf(L, i)[id]
      BY <2>5, <2>6, <2>e, Zenon
    <3> QED
      BY <2>d, <3>1, Zenon DEF Digests, Put
  <2> QED
    BY <2>4, <2>7, <1>KeysOfIs, Zenon DEF d, KeyAdded
\* No key precedes the spp of its association.
<1>KeysOfNew.
    ASSUME NEW L, NEW l, NEW M, IsNext(L, l, M), l.kind = "spp"
    PROVE  KeysOf(M, Len(L) + 1) = Empty
  <2> USE <1>KeysOfNew
  <2> DEFINE n == Len(L)
  <2>1. n \in Nat /\ DOMAIN L = 1 .. n
    BY Zenon DEF IsNext
  <2>2. KeyLines(M, n + 1) = KeyLines(L, n + 1)
    <3>1. l.kind # "key"
      OBVIOUS
    <3> QED
      BY <3>1, <1>KeyLinesSame
  <2>3. ASSUME NEW j \in 1 .. n PROVE SppLine(L, j) # n + 1
    <3>1. SppLine(L, j) \in 0 .. j
      BY <2>1, SppLineRange
    <3> QED
      BY <2>1, <3>1
  <2>4. KeyLines(L, n + 1) = {}
    BY <2>1, <2>3, Zenon DEF KeyLines
  <2> HIDE DEF n
  <2>5. KeyIds(M, n + 1) = {}
    BY <2>2, <2>4, Zenon DEF KeyIds
  <2>6. Digests({}, M, n + 1) = Empty
    BY DEF Digests, Empty
  <2> QED
    BY <2>5, <2>6, <1>KeysOfIs, Zenon DEF n
<1>LatestOfSpp.
    ASSUME NEW L, NEW n \in Nat, NEW S, S \subseteq 1 .. n, NEW id \in SppIds(L, S)
    PROVE  Latest(LinesOfSpp(L, S, id)) \in S
  <2> USE <1>LatestOfSpp
  <2> DEFINE A == LinesOfSpp(L, S, id)
  <2>1. A # {} /\ A \subseteq S
    BY Zenon DEF SppIds, LinesOfSpp
  <2> HIDE DEF A
  <2>2. A \subseteq 0 .. n
    BY <2>1
  <2>3. Latest(A) \in A
    BY <2>1, <2>2, HasLatest, Zenon
  <2> QED
    BY <2>1, <2>3, Zenon DEF A
<1>AssociationsSame.
    ASSUME NEW L, NEW l, NEW M, IsNext(L, l, M), NEW S, SameKeys(L, M, S)
    PROVE  SameAssociations(L, M, S)
  <2> USE <1>AssociationsSame
  <2> DEFINE D == SppIds(L, S)
  <2>0. S \subseteq 1 .. Len(L) /\ \A i \in S : KeysOf(M, i) = KeysOf(L, i)
    BY Zenon DEF SameKeys
  <2>1. \A i \in S : M[i] = L[i]
    BY <2>0, Zenon DEF IsNext
  <2>2. SppIds(M, S) = D
    BY <2>1 DEF SppIds
  <2>3. ASSUME NEW id \in D
        PROVE  KeysOf(M, Latest(LinesOfSpp(M, S, id))) = KeysOf(L, Latest(LinesOfSpp(L, S, id)))
    <3>1. LinesOfSpp(M, S, id) = LinesOfSpp(L, S, id)
      BY <2>1, Zenon DEF LinesOfSpp
    <3>2. Len(L) \in Nat
      BY Zenon DEF IsNext
    <3>3. Latest(LinesOfSpp(L, S, id)) \in S
      BY <2>0, <3>2, <1>LatestOfSpp, Zenon
    <3> QED
      BY <2>0, <3>1, <3>3, Zenon
  <2> HIDE DEF D
  <2>4. LatestKeys(D, M, S) = LatestKeys(D, L, S)
    BY <2>3, Zenon DEF LatestKeys
  <2> QED
    BY <2>2, <2>4, AssociationsIs, Zenon DEF D, SameAssociations
\* Only the line of a key changes associations that are there.
<1>AssociationsKept.
    ASSUME NEW L, NEW l, NEW M, IsNext(L, l, M), l.kind # "key",
           NEW S, S \subseteq 1 .. Len(L)
    PROVE  SameAssociations(L, M, S)
  <2> USE <1>AssociationsKept
  <2>1. \A i \in S : KeysOf(M, i) = KeysOf(L, i)
    <3>1. \A i \in S : KeysKept(L, M, i)
      BY <1>KeysOfSame, Zenon
    <3> QED
      BY <3>1, Zenon DEF KeysKept
  <2>2. SameKeys(L, M, S)
    BY <2>1, Zenon DEF SameKeys
  <2> QED
    BY <2>2, <1>AssociationsSame, Zenon
\* A line that is accepted and ignored.
<1>SaStays.
    ASSUME NEW st, NEW L, SaAgrees(st, L), NEW l, NEW M, IsNext(L, l, M),
           \/ l.kind = "ignored"
           \/ st.step = 2 /\ l.kind \in {"spp", "word"}
    PROVE  SaAgrees(st, M)
  <2> USE <1>SaStays
  <2> DEFINE n == Len(L)
             c == SppLine(L, n)
             S == SppLines(L)
  <2>0. /\ n \in Nat /\ Len(M) = n + 1 /\ \A j \in 1 .. n : M[j] = L[j]
        /\ DOMAIN L = 1 .. n
    BY Zenon DEF IsNext
  <2>k. l.kind # "section" /\ l.kind # "key"
    OBVIOUS
  <2>1. /\ st.step = 2 <=> c # 0
        /\ st.step = 1 => SectionStart(L, n) # 0
        /\ c # 0 => /\ st.own = L[c].n /\ st.keys = KeysOf(L, c)
                    /\ \A i \in S : i <= c
        /\ st.spps = Associations(L, S \ {c})
    BY Zenon DEF SaAgrees
  <2>2. SppLine(M, n + 1) = c
    <3>1. CASE c # 0
      BY <2>k, <3>1, <1>SppLineNext
    <3>2. CASE c = 0
      <4>1. l.kind \notin {"section", "spp"}
        BY <2>1, <3>2
      <4> QED
        BY <3>2, <4>1, <1>SppLineNext
    <3> QED
      BY <3>1, <3>2
  <2>3. S \subseteq 1 .. n /\ (c # 0 => c \in S)
    BY <2>0, SppLinesRange
  <2>4. SppLines(M) = S
    <3>1. SppLines(M) = S \union ({c} \ {0})
      BY <2>2, <1>SppLinesNext
    <3> QED
      BY <2>3, <3>1, Zenon
  <2>5. SectionStart(M, n + 1) = SectionStart(L, n)
    BY <2>k, SectionStartNext, Zenon
  <2>6. ASSUME NEW i PROVE KeysOf(M, i) = KeysOf(L, i)
    <3>1. KeysKept(L, M, i)
      BY <2>k, <1>KeysOfSame, Zenon
    <3> QED
      BY <3>1, Zenon DEF KeysKept
  <2>7. c # 0 => M[c] = L[c]
    BY <2>0, <2>3, Zenon
  <2>8. Associations(M, S \ {c}) = Associations(L, S \ {c})
    <3> DEFINE R == S \ {c}
    <3>1. R \subseteq 1 .. Len(L)
      BY <2>3, Zenon
    <3> HIDE DEF R
    <3>2. SameAssociations(L, M, R)
      BY <2>k, <3>1, <1>AssociationsKept, Zenon
    <3> QED
      BY <3>2, Zenon DEF R, SameAssociations
  <2> HIDE DEF c, S, n
  <2> QED
    BY <2>0, <2>1, <2>2, <2>4, <2>5, <2>6, <2>7, <2>8, Zenon DEF SaAgrees
<1>SaSection.
    ASSUME NEW st, SaTyped(st), NEW L, SaAgrees(st, L), NEW l, NEW M, IsNext(L, l, M),
           l.kind = "section", NEW t, ClosedAs(st, t)
    PROVE  SaAgrees(t, M)
  <2> USE <1>SaSection
  <2>c. t.step \in {0, 1} /\ t.spps = CloseSpp(st).spps /\ ~CloseSpp(st).err
    BY Zenon DEF ClosedAs
  <2> DEFINE n == Len(L)
             S == SppLines(L)
  <2>0. n \in Nat /\ Len(M) = n + 1 /\ DOMAIN L = 1 .. n
    BY Zenon DEF IsNext
  <2>1. t.spps = Associations(L, S)
    BY <2>0, <2>c, CloseSppAgrees, Zenon
  <2>2. SppLine(M, n + 1) = 0
    BY <1>SppLineNext
  <2>3. S \subseteq 1 .. n
    BY <2>0, SppLinesRange
  <2>4. SppLines(M) = S
    <3>1. SppLines(M) = S \union ({0} \ {0})
      BY <2>2, <1>SppLinesNext
    <3> QED
      BY <3>1
  <2>5. SectionStart(M, n + 1) # 0
    <3>1. SectionStart(M, n + 1) = n + 1
      BY SectionStartNext, Zenon
    <3> QED
      BY <2>0, <3>1
  <2>6. Associations(M, S) = Associations(L, S)
    <3>1. l.kind # "key"
      OBVIOUS
    <3>2. SameAssociations(L, M, S)
      BY <2>3, <3>1, <1>AssociationsKept, Zenon
    <3> QED
      BY <3>2, Zenon DEF SameAssociations
  <2>7. S \ {0} = S /\ t.step # 2
    BY <2>0, <2>3, <2>c, SMTT(30)
  <2> HIDE DEF n, S
  <2> QED
    BY <2>0, <2>1, <2>2, <2>4, <2>5, <2>6, <2>7, Zenon DEF SaAgrees
\* The spp starts an association.
<1>SaSpp.
    ASSUME NEW st, NEW L, SaAgrees(st, L), NEW l, NEW M, IsNext(L, l, M),
           st.step = 1, l.kind = "spp",
           NEW t, t.step = 2, t.own = l.n, t.keys = Empty, t.spps = st.spps
    PROVE  SaAgrees(t, M)
  <2> USE <1>SaSpp
  <2> DEFINE n == Len(L)
             S == SppLines(L)
  <2>0. /\ n \in Nat /\ Len(M) = n + 1 /\ M[n + 1] = l /\ DOMAIN L = 1 .. n
        /\ n + 1 # 0
    BY DEF IsNext
  <2>1. /\ SppLine(L, n) = 0 /\ SectionStart(L, n) # 0
        /\ st.spps = Associations(L, S \ {0})
    <3>1. st.step # 2
      BY SMTT(30)
    <3>2. SppLine(L, n) = 0
      BY <3>1, Zenon DEF SaAgrees
    <3>3. SectionStart(L, n) # 0
      BY Zenon DEF SaAgrees
    <3> QED
      BY <3>2, <3>3, Zenon DEF SaAgrees
  <2>2. SppLine(M, n + 1) = n + 1
    BY <2>1, <1>SppLineNext
  <2>3. S \subseteq 1 .. n
    BY <2>0, SppLinesRange
  <2>4. SppLines(M) = S \union ({n + 1} \ {0})
    BY <2>2, <1>SppLinesNext
  <2>5. S \ {0} = S
    BY <2>0, <2>3
  <2>6. SppLines(M) \ {n + 1} = S /\ \A i \in SppLines(M) : i <= n + 1
    BY <2>0, <2>3, <2>4, SMTT(30)
  <2>7. KeysOf(M, n + 1) = Empty
    BY <1>KeysOfNew, Zenon
  <2>8. SameAssociations(L, M, S)
    <3>1. l.kind # "key"
      OBVIOUS
    <3> QED
      BY <2>3, <3>1, <1>AssociationsKept, Zenon
  <2>9. t.step = 1 => FALSE
    OBVIOUS
  <2> HIDE DEF n, S
  <2>10. t.spps = Associations(M, S)
    BY <2>1, <2>5, <2>8, Zenon DEF SameAssociations
  <2> QED
    BY <2>0, <2>2, <2>6, <2>7, <2>9, <2>10, Zenon DEF SaAgrees
\* A key is added to the association it is in.
<1>SaKey.
    ASSUME NEW st, NEW L, SaAgrees(st, L), NEW l, NEW M, IsNext(L, l, M),
           st.step = 2, l.kind = "key", l.n \notin DOMAIN st.keys,
           NEW t, t.step = 2, t.own = st.own, t.spps = st.spps,
           t.keys = Put(st.keys, l.n, key_cfg[l.type].digest)
    PROVE  SaAgrees(t, M)
  <2> USE <1>SaKey
  <2> DEFINE n == Len(L)
             c == SppLine(L, n)
             S == SppLines(L)
  <2>0. /\ n \in Nat /\ Len(M) = n + 1 /\ \A j \in 1 .. n : M[j] = L[j]
        /\ DOMAIN L = 1 .. n
    BY Zenon DEF IsNext
  <2>1. /\ c # 0 /\ st.own = L[c].n /\ st.keys = KeysOf(L, c)
        /\ \A i \in S : i <= c
        /\ st.spps = Associations(L, S \ {c})
    BY Zenon DEF SaAgrees
  <2>2. SppLine(M, n + 1) = c
    <3>1. l.kind # "section"
      OBVIOUS
    <3> QED
      BY <2>1, <3>1, <1>SppLineNext, Zenon
  <2>3. S \subseteq 1 .. n /\ c \in S
    BY <2>0, <2>1, SppLinesRange, Zenon
  <2>4. SppLines(M) = S
    <3>1. SppLines(M) = S \union ({c} \ {0})
      BY <2>2, <1>SppLinesNext
    <3> QED
      BY <2>3, <3>1, Zenon
  <2>5. KeysOf(M, c) = Put(KeysOf(L, c), l.n, key_cfg[l.type].digest)
    <3>1. l.n \notin DOMAIN KeysOf(L, c) /\ SppLine(M, Len(L) + 1) = c
      BY <2>1, <2>2, Zenon
    <3> HIDE DEF c, n
    <3>2. KeyAdded(L, l, M, c)
      BY <3>1, <1>KeysOfNext, Zenon
    <3> QED
      BY <3>2, Zenon DEF KeyAdded
  <2>6. SameAssociations(L, M, S \ {c})
    <3> DEFINE R == S \ {c}
    <3>1. R \subseteq 1 .. Len(L)
      BY <2>3, Zenon
    <3>2. ASSUME NEW i \in R PROVE KeysOf(M, i) = KeysOf(L, i)
      <4>1. SppLine(M, Len(L) + 1) # i
        BY <2>2, Zenon
      <4>2. KeysKept(L, M, i)
        BY <4>1, <1>KeysOfSame, Zenon
      <4> QED
        BY <4>2, Zenon DEF KeysKept
    <3>3. SameKeys(L, M, R)
      BY <3>1, <3>2, Zenon DEF SameKeys
    <3> HIDE DEF R
    <3>4. SameAssociations(L, M, R)
      BY <3>3, <1>AssociationsSame, Zenon
    <3> QED
      BY <3>4, Zenon DEF R
  <2>7. M[c] = L[c]
    BY <2>0, <2>3, Zenon
  <2>8. t.step = 1 => FALSE
    BY SMTT(30)
  <2> HIDE DEF c, n, S
  <2>9. t.spps = Associations(M, S \ {c})
    BY <2>1, <2>6, Zenon DEF SameAssociations
  <2>10. t.own = M[c].n /\ t.keys = KeysOf(M, c)
    BY <2>1, <2>5, <2>7, Zenon
  <2> QED
    BY <2>0, <2>1, <2>2, <2>4, <2>8, <2>9, <2>10, Zenon DEF SaAgrees
<1>Turn.
    ASSUME NEW st, SaTyped(st), ~st.err, NEW L, SaAgrees(st, L), NEW l, IsSaLine(l),
           NEW M, IsNext(L, l, M), NEW t, t = sa_line(st, l), ~t.err
    PROVE  SaAgrees(t, M)
  <2> USE <1>Turn
  <2>f. DOMAIN st = {"step", "own", "keys", "spps", "err"}
    BY Zenon DEF SaTyped
  <2>1. CASE l.kind = "ignored" /\ t = st
    BY <2>1, <1>SaStays, Zenon
  <2>2. CASE /\ l.kind = "section"
             /\ t = [CloseSpp(st) EXCEPT
                       !.step = IF l.name = "security_association" THEN 1 ELSE 0]
    <3> DEFINE x == CloseSpp(st)
               i == IF l.name = "security_association" THEN 1 ELSE 0
    <3>1. SaTyped(x)
      <4>1. x = CloseSpp(st)
        BY Zenon
      <4> HIDE DEF x
      <4> QED
        BY <4>1, CloseSppFields, Zenon
    <3>2. t = [x EXCEPT !.step = i] /\ i \in {0, 1}
      BY <2>2, Zenon
    <3> HIDE DEF x, i
    <3>3. DOMAIN x = {"step", "own", "keys", "spps", "err"}
      BY <3>1, Zenon DEF SaTyped
    <3>4. t.step = i /\ t.spps = x.spps /\ t.err = x.err
      BY <3>2, <3>3
    <3>5. ClosedAs(st, t)
      BY <3>2, <3>4, Zenon DEF x, ClosedAs
    <3>6. l.kind = "section"
      BY <2>2, Zenon
    <3> QED
      BY <3>5, <3>6, <1>SaSection, Zenon
  <2>3. CASE /\ st.step = 1 /\ l.kind = "spp"
             /\ t = [st EXCEPT !.step = 2, !.own = l.n, !.keys = Empty]
    <3>1. t.step = 2 /\ t.own = l.n /\ t.keys = Empty /\ t.spps = st.spps
      BY <2>3, <2>f
    <3> QED
      BY <2>3, <3>1, <1>SaSpp, Zenon
  <2>4. CASE /\ st.step = 2 /\ l.kind = "key" /\ l.n \notin DOMAIN st.keys
             /\ t = [st EXCEPT !.keys = Put(st.keys, l.n, key_cfg[l.type].digest)]
    <3> DEFINE x == Put(st.keys, l.n, key_cfg[l.type].digest)
    <3>1. t = [st EXCEPT !.keys = x]
      BY <2>4, Zenon
    <3> HIDE DEF x
    <3>2. t.step = 2 /\ t.own = st.own /\ t.spps = st.spps /\ t.keys = x
      BY <2>4, <2>f, <3>1
    <3>3. st.step = 2 /\ l.kind = "key" /\ l.n \notin DOMAIN st.keys
      BY <2>4, Zenon
    <3>4. t.keys = Put(st.keys, l.n, key_cfg[l.type].digest)
      BY <3>2, Zenon DEF x
    <3> QED
      BY <3>2, <3>3, <3>4, <1>SaKey, Zenon
  <2>5. CASE st.step = 2 /\ l.kind \in {"spp", "word"} /\ t = st
    BY <2>5, <1>SaStays, Zenon
  <2>6. CASE t = [st EXCEPT !.err = TRUE]
    <3>1. t.err = TRUE
      BY <2>6, <2>f
    <3> QED
      BY <3>1
  <2> QED
    BY <2>1, <2>2, <2>3, <2>4, <2>5, <2>6, SaLineCases, Zenon
<1> QED
  BY <1>Turn, Zenon DEF TurnIsRight

\* A new reader, before any line.
LEMMA NewSaAgrees == SaTyped(NewSa) /\ ~NewSa.err /\ SaAgrees(NewSa, <<>>)
<1> DEFINE t == NewSa
           L == <<>>
<1>1. /\ DOMAIN t = {"step", "own", "keys", "spps", "err"}
      /\ t.step = 0 /\ t.keys = Empty /\ t.spps = Empty /\ t.err = FALSE
  BY DEF NewSa
<1>2. KeysTyped(Empty) /\ SppsTyped(Empty)
  BY DEF KeysTyped, SppsTyped, Empty
<1>3. Len(L) = 0 /\ DOMAIN L = {} /\ DOMAIN L = 1 .. 0
  OBVIOUS
<1>4. SppLine(L, 0) = 0
  <2>1. SppLine(L, 0) \in 0 .. 0
    BY SppLineRange
  <2> QED
    BY <2>1
<1>5. SppLines(L) \ {0} = {}
  BY <1>3, Zenon DEF SppLines
<1> HIDE DEF L, t
<1>6. Associations(L, {}) = Empty
  BY DEF Associations, Empty
<1>7. SaTyped(t)
  BY <1>1, <1>2, Zenon DEF SaTyped
<1>8. t.step # 1 /\ t.step # 2
  BY <1>1
<1>9. SaAgrees(t, L)
  BY <1>1, <1>3, <1>4, <1>5, <1>6, <1>8, Zenon DEF SaAgrees
<1> QED
  BY <1>1, <1>7, <1>9, Zenon DEF t, L
---------------------------------------------------------------------------
(* What was read of a file *)

AllLines ==
    CfgLines \union SaLines
      \union (UNION {Range(CfgFiles[f]) : f \in DOMAIN CfgFiles})
      \union (UNION {Range(SaFiles[f]) : f \in DOMAIN SaFiles})

\* P is what was read of F.
Prefix(P, F) == Len(P) <= Len(F) /\ \A i \in 1 .. Len(P) : P[i] = F[i]

LEMMA PrefixEmpty ==
  ASSUME NEW X, NEW F \in Seq(X)
  PROVE  Prefix(<<>>, F)
BY DEF Prefix

LEMMA PrefixNext ==
  ASSUME NEW X, NEW Y, NEW P \in Seq(X), NEW F \in Seq(Y), Prefix(P, F),
         Len(P) < Len(F)
  PROVE  /\ F[Len(P) + 1] \in Y
         /\ Prefix(Append(P, F[Len(P) + 1]), F)
<1> DEFINE n == Len(P)
           l == F[n + 1]
           Q == Append(P, l)
<1>1. n \in Nat /\ Len(F) \in Nat /\ n + 1 \in 1 .. Len(F)
  OBVIOUS
<1>2. l \in Y
  BY <1>1
<1>3. Len(Q) = n + 1 /\ Q[n + 1] = l /\ \A i \in 1 .. n : Q[i] = P[i]
  OBVIOUS
<1>4. \A i \in 1 .. n : P[i] = F[i]
  BY Zenon DEF Prefix
<1>5. \A i \in 1 .. n + 1 : i \in 1 .. n \/ i = n + 1
  BY <1>1
<1> HIDE DEF Q, l
<1>6. \A i \in 1 .. n + 1 : Q[i] = F[i]
  BY <1>3, <1>4, <1>5, Zenon DEF l
<1>7. Len(Q) <= Len(F)
  BY <1>1, <1>3
<1> QED
  BY <1>2, <1>3, <1>6, <1>7, Zenon DEF Prefix, Q, l

LEMMA PrefixWhole ==
  ASSUME NEW X, NEW Y, NEW P \in Seq(X), NEW F \in Seq(Y), Prefix(P, F),
         Len(P) = Len(F)
  PROVE  P = F
<1>1. /\ P = [i \in 1 .. Len(P) |-> P[i]]
      /\ F = [i \in 1 .. Len(F) |-> F[i]]
  OBVIOUS
<1>2. \A i \in 1 .. Len(P) : P[i] = F[i]
  BY Zenon DEF Prefix
<1>3. [i \in 1 .. Len(P) |-> P[i]] = [i \in 1 .. Len(F) |-> F[i]]
  BY <1>2, Zenon
<1> QED
  BY <1>1, <1>3, Zenon

\* The files there are consist of lines.
LEMMA FileOfCfg ==
  ASSUME NEW f \in DOMAIN CfgFiles
  PROVE  /\ CfgFiles[f] \in Seq(Range(CfgFiles[f]))
         /\ \A l \in Range(CfgFiles[f]) : IsCfgLine(l) /\ l \in AllLines
<1>1. /\ CfgFiles[f] \in Seq(Range(CfgFiles[f]))
      /\ \A l \in Range(CfgFiles[f]) : IsCfgLine(l)
  BY FilesAssumption, Zenon
<1>2. Range(CfgFiles[f]) \subseteq AllLines
  BY Zenon DEF AllLines
<1> QED
  BY <1>1, <1>2, Zenon

LEMMA FileOfSa ==
  ASSUME NEW f \in DOMAIN SaFiles
  PROVE  /\ SaFiles[f] \in Seq(Range(SaFiles[f]))
         /\ \A l \in Range(SaFiles[f]) : IsSaLine(l) /\ l \in AllLines
<1>1. /\ SaFiles[f] \in Seq(Range(SaFiles[f]))
      /\ \A l \in Range(SaFiles[f]) : IsSaLine(l)
  BY FilesAssumption, Zenon
<1>2. Range(SaFiles[f]) \subseteq AllLines
  BY Zenon DEF AllLines
<1> QED
  BY <1>1, <1>2, Zenon

LEMMA LinesByThemselves ==
  /\ \A l \in CfgLines : IsCfgLine(l) /\ l \in AllLines
  /\ \A l \in SaLines : IsSaLine(l) /\ l \in AllLines
<1>1. CfgLines \subseteq AllLines /\ SaLines \subseteq AllLines
  BY Zenon DEF AllLines
<1> QED
  BY <1>1, FilesAssumption, Zenon

---------------------------------------------------------------------------
(* The files of process *)

\* The steps after the configuration was read.
Following == {"auth", "sa_F", "sa_cfg", "key", "net", "socket", "done"}
Configuration == IF given("f") THEN CfgFile ELSE <<>>

FileInv ==
    /\ lines \in Seq(AllLines)
    /\ CfgTyped(cfg)
    /\ pc = "options" => CfgAgrees(cfg, <<>>)
    /\ pc \in {"read_cfg", "cfg"} => CfgAgrees(cfg, lines)
    /\ pc = "cfg" => /\ given("f") /\ opts["f"] \in DOMAIN CfgFiles
                     /\ Prefix(lines, CfgFile)
    /\ pc \in Following => CfgAgrees(cfg, Configuration)
    /\ pc \in {"sa_F", "sa_cfg"} => /\ SaName(pc) \in DOMAIN SaFiles
                                   /\ Prefix(lines, SaFile)

LEMMA SameConfiguration ==
  ASSUME UNCHANGED opts
  PROVE  CfgFile' = CfgFile /\ Configuration' = Configuration
<1>1. CfgFile' = CfgFile
  BY Zenon DEF CfgFile
<1>2. given("f")' <=> given("f")
  BY Zenon DEF given
<1> QED
  BY <1>1, <1>2, Zenon DEF Configuration

\* A turn of read_cfg.
LEMMA CfgTurn ==
  ASSUME lines \in Seq(AllLines), CfgTyped(cfg), CfgAgrees(cfg, lines),
         NEW l \in AllLines, IsCfgLine(l), NEW wrong, cfg_turn(l, wrong)
  PROVE  /\ lines' = Append(lines, l) /\ lines' \in Seq(AllLines)
         /\ CfgTyped(cfg')
         /\ pc' = wrong \/ (pc' = pc /\ CfgAgrees(cfg', lines'))
         /\ UNCHANGED <<sa, loaded, opts, auth>>
<1>1. /\ lines' = Append(lines, l) /\ cfg' = cfg_line(cfg, l)
      /\ pc' = IF cfg'.err THEN wrong ELSE pc
      /\ UNCHANGED <<sa, loaded, opts, auth>>
  BY Zenon DEF cfg_turn, options, message
<1>2. IsNext(lines, l, lines') /\ lines' \in Seq(AllLines)
  BY <1>1, AppendIsNext, Zenon
<1>3. CfgTyped(cfg')
  BY <1>1, CfgLineFields, Zenon
<1>4. ~cfg'.err => CfgAgrees(cfg', lines')
  BY <1>1, <1>2, CfgTurnAgrees, Zenon
<1> QED
  BY <1>1, <1>2, <1>3, <1>4, Zenon

\* The steps that leave the configuration.
Open == {"options", "read_cfg", "cfg", "sa_F", "sa_cfg"}

LEMMA FilesKept ==
  ASSUME FileInv, UNCHANGED <<cfg, opts>>, lines' \in Seq(AllLines),
         pc' \in Following => pc \in Following,
         pc' \notin Open \/ UNCHANGED <<pc, lines>>
  PROVE  FileInv'
<1>1. CfgFile' = CfgFile /\ Configuration' = Configuration
  BY SameConfiguration, Zenon
<1>2. given("f")' <=> given("f")
  BY Zenon DEF given
<1>3. pc' \in Following => CfgAgrees(cfg', Configuration')
  BY <1>1, Zenon DEF FileInv
<1>4. CASE pc' \notin Open
  <2>1. /\ pc' # "options" /\ pc' # "cfg" /\ pc' \notin {"read_cfg", "cfg"}
        /\ pc' \notin {"sa_F", "sa_cfg"}
    BY <1>4 DEF Open
  <2> QED
    BY <1>3, <2>1, Zenon DEF FileInv
<1>5. CASE UNCHANGED <<pc, lines>>
  <2>1. SaName(pc)' = SaName(pc) /\ SaFile' = SaFile
    BY <1>5, Zenon DEF SaName, SaFile
  <2> QED
    BY <1>1, <1>2, <1>3, <1>5, <2>1, Zenon DEF FileInv
<1> QED
  BY <1>4, <1>5

LEMMA FileInvariant == Spec => []FileInv
<1>1. Init => FileInv
  <2> SUFFICES ASSUME Init PROVE FileInv
    OBVIOUS
  <2>1. lines = <<>> /\ cfg = NewCfg(Sections)
    BY Zenon DEF Init
  <2>2. <<>> \in Seq(AllLines)
    OBVIOUS
  <2>3. pc # "cfg" /\ pc \notin Following /\ pc \notin {"sa_F", "sa_cfg"}
    BY DEF Init, Following
  <2> QED
    BY <2>1, <2>2, <2>3, NewCfgAgrees, Zenon DEF FileInv
<1>2. FileInv /\ [Next]_vars => FileInv'
  <2> SUFFICES ASSUME FileInv, [Next]_vars PROVE FileInv'
    OBVIOUS
  <2>0. lines \in Seq(AllLines) /\ CfgTyped(cfg)
    BY Zenon DEF FileInv
  <2>1. ASSUME NEW l \in CfgLines, cfg_read(l) PROVE FileInv'
    <3>1. pc = "read_cfg" /\ cfg_turn(l, "wrong")
      BY <2>1, Zenon DEF cfg_read
    <3>2. CfgAgrees(cfg, lines)
      <4>1. pc \in {"read_cfg", "cfg"}
        BY <3>1
      <4> QED
        BY <4>1, Zenon DEF FileInv
    <3>3. l \in AllLines /\ IsCfgLine(l)
      BY LinesByThemselves, Zenon
    <3>4. /\ lines' \in Seq(AllLines) /\ CfgTyped(cfg')
          /\ pc' = "wrong" \/ (pc' = pc /\ CfgAgrees(cfg', lines'))
      BY <2>0, <3>1, <3>2, <3>3, CfgTurn, Zenon
    <3>5. /\ pc' # "options" /\ pc' # "cfg" /\ pc' \notin Following
          /\ pc' \notin {"sa_F", "sa_cfg"}
          /\ pc' \in {"read_cfg", "cfg"} => pc' # "wrong"
      BY <3>1, <3>4 DEF Following
    <3> QED
      BY <3>4, <3>5, Zenon DEF FileInv
  <2>2. ASSUME NEW l \in SaLines, sa_read(l) PROVE FileInv'
    <3>1. /\ pc = "read_sa" /\ lines' = Append(lines, l)
          /\ (pc' = pc \/ pc' = "wrong") /\ UNCHANGED <<cfg, opts>>
      BY <2>2, Zenon DEF sa_read, sa_turn, options
    <3>2. lines' \in Seq(AllLines)
      BY <2>0, <3>1, LinesByThemselves, AppendIsNext, Zenon
    <3>3. pc' \notin Open /\ pc' \notin Following
      BY <3>1 DEF Following, Open
    <3> QED
      BY <3>1, <3>2, <3>3, FilesKept, Zenon
  <2>3. ASSUME NEW c, NEW v, parse_option(c, v) PROVE FileInv'
    <3>1. pc = "options" /\ (pc' = pc \/ pc' = "exit") /\ UNCHANGED <<cfg, lines>>
      BY <2>3, Zenon DEF parse_option, files
    <3>2. /\ pc' \notin {"read_cfg", "cfg"} /\ pc' # "cfg" /\ pc' \notin Following
          /\ pc' \notin {"sa_F", "sa_cfg"}
      BY <3>1 DEF Following
    <3> QED
      BY <3>1, <3>2, Zenon DEF FileInv
  <2>4. CASE process_cfg
    <3>1. pc = "options" /\ UNCHANGED opts
      BY <2>4, Zenon DEF process_cfg, options
    <3>2. CfgAgrees(cfg, <<>>)
      BY <3>1, Zenon DEF FileInv
    <3>3. /\ CfgFile' = CfgFile /\ Configuration' = Configuration
          /\ given("f")' <=> given("f")
      BY <3>1, SameConfiguration, Zenon DEF given
    <3>4. CASE ~given("f") /\ pc' = "auth" /\ UNCHANGED <<lines, cfg>>
      <4>1. Configuration = <<>>
        BY <3>4, Zenon DEF Configuration
      <4>2. /\ pc' \notin {"read_cfg", "cfg"} /\ pc' # "cfg" /\ pc' # "options"
            /\ pc' \notin {"sa_F", "sa_cfg"}
        BY <3>4
      <4> QED
        BY <3>2, <3>3, <3>4, <4>1, <4>2, Zenon DEF FileInv
    <3>5. CASE pc' = "failed" /\ UNCHANGED <<lines, cfg>>
      <4>1. /\ pc' \notin {"read_cfg", "cfg"} /\ pc' # "cfg" /\ pc' # "options"
            /\ pc' \notin Following /\ pc' \notin {"sa_F", "sa_cfg"}
        BY <3>5 DEF Following
      <4> QED
        BY <3>5, <4>1, Zenon DEF FileInv
    <3>6. CASE /\ given("f") /\ opts["f"] \in DOMAIN CfgFiles
               /\ pc' = "cfg" /\ lines' = <<>> /\ cfg' = NewCfg(Sections)
      <4>1. pc' # "options" /\ pc' \notin Following /\ pc' \notin {"sa_F", "sa_cfg"}
        BY <3>6 DEF Following
      <4>2. Prefix(<<>>, CfgFile)
        BY <3>6, FileOfCfg, PrefixEmpty, Zenon DEF CfgFile
      <4>3. <<>> \in Seq(AllLines)
        OBVIOUS
      <4> QED
        BY <3>1, <3>3, <3>6, <4>1, <4>2, <4>3, NewCfgAgrees, Zenon DEF FileInv
    <3> QED
      BY <2>4, <3>4, <3>5, <3>6, Zenon DEF process_cfg, fail
  <2>5. CASE process_cfg_line
    <3> DEFINE l == CfgFile[Len(lines) + 1]
    <3>1. pc = "cfg" /\ Len(lines) < Len(CfgFile) /\ cfg_turn(l, "failed")
      BY <2>5, Zenon DEF process_cfg_line
    <3>2. pc \in {"read_cfg", "cfg"}
      BY <3>1
    <3>3. /\ CfgAgrees(cfg, lines) /\ opts["f"] \in DOMAIN CfgFiles
          /\ Prefix(lines, CfgFile) /\ given("f")
      BY <3>1, <3>2, Zenon DEF FileInv
    <3>4. /\ CfgFile \in Seq(Range(CfgFile))
          /\ \A m \in Range(CfgFile) : IsCfgLine(m) /\ m \in AllLines
      BY <3>3, FileOfCfg, Zenon DEF CfgFile
    <3>5. l \in Range(CfgFile) /\ Prefix(Append(lines, l), CfgFile)
      BY <2>0, <3>1, <3>3, <3>4, PrefixNext, Zenon
    <3>6. l \in AllLines /\ IsCfgLine(l)
      BY <3>4, <3>5, Zenon
    <3> HIDE DEF l
    <3>7. /\ lines' = Append(lines, l) /\ lines' \in Seq(AllLines) /\ CfgTyped(cfg')
          /\ pc' = "failed" \/ (pc' = pc /\ CfgAgrees(cfg', lines'))
          /\ UNCHANGED opts
      BY <2>0, <3>1, <3>3, <3>6, CfgTurn, Zenon
    <3>8. /\ CfgFile' = CfgFile /\ given("f")' <=> given("f")
      BY <3>7, SameConfiguration, Zenon DEF given
    <3>9. /\ pc' # "options" /\ pc' \notin Following /\ pc' \notin {"sa_F", "sa_cfg"}
          /\ pc' \in {"read_cfg", "cfg"} => pc' # "failed"
      BY <3>1, <3>7 DEF Following
    <3> QED
      BY <3>3, <3>5, <3>7, <3>8, <3>9, Zenon DEF FileInv
  <2>6. CASE process_cfg_eof
    <3>1. /\ pc = "cfg" /\ Len(lines) = Len(CfgFile) /\ pc' = "auth"
          /\ UNCHANGED <<lines, cfg, opts>>
      BY <2>6, Zenon DEF process_cfg_eof, files, options
    <3>2. pc \in {"read_cfg", "cfg"}
      BY <3>1
    <3>3. /\ CfgAgrees(cfg, lines) /\ opts["f"] \in DOMAIN CfgFiles
          /\ Prefix(lines, CfgFile) /\ given("f")
      BY <3>1, <3>2, Zenon DEF FileInv
    <3>4. CfgFile \in Seq(Range(CfgFile))
      BY <3>3, FileOfCfg, Zenon DEF CfgFile
    <3>5. lines = CfgFile
      BY <2>0, <3>1, <3>3, <3>4, PrefixWhole
    <3>6. Configuration' = CfgFile
      BY <3>1, <3>3, SameConfiguration, Zenon DEF Configuration
    <3>7. /\ pc' \notin {"read_cfg", "cfg"} /\ pc' # "cfg" /\ pc' # "options"
          /\ pc' \notin {"sa_F", "sa_cfg"}
      BY <3>1
    <3> QED
      BY <3>1, <3>3, <3>5, <3>6, <3>7, Zenon DEF FileInv
  <2>7. CASE process_auth \/ process_sa_eof
    <3>1. pc \in {"auth", "sa_F", "sa_cfg"} /\ UNCHANGED <<cfg, opts>>
      BY <2>7, Zenon DEF process_auth, process_sa_eof, options
    <3>2. pc \in Following
      BY <3>1 DEF Following
    <3>3. CASE UNCHANGED lines /\ pc' \in {"net", "failed", "key"}
      <4>1. pc' \notin Open
        BY <3>3 DEF Open
      <4> QED
        BY <2>0, <3>1, <3>2, <3>3, <4>1, FilesKept, Zenon
    <3>4. ASSUME NEW reading \in {"sa_F", "sa_cfg"}, open_sa(reading)
          PROVE  FileInv'
      <4>1. CASE UNCHANGED lines /\ pc' = "failed"
        <5>1. pc' \in {"net", "failed", "key"}
          BY <4>1
        <5> QED
          BY <3>3, <4>1, <5>1, Zenon
      <4>2. CASE /\ SaName(reading) \in DOMAIN SaFiles
                 /\ pc' = reading /\ lines' = <<>>
        <5>1. SaName(pc)' = SaName(reading) /\ SaFile' = SaFiles[SaName(reading)]
          BY <3>1, <4>2, Zenon DEF SaName, SaFile
        <5>2. Prefix(<<>>, SaFiles[SaName(reading)])
          BY <4>2, FileOfSa, PrefixEmpty, Zenon
        <5>3. /\ pc' # "options" /\ pc' # "cfg" /\ pc' \notin {"read_cfg", "cfg"}
          BY <4>2
        <5>4. <<>> \in Seq(AllLines)
          OBVIOUS
        <5>5. CfgAgrees(cfg', Configuration')
          BY <3>1, <3>2, SameConfiguration, Zenon DEF FileInv
        <5> QED
          BY <3>1, <4>2, <5>1, <5>2, <5>3, <5>4, <5>5, Zenon DEF FileInv
      <4> QED
        BY <3>4, <4>1, <4>2, Zenon DEF open_sa, fail
    <3>5. \/ UNCHANGED lines /\ pc' \in {"net", "failed", "key"}
          \/ open_sa("sa_F") \/ open_sa("sa_cfg")
      BY <2>7, Zenon DEF process_auth, process_sa_eof, fail
    <3> QED
      BY <3>3, <3>4, <3>5, Zenon
  <2>8. CASE process_sa_line
    <3> DEFINE l == SaFile[Len(lines) + 1]
    <3>1. /\ pc \in {"sa_F", "sa_cfg"} /\ Len(lines) < Len(SaFile)
          /\ lines' = Append(lines, l) /\ (pc' = pc \/ pc' = "failed")
          /\ UNCHANGED <<cfg, opts>>
      BY <2>8, Zenon DEF process_sa_line, sa_turn, options
    <3>2. SaName(pc) \in DOMAIN SaFiles /\ Prefix(lines, SaFile)
      BY <3>1, Zenon DEF FileInv
    <3>3. /\ SaFile \in Seq(Range(SaFile))
          /\ \A m \in Range(SaFile) : m \in AllLines
      BY <3>2, FileOfSa, Zenon DEF SaFile
    <3>4. l \in Range(SaFile) /\ Prefix(Append(lines, l), SaFile)
      BY <2>0, <3>1, <3>2, <3>3, PrefixNext, Zenon
    <3>5. lines' \in Seq(AllLines)
      BY <2>0, <3>1, <3>3, <3>4, AppendIsNext, Zenon
    <3>6. pc \in Following
      BY <3>1 DEF Following
    <3>7. CASE pc' = "failed"
      <4>1. pc' \notin Open
        BY <3>7 DEF Open
      <4> QED
        BY <3>1, <3>5, <3>6, <4>1, FilesKept, Zenon
    <3>8. CASE pc' = pc
      <4>1. SaName(pc)' = SaName(pc) /\ SaFile' = SaFile
        BY <3>1, <3>8, Zenon DEF SaName, SaFile
      <4>2. /\ pc' # "options" /\ pc' # "cfg" /\ pc' \notin {"read_cfg", "cfg"}
        BY <3>1, <3>8
      <4>3. CfgAgrees(cfg', Configuration')
        BY <3>1, <3>6, SameConfiguration, Zenon DEF FileInv
      <4> HIDE DEF l
      <4> QED
        BY <3>1, <3>2, <3>4, <3>5, <4>1, <4>2, <4>3, Zenon DEF FileInv
    <3> QED
      BY <3>1, <3>7, <3>8
  <2>9. ASSUME \/ sa_eof \/ close \/ use_socket
               \/ \E hmac : process_key(hmac)
               \/ \E found : process_net(found)
               \/ \E n : process_socket(n)
        PROVE  FileInv'
    <3>1. /\ UNCHANGED <<cfg, opts, lines>>
          /\ \/ pc \in {"key", "net", "socket"} /\ pc' \in {"net", "socket", "done", "failed"}
             \/ pc' \in {"wrong", "loaded", "exit", "sockets"}
      <4>1. CASE sa_eof \/ close \/ use_socket
        BY <4>1 DEF sa_eof, close, use_socket, options, files
      <4>2. ASSUME NEW hmac, process_key(hmac)
            PROVE  /\ pc = "key" /\ UNCHANGED <<cfg, opts, lines>>
                   /\ pc' = "net" \/ pc' = "failed"
        BY <4>2, Zenon DEF process_key, options, files, fail
      <4>3. ASSUME NEW found, process_net(found)
            PROVE  /\ pc = "net" /\ UNCHANGED <<cfg, opts, lines>>
                   /\ pc' = "socket" \/ pc' = "failed"
        BY <4>3, Zenon DEF process_net, files, fail
      <4>4. ASSUME NEW n, process_socket(n)
            PROVE  /\ pc = "socket" /\ UNCHANGED <<cfg, opts, lines>>
                   /\ pc' = "done" \/ pc' = "failed"
        BY <4>4, Zenon DEF process_socket, options, files, fail
      <4> QED
        BY <2>9, <4>1, <4>2, <4>3, <4>4, Zenon
    <3>2. pc' \notin Open /\ (pc' \in Following => pc \in Following)
      BY <3>1 DEF Open, Following
    <3> QED
      BY <2>0, <3>1, <3>2, FilesKept, Zenon
  <2>10. CASE UNCHANGED vars
    <3>1. UNCHANGED <<cfg, opts, lines, pc>>
      BY <2>10, Zenon DEF vars
    <3> QED
      BY <2>0, <3>1, FilesKept, Zenon
  <2> QED
    BY <2>1, <2>2, <2>3, <2>4, <2>5, <2>6, <2>7, <2>8, <2>9, <2>10, Zenon DEF Next
<1> QED
  BY <1>1, <1>2, PTL DEF Spec
---------------------------------------------------------------------------
(* The associations that process goes by *)

\* The associations of the configuration.
CfgSa == SaFiles[global(cfg, "sa_file")]

SaInv ==
    /\ SaTyped(sa) /\ SppsTyped(loaded)
    /\ pc \in {"read_sa", "sa_F", "sa_cfg"} => ~sa.err /\ SaAgrees(sa, lines)
    /\ pc \in {"read_cfg", "read_sa", "wrong"} => loaded = OldSpps
    /\ pc = "loaded" => loaded = SaSays(lines)
    /\ pc = "key" => loaded = SaSays(CfgSa)
    /\ pc \in {"net", "socket", "done"} /\ auth.haveAuth =>
         auth.spps = SaSays(CfgSa)

\* A turn of read_sa.
LEMMA SaTurn ==
  ASSUME lines \in Seq(AllLines), SaTyped(sa), ~sa.err, SaAgrees(sa, lines),
         NEW l \in AllLines, IsSaLine(l), NEW wrong, sa_turn(l, wrong)
  PROVE  /\ SaTyped(sa')
         /\ pc' = wrong \/ (pc' = pc /\ ~sa'.err /\ SaAgrees(sa', lines'))
         /\ UNCHANGED <<cfg, loaded>>
<1>1. /\ lines' = Append(lines, l) /\ sa' = sa_line(sa, l)
      /\ pc' = IF sa'.err THEN wrong ELSE pc
      /\ UNCHANGED <<cfg, loaded>>
  BY Zenon DEF sa_turn
<1>2. IsNext(lines, l, lines')
  BY <1>1, AppendIsNext, Zenon
<1>3. SaTyped(sa')
  BY <1>1, SaLineTyped, Zenon
<1>4. ~sa'.err => SaAgrees(sa', lines')
  <2>1. TurnIsRight(sa, lines, l, lines')
    BY SaTurnAgrees, Zenon
  <2> QED
    BY <1>1, <1>2, <2>1, Zenon DEF TurnIsRight
<1> QED
  BY <1>1, <1>3, <1>4, Zenon

\* The end of a file of associations: they are those it says, or those there were.
LEMMA SaEnd ==
  ASSUME lines \in Seq(AllLines), SaTyped(sa), SaAgrees(sa, lines), SppsTyped(loaded)
  PROVE  /\ CloseSpp(sa).err => sa_end(loaded, sa) = loaded
         /\ ~CloseSpp(sa).err => sa_end(loaded, sa) = SaSays(lines)
         /\ SppsTyped(sa_end(loaded, sa))
<1> DEFINE t == CloseSpp(sa)
<1>1. t = CloseSpp(sa)
  BY Zenon
<1> HIDE DEF t
<1>2. SppsTyped(t.spps)
  BY <1>1, CloseSppFields, Zenon DEF SaTyped
<1>3. DOMAIN lines = 1 .. Len(lines) /\ Len(lines) \in Nat
  OBVIOUS
<1>4. ~t.err => t.spps = SaSays(lines)
  BY <1>1, <1>3, CloseSppAgrees, Zenon DEF SaSays
<1>5. CASE t.err
  BY <1>1, <1>5, Zenon DEF sa_end
<1>6. CASE ~t.err
  BY <1>1, <1>2, <1>4, <1>6, Zenon DEF sa_end
<1> QED
  BY <1>5, <1>6

\* The steps that read no associations.
LEMMA SaKept ==
  ASSUME SaInv, UNCHANGED <<sa, loaded>>,
         \/ pc' \notin {"read_cfg", "read_sa", "wrong", "sa_F", "sa_cfg", "loaded",
                        "key", "net", "socket", "done"}
         \/ UNCHANGED <<pc, lines, cfg, auth>>
         \/ /\ pc \in {"net", "socket"} /\ pc' \in {"socket", "done"}
            /\ UNCHANGED <<cfg, auth>>
  PROVE  SaInv'
<1>1. CASE pc' \notin {"read_cfg", "read_sa", "wrong", "sa_F", "sa_cfg", "loaded",
                       "key", "net", "socket", "done"}
  <2>1. /\ pc' \notin {"read_sa", "sa_F", "sa_cfg"}
        /\ pc' \notin {"read_cfg", "read_sa", "wrong"}
        /\ pc' # "loaded" /\ pc' # "key" /\ pc' \notin {"net", "socket", "done"}
    BY <1>1
  <2> QED
    BY <2>1, Zenon DEF SaInv
<1>2. CASE UNCHANGED <<pc, lines, cfg, auth>>
  <2>1. CfgSa' = CfgSa
    BY <1>2, Zenon DEF CfgSa
  <2> QED
    BY <1>2, <2>1, Zenon DEF SaInv
<1>3. CASE /\ pc \in {"net", "socket"} /\ pc' \in {"socket", "done"}
           /\ UNCHANGED <<cfg, auth>>
  <2>1. CfgSa' = CfgSa
    BY <1>3, Zenon DEF CfgSa
  <2>2. /\ pc' \notin {"read_sa", "sa_F", "sa_cfg"}
        /\ pc' \notin {"read_cfg", "read_sa", "wrong"}
        /\ pc' # "loaded" /\ pc' # "key" /\ pc \in {"net", "socket", "done"}
    BY <1>3
  <2> QED
    BY <1>3, <2>1, <2>2, Zenon DEF SaInv
<1> QED
  BY <1>1, <1>2, <1>3, Zenon

LEMMA OldSppsTyped == SppsTyped(Empty) /\ SppsTyped(OldSpps)
<1>1. SppsTyped(Empty) /\ KeysTyped(Empty)
  BY DEF SppsTyped, KeysTyped, Empty
<1>2. 16 \in {16, 32}
  OBVIOUS
<1>3. KeysTyped(Put(Empty, 9, 16))
  BY <1>1, <1>2, Zenon DEF KeysTyped, Put
<1> DEFINE x == Put(Empty, 9, 16)
<1> HIDE DEF x
<1>4. KeysTyped(x)
  BY <1>3, Zenon DEF x
<1>5. SppsTyped(Put(Empty, 9, x))
  BY <1>1, <1>4, Zenon DEF SppsTyped, Put
<1> QED
  BY <1>1, <1>5, Zenon DEF OldSpps, x

LEMMA SaInvariant == Spec => []SaInv
<1>1. Init => SaInv
  <2> SUFFICES ASSUME Init PROVE SaInv
    OBVIOUS
  <2>1. /\ sa = NewSa /\ lines = <<>>
        /\ loaded = IF pc = "options" THEN Empty ELSE OldSpps
    BY Zenon DEF Init
  <2>2. /\ pc # "loaded" /\ pc # "key" /\ pc \notin {"net", "socket", "done"}
        /\ pc \in {"read_cfg", "read_sa", "wrong"} => pc # "options"
    BY DEF Init
  <2>3. SppsTyped(loaded)
    BY <2>1, OldSppsTyped, Zenon
  <2> QED
    BY <2>1, <2>2, <2>3, NewSaAgrees, Zenon DEF SaInv
<1>2. SaInv /\ FileInv /\ AuthInv /\ [Next]_vars => SaInv'
  <2> SUFFICES ASSUME SaInv, FileInv, AuthInv, [Next]_vars PROVE SaInv'
    OBVIOUS
  <2>0. lines \in Seq(AllLines) /\ SaTyped(sa) /\ SppsTyped(loaded)
    BY Zenon DEF FileInv, SaInv
  <2>1. ASSUME NEW l, cfg_read(l) PROVE SaInv'
    <3>1. /\ pc = "read_cfg" /\ (pc' = pc \/ pc' = "wrong") /\ UNCHANGED <<sa, loaded>>
      BY <2>1, Zenon DEF cfg_read, cfg_turn
    <3>2. /\ pc \in {"read_cfg", "read_sa", "wrong"}
          /\ pc' \notin {"read_sa", "sa_F", "sa_cfg"}
          /\ pc' # "loaded" /\ pc' # "key" /\ pc' \notin {"net", "socket", "done"}
      BY <3>1
    <3> QED
      BY <3>1, <3>2, Zenon DEF SaInv
  <2>2. ASSUME NEW l \in SaLines, sa_read(l) PROVE SaInv'
    <3>1. pc = "read_sa" /\ sa_turn(l, "wrong")
      BY <2>2, Zenon DEF sa_read
    <3>2. pc \in {"read_sa", "sa_F", "sa_cfg"} /\ pc \in {"read_cfg", "read_sa", "wrong"}
      BY <3>1
    <3>3. ~sa.err /\ SaAgrees(sa, lines) /\ loaded = OldSpps
      BY <3>2, Zenon DEF SaInv
    <3>4. l \in AllLines /\ IsSaLine(l)
      BY LinesByThemselves, Zenon
    <3>5. /\ SaTyped(sa') /\ UNCHANGED loaded
          /\ pc' = "wrong" \/ (pc' = pc /\ ~sa'.err /\ SaAgrees(sa', lines'))
      BY <2>0, <3>1, <3>3, <3>4, SaTurn, Zenon
    <3>6. /\ pc' \in {"read_sa", "sa_F", "sa_cfg"} => pc' # "wrong"
          /\ pc' # "loaded" /\ pc' # "key" /\ pc' \notin {"net", "socket", "done"}
      BY <3>1, <3>5
    <3> QED
      BY <2>0, <3>3, <3>5, <3>6, Zenon DEF SaInv
  <2>3. CASE sa_eof
    <3>1. /\ pc = "read_sa" /\ loaded' = sa_end(loaded, sa) /\ UNCHANGED <<lines, sa>>
          /\ pc' = IF CloseSpp(sa).err THEN "wrong" ELSE "loaded"
      BY <2>3, Zenon DEF sa_eof
    <3>2. pc \in {"read_sa", "sa_F", "sa_cfg"} /\ pc \in {"read_cfg", "read_sa", "wrong"}
      BY <3>1
    <3>3. SaAgrees(sa, lines) /\ loaded = OldSpps
      BY <3>2, Zenon DEF SaInv
    <3>4. /\ CloseSpp(sa).err => loaded' = OldSpps
          /\ ~CloseSpp(sa).err => loaded' = SaSays(lines)
          /\ SppsTyped(loaded')
      BY <2>0, <3>1, <3>3, SaEnd, Zenon
    <3>5. CASE CloseSpp(sa).err
      <4>1. pc' = "wrong"
        BY <3>1, <3>5, Zenon
      <4>2. /\ pc' \notin {"read_sa", "sa_F", "sa_cfg"}
            /\ pc' # "loaded" /\ pc' # "key" /\ pc' \notin {"net", "socket", "done"}
        BY <4>1
      <4> QED
        BY <2>0, <3>1, <3>4, <3>5, <4>2, Zenon DEF SaInv
    <3>6. CASE ~CloseSpp(sa).err
      <4>1. pc' = "loaded"
        BY <3>1, <3>6, Zenon
      <4>2. /\ pc' \notin {"read_sa", "sa_F", "sa_cfg"}
            /\ pc' \notin {"read_cfg", "read_sa", "wrong"}
            /\ pc' # "key" /\ pc' \notin {"net", "socket", "done"}
        BY <4>1
      <4> QED
        BY <2>0, <3>1, <3>4, <3>6, <4>2, Zenon DEF SaInv
    <3> QED
      BY <3>5, <3>6
  <2>4. ASSUME process_cfg \/ process_cfg_line \/ process_cfg_eof
               \/ (\E c, v : parse_option(c, v)) \/ close \/ use_socket
        PROVE  SaInv'
    <3>1. /\ UNCHANGED <<sa, loaded>>
          /\ \/ (pc = "options" \/ pc = "cfg") /\ pc' = pc
             \/ pc' \in {"cfg", "auth", "failed", "exit", "sockets"}
      <4>1. CASE close \/ use_socket
        BY <4>1 DEF close, use_socket, files
      <4>2. CASE process_cfg \/ process_cfg_line \/ process_cfg_eof
        BY <4>2, Zenon DEF process_cfg, process_cfg_line, process_cfg_eof, cfg_turn,
           fail, files
      <4>3. ASSUME NEW c, NEW v, parse_option(c, v)
            PROVE  UNCHANGED <<sa, loaded>> /\ pc = "options" /\ (pc' = pc \/ pc' = "exit")
        BY <4>3, Zenon DEF parse_option, files
      <4> QED
        BY <2>4, <4>1, <4>2, <4>3, Zenon
    <3>2. pc' \notin {"read_cfg", "read_sa", "wrong", "sa_F", "sa_cfg", "loaded", "key",
                      "net", "socket", "done"}
      BY <3>1
    <3> QED
      BY <3>1, <3>2, SaKept, Zenon
  <2>5. ASSUME NEW reading, open_sa(reading), SppsTyped(loaded'), UNCHANGED cfg,
               reading = "sa_F" \/ reading = "sa_cfg"
        PROVE  SaInv'
    <3>1. CASE pc' = "failed" /\ UNCHANGED sa
      <4>1. /\ pc' \notin {"read_sa", "sa_F", "sa_cfg"}
            /\ pc' \notin {"read_cfg", "read_sa", "wrong"}
            /\ pc' # "loaded" /\ pc' # "key" /\ pc' \notin {"net", "socket", "done"}
        BY <3>1
      <4> QED
        BY <2>0, <2>5, <3>1, <4>1, Zenon DEF SaInv
    <3>2. CASE pc' = reading /\ lines' = <<>> /\ sa' = NewSa
      <4>1. /\ pc' \notin {"read_cfg", "read_sa", "wrong"}
            /\ pc' # "loaded" /\ pc' # "key" /\ pc' \notin {"net", "socket", "done"}
        BY <2>5, <3>2
      <4> QED
        BY <2>5, <3>2, <4>1, NewSaAgrees, Zenon DEF SaInv
    <3> QED
      BY <2>5, <3>1, <3>2, Zenon DEF open_sa, fail
  <2>6. CASE process_auth
    <3>1. pc = "auth" /\ UNCHANGED <<cfg, loaded, auth>>
      BY <2>6, Zenon DEF process_auth, message
    <3>2. CASE (pc' = "net" \/ pc' = "failed") /\ UNCHANGED sa
      <4>1. /\ pc' \notin {"read_sa", "sa_F", "sa_cfg"}
            /\ pc' \notin {"read_cfg", "read_sa", "wrong"}
            /\ pc' # "loaded" /\ pc' # "key" /\ pc \in Reading
        BY <3>1, <3>2 DEF Reading
      <4>2. ~auth'.haveAuth
        BY <3>1, <4>1, Zenon DEF AuthInv
      <4> QED
        BY <2>0, <3>1, <3>2, <4>1, <4>2, Zenon DEF SaInv
    <3>3. \/ (pc' = "net" \/ pc' = "failed") /\ UNCHANGED sa
          \/ open_sa("sa_F") \/ open_sa("sa_cfg")
      BY <2>6, Zenon DEF process_auth, fail
    <3> QED
      BY <2>0, <2>5, <3>1, <3>2, <3>3, Zenon
  <2>7. CASE process_sa_line
    <3> DEFINE l == SaFile[Len(lines) + 1]
    <3>1. /\ pc \in {"sa_F", "sa_cfg"} /\ Len(lines) < Len(SaFile)
          /\ sa_turn(l, "failed")
      BY <2>7, Zenon DEF process_sa_line
    <3>2. SaName(pc) \in DOMAIN SaFiles /\ Prefix(lines, SaFile)
      BY <3>1, Zenon DEF FileInv
    <3>3. /\ SaFile \in Seq(Range(SaFile))
          /\ \A m \in Range(SaFile) : IsSaLine(m) /\ m \in AllLines
      BY <3>2, FileOfSa, Zenon DEF SaFile
    <3>4. l \in Range(SaFile)
      BY <2>0, <3>1, <3>2, <3>3, PrefixNext, Zenon
    <3>5. l \in AllLines /\ IsSaLine(l)
      BY <3>3, <3>4, Zenon
    <3>6. pc \in {"read_sa", "sa_F", "sa_cfg"}
      BY <3>1
    <3>7. ~sa.err /\ SaAgrees(sa, lines)
      BY <3>6, Zenon DEF SaInv
    <3> HIDE DEF l
    <3>8. /\ SaTyped(sa') /\ UNCHANGED loaded
          /\ pc' = "failed" \/ (pc' = pc /\ ~sa'.err /\ SaAgrees(sa', lines'))
      BY <2>0, <3>1, <3>5, <3>7, SaTurn, Zenon
    <3>9. /\ pc' \in {"read_sa", "sa_F", "sa_cfg"} => pc' # "failed"
          /\ pc' \notin {"read_cfg", "read_sa", "wrong"}
          /\ pc' # "loaded" /\ pc' # "key" /\ pc' \notin {"net", "socket", "done"}
      BY <3>1, <3>8
    <3> QED
      BY <2>0, <3>8, <3>9, Zenon DEF SaInv
  <2>8. CASE process_sa_eof
    <3>1. /\ pc \in {"sa_F", "sa_cfg"} /\ Len(lines) = Len(SaFile)
          /\ loaded' = sa_end(loaded, sa) /\ UNCHANGED cfg
      BY <2>8, Zenon DEF process_sa_eof
    <3>2. SaName(pc) \in DOMAIN SaFiles /\ Prefix(lines, SaFile)
      BY <3>1, Zenon DEF FileInv
    <3>3. SaFile \in Seq(Range(SaFile))
      BY <3>2, FileOfSa, Zenon DEF SaFile
    <3>4. lines = SaFile
      BY <2>0, <3>1, <3>2, <3>3, PrefixWhole
    <3>5. pc \in {"read_sa", "sa_F", "sa_cfg"}
      BY <3>1
    <3>6. SaAgrees(sa, lines)
      BY <3>5, Zenon DEF SaInv
    <3>7. /\ SppsTyped(loaded')
          /\ ~CloseSpp(sa).err => loaded' = SaSays(SaFile)
      BY <2>0, <3>1, <3>4, <3>6, SaEnd, Zenon
    <3>8. CASE pc' = "failed" /\ UNCHANGED sa
      <4>1. /\ pc' \notin {"read_sa", "sa_F", "sa_cfg"}
            /\ pc' \notin {"read_cfg", "read_sa", "wrong"}
            /\ pc' # "loaded" /\ pc' # "key" /\ pc' \notin {"net", "socket", "done"}
        BY <3>8
      <4> QED
        BY <2>0, <3>7, <3>8, <4>1, Zenon DEF SaInv
    <3>9. CASE ~CloseSpp(sa).err /\ pc = "sa_cfg" /\ pc' = "key" /\ UNCHANGED sa
      <4>1. /\ pc' \notin {"read_sa", "sa_F", "sa_cfg"} /\ pc # "sa_F"
            /\ pc' \notin {"read_cfg", "read_sa", "wrong"}
            /\ pc' # "loaded" /\ pc' \notin {"net", "socket", "done"}
        BY <3>9
      <4>2. SaFile = CfgSa
        BY <4>1, Zenon DEF SaFile, SaName, CfgSa
      <4>3. CfgSa' = CfgSa
        BY <3>1, Zenon DEF CfgSa
      <4> QED
        BY <2>0, <3>7, <3>9, <4>1, <4>2, <4>3, Zenon DEF SaInv
    <3>10. \/ pc' = "failed" /\ UNCHANGED sa
           \/ ~CloseSpp(sa).err /\ pc = "sa_cfg" /\ pc' = "key" /\ UNCHANGED sa
           \/ open_sa("sa_cfg")
      BY <2>8, Zenon DEF process_sa_eof, fail
    <3> QED
      BY <2>5, <3>1, <3>7, <3>8, <3>9, <3>10, Zenon
  <2>9. ASSUME NEW hmac, process_key(hmac) PROVE SaInv'
    <3>1. pc = "key" /\ UNCHANGED <<lines, cfg, sa, loaded>>
      BY <2>9, Zenon DEF process_key, files
    <3>2. loaded = SaSays(CfgSa) /\ CfgSa' = CfgSa
      BY <3>1, Zenon DEF SaInv, CfgSa
    <3>3. CASE pc' = "failed"
      <4>1. pc' \notin {"read_cfg", "read_sa", "wrong", "sa_F", "sa_cfg", "loaded", "key",
                        "net", "socket", "done"}
        BY <3>3
      <4> QED
        BY <3>1, <4>1, SaKept, Zenon
    <3>4. CASE /\ pc' = "net"
               /\ auth' = [haveAuth |-> TRUE, sppID |-> Spp, keyID |-> Key,
                           spps |-> loaded]
      <4>1. auth'.spps = loaded
        BY <3>4
      <4>2. /\ pc' \notin {"read_sa", "sa_F", "sa_cfg"}
            /\ pc' \notin {"read_cfg", "read_sa", "wrong"}
            /\ pc' # "loaded" /\ pc' # "key"
        BY <3>4
      <4> QED
        BY <2>0, <3>1, <3>2, <4>1, <4>2, Zenon DEF SaInv
    <3> QED
      BY <2>9, <3>3, <3>4, Zenon DEF process_key, fail
  <2>10. ASSUME \/ \E found : process_net(found)
                \/ \E n : process_socket(n)
         PROVE  SaInv'
    <3>1. /\ UNCHANGED <<sa, loaded, cfg, auth>>
          /\ pc = "net" \/ pc = "socket"
          /\ pc' = "socket" \/ pc' = "done" \/ pc' = "failed"
      BY <2>10, Zenon DEF process_net, process_socket, files, message, fail
    <3>2. \/ pc' \notin {"read_cfg", "read_sa", "wrong", "sa_F", "sa_cfg", "loaded", "key",
                         "net", "socket", "done"}
          \/ pc \in {"net", "socket"} /\ pc' \in {"socket", "done"}
      BY <3>1
    <3> QED
      BY <3>1, <3>2, SaKept, Zenon
  <2>11. CASE UNCHANGED vars
    <3>1. UNCHANGED <<sa, loaded, pc, lines, cfg, auth>>
      BY <2>11, Zenon DEF vars
    <3> QED
      BY <3>1, SaKept, Zenon
  <2> QED
    BY <2>1, <2>2, <2>3, <2>4, <2>6, <2>7, <2>8, <2>9, <2>10, <2>11, Zenon DEF Next
<1> QED
  BY <1>1, <1>2, FileInvariant, AuthInvariant, PTL DEF Spec

\* Whatever lines the files have, and in whatever order options and files name them:
\* each setting is that of the last line with it in its section, each association has
\* the keys after the last definition of its spp, a file with a wrong line leaves the
\* associations, and process goes by the file of -f and by the whole of one of the files
\* of associations it was told of.
THEOREM SettingsReadAsWritten == Spec => []FilesReadAsWritten
<1>1. FileInv /\ SaInv => FilesReadAsWritten
  <2> SUFFICES ASSUME FileInv, SaInv PROVE FilesReadAsWritten
    OBVIOUS
  <2>1. ASSUME NEW L, CfgAgrees(cfg, L) PROVE ReadAsWritten(L)
    BY <2>1, Zenon DEF CfgAgrees, ReadAsWritten
  <2>2. /\ pc \in {"read_cfg", "cfg"} => ReadAsWritten(lines)
        /\ pc \in Following => ReadAsWritten(Configuration)
    BY <2>1, Zenon DEF FileInv
  <2>3. pc = "wrong" => loaded = OldSpps
    <3>1. pc = "wrong" => pc \in {"read_cfg", "read_sa", "wrong"}
      OBVIOUS
    <3> QED
      BY <3>1, Zenon DEF SaInv
  <2>4. pc = "done" /\ auth.haveAuth => auth.spps = SaSays(CfgSa)
    <3>1. pc = "done" => pc \in {"net", "socket", "done"}
      OBVIOUS
    <3> QED
      BY <3>1, Zenon DEF SaInv
  <2>5. pc = "loaded" => loaded = SaSays(lines)
    BY Zenon DEF SaInv
  <2>6. pc = "done" /\ auth.haveAuth =>
          \E name \in SaNames : auth.spps = SaSays(SaFiles[name])
    <3>1. SaName("sa_cfg") \in SaNames
      BY Zenon DEF SaNames
    <3>2. "sa_cfg" # "sa_F"
      OBVIOUS
    <3>3. SaName("sa_cfg") = global(cfg, "sa_file")
      BY <3>2, Zenon DEF SaName
    <3> QED
      BY <2>4, <3>1, <3>3, Zenon DEF CfgSa
  <2> QED
    BY <2>2, <2>3, <2>5, <2>6, Zenon
    DEF FilesReadAsWritten, Following, Configuration
<1> QED
  BY <1>1, FileInvariant, SaInvariant, PTL
---------------------------------------------------------------------------
(* The values of settings *)

ParamFields ==
    {"transportSpecific", "domainNumber", "boundaryHops", "minorVersion",
     "useZeroGet", "ignore", "self"}
ParamsTyped(p) ==
    /\ DOMAIN p = ParamFields
    /\ p.transportSpecific \in 0 .. 255 /\ p.domainNumber \in 0 .. 255
    /\ p.useZeroGet \in BOOLEAN

ValueInv ==
    /\ \A c \in DOMAIN opts : opts[c] \in Int
    /\ net \in {0, UDS, 2, 4, 6}
    /\ allow \in 0 .. 255
    /\ ParamsTyped(prms) /\ ParamsTyped(params)
    /\ params.transportSpecific \in 0 .. 15
    /\ {"mac", "useZeroGet"} \subseteq DOMAIN msg
    /\ msg.mac \in {0, 16, 32} /\ msg.useZeroGet \in BOOLEAN

\* What is in the ranges of set_val, and what stands for it, are integers.
LEMMA RangesAreInts ==
  ASSUME NEW k \in CfgKeys
  PROVE  Ranges[k] \subseteq Int /\ Default[k] \in Int
<1> DEFINE OfOctets == {"transportSpecific", "domainNumber", "udp6_scope", "udp_ttl",
                        "socket_priority", "spp", "allow_unauth"}
           Positive == {"uds_address", "sa_file", "ptp_dst_mac", "p2p_dst_mac"}
<1>1. k \in OfOctets \union Positive \union {"network_transport", "active_key_id"}
  BY Zenon DEF CfgKeys, Default
<1>r. /\ Ranges.transportSpecific = 0 .. 15 /\ Ranges.domainNumber = 0 .. 255
      /\ Ranges.udp6_scope = 0 .. 15 /\ Ranges.udp_ttl = 1 .. 255
      /\ Ranges.socket_priority = 0 .. 15 /\ Ranges.spp = 0 .. 255
      /\ Ranges.allow_unauth = 0 .. 2 /\ Ranges.uds_address = Nat \ {0}
      /\ Ranges.sa_file = Nat \ {0} /\ Ranges.ptp_dst_mac = Nat \ {0}
      /\ Ranges.p2p_dst_mac = Nat \ {0} /\ Ranges.network_transport = {2, 4, 6}
      /\ Ranges.active_key_id = 0 .. UINT32_MAX
  BY Zenon DEF Ranges
<1>d. /\ Default.transportSpecific = 0 /\ Default.domainNumber = 0
      /\ Default.udp6_scope = 14 /\ Default.udp_ttl = 1
      /\ Default.socket_priority = 0 /\ Default.spp = 0
      /\ Default.allow_unauth = 0 /\ Default.uds_address = 1
      /\ Default.sa_file = 0 /\ Default.ptp_dst_mac = 1
      /\ Default.p2p_dst_mac = 1 /\ Default.network_transport = 4
      /\ Default.active_key_id = 0
  BY DEF Default
<1>2. k \in OfOctets => Ranges[k] \subseteq Int
  <2>1. /\ Ranges.transportSpecific \subseteq Int /\ Ranges.domainNumber \subseteq Int
        /\ Ranges.udp6_scope \subseteq Int /\ Ranges.udp_ttl \subseteq Int
        /\ Ranges.socket_priority \subseteq Int /\ Ranges.spp \subseteq Int
        /\ Ranges.allow_unauth \subseteq Int
    BY <1>r
  <2> QED
    BY <2>1, Zenon
<1>3. /\ k \in Positive => Ranges[k] = Nat \ {0}
      /\ Ranges["network_transport"] = {2, 4, 6} /\ Ranges["active_key_id"] = 0 .. UINT32_MAX
  BY <1>r, Zenon
<1>4. k \in OfOctets \union Positive => Default[k] \in {0, 1, 14}
  BY <1>d, Zenon
<1>5. Default["network_transport"] = 4 /\ Default["active_key_id"] = 0
  BY <1>d, Zenon
<1> HIDE DEF OfOctets, Positive
<1>6. CASE k \in OfOctets
  BY <1>2, <1>4, <1>6
<1>7. CASE k \in Positive
  BY <1>3, <1>4, <1>7
<1>8. CASE k \in {"network_transport", "active_key_id"}
  <2>1. /\ Ranges[k] = {2, 4, 6} \/ Ranges[k] = 0 .. UINT32_MAX
        /\ Default[k] = 4 \/ Default[k] = 0
    BY <1>3, <1>5, <1>8, Zenon
  <2> QED
    BY <2>1, UINT32Assumption
<1> QED
  BY <1>1, <1>6, <1>7, <1>8, Zenon

LEMMA GlobalIsInt ==
  ASSUME CfgTyped(cfg), NEW k \in CfgKeys
  PROVE  global(cfg, k) \in Int
<1>1. ASSUME NEW s \in Sections, cfg.vals[s][k] # Unset PROVE cfg.vals[s][k] \in Int
  BY <1>1, RangesAreInts, Zenon DEF CfgTyped
<1>2. "global" \in Sections /\ DOMAIN cfg.vals = Sections
  BY SectionsAssumption, Zenon DEF CfgTyped
<1>3. Default[k] \in Int
  BY RangesAreInts, Zenon
<1>4. CASE "" \in DOMAIN cfg.vals /\ cfg.vals[""][k] # Unset
  BY <1>1, <1>2, <1>4, Zenon DEF global, get_val
<1>5. CASE ~("" \in DOMAIN cfg.vals /\ cfg.vals[""][k] # Unset)
  BY <1>1, <1>2, <1>3, <1>5, Zenon DEF global, get_val
<1> QED
  BY <1>4, <1>5, Zenon

\* An option, or a setting, that is cut to an octet.
LEMMA OptionIsOctet ==
  ASSUME CfgTyped(cfg), ValueInv, NEW c, NEW k \in CfgKeys
  PROVE  option(c, k) % 256 \in 0 .. 255
<1>1. option(c, k) \in Int
  <2>1. CASE given(c)
    BY <2>1, Zenon DEF ValueInv, option, given
  <2>2. CASE ~given(c)
    BY <2>2, GlobalIsInt, Zenon DEF option
  <2> QED
    BY <2>1, <2>2
<1> DEFINE x == option(c, k)
<1> HIDE DEF x
<1>2. x \in Int => x % 256 \in 0 .. 255
  OBVIOUS
<1> QED
  BY <1>1, <1>2, Zenon DEF x

LEMMA NewParamsTyped == ParamsTyped(NewParams) /\ NewParams.transportSpecific \in 0 .. 15
BY SMTT(30) DEF NewParams, ParamsTyped, ParamFields

LEMMA KeysAreNamed ==
  {"allow_unauth", "domainNumber", "transportSpecific"} \subseteq CfgKeys
BY DEF CfgKeys, Default

\* The parameters after process_key, and after process_net.
LEMMA KeyParams ==
  ASSUME NEW p, ParamsTyped(p), NEW i, NEW q,
         q = [p EXCEPT !.ignore = i, !.minorVersion = 1]
  PROVE  ParamsTyped(q)
<1>1. /\ "ignore" # "transportSpecific" /\ "minorVersion" # "transportSpecific"
      /\ "ignore" # "domainNumber" /\ "minorVersion" # "domainNumber"
      /\ "ignore" # "useZeroGet" /\ "minorVersion" # "useZeroGet"
  OBVIOUS
<1>2. /\ "transportSpecific" \in DOMAIN p /\ "domainNumber" \in DOMAIN p
      /\ "useZeroGet" \in DOMAIN p
  BY Zenon DEF ParamsTyped, ParamFields
<1>3. DOMAIN q = DOMAIN p
  BY Zenon
<1>4. q.transportSpecific = p.transportSpecific
  BY <1>1, <1>2, Zenon
<1>5. q.domainNumber = p.domainNumber
  BY <1>1, <1>2, Zenon
<1>6. q.useZeroGet = p.useZeroGet
  BY <1>1, <1>2, Zenon
<1> QED
  BY <1>3, <1>4, <1>5, <1>6, Zenon DEF ParamsTyped

LEMMA ParamsAfterNet ==
  ASSUME CfgTyped(cfg), ValueInv, NEW found, process_net(found)
  PROVE  ParamsTyped(prms')
<1> DEFINE n == IF net = 0 THEN global(cfg, "network_transport") ELSE net
           a == IF n = UDS THEN "pid" ELSE "mac"
           b == IF given("b") THEN opts["b"] % 256 ELSE 1
           c == option("d", "domainNumber") % 256
           d == option("t", "transportSpecific") % 256
           e == given("z")
<1>1. CASE prms' = prms
  BY <1>1, Zenon DEF ValueInv
<1>2. CASE prms' = [prms EXCEPT !.self = a, !.boundaryHops = b, !.domainNumber = c,
                                !.transportSpecific = d, !.useZeroGet = e]
  <2>1. c \in 0 .. 255 /\ d \in 0 .. 255
    BY OptionIsOctet, KeysAreNamed, ZenonT(30)
  <2>2. e \in BOOLEAN
    BY DEF given
  <2>3. ParamsTyped(prms)
    BY Zenon DEF ValueInv
  <2>4. /\ "transportSpecific" \in DOMAIN prms /\ "domainNumber" \in DOMAIN prms
        /\ "useZeroGet" \in DOMAIN prms
    BY <2>3, Zenon DEF ParamsTyped, ParamFields
  <2>5. /\ "transportSpecific" # "domainNumber" /\ "transportSpecific" # "useZeroGet"
        /\ "domainNumber" # "useZeroGet"
    OBVIOUS
  <2> HIDE DEF a, b, c, d, e
  <2>6. DOMAIN prms' = DOMAIN prms
    BY <1>2, Zenon
  <2>7. prms'.transportSpecific = d
    BY <1>2, <2>4, <2>5, Zenon
  <2>8. prms'.domainNumber = c
    BY <1>2, <2>4, <2>5, Zenon
  <2>9. prms'.useZeroGet = e
    BY <1>2, <2>4, <2>5, Zenon
  <2> QED
    BY <2>1, <2>2, <2>3, <2>6, <2>7, <2>8, <2>9, Zenon DEF ParamsTyped
<1> QED
  BY <1>1, <1>2, Zenon DEF process_net

LEMMA ValueInvariant == Spec => []ValueInv
<1>1. Init => ValueInv
  <2> SUFFICES ASSUME Init PROVE ValueInv
    OBVIOUS
  <2>1. /\ opts = Empty /\ net = 0 /\ allow = 0 /\ prms = NewParams /\ params = NewParams
        /\ msg = NewMessage(TRUE, TRUE, 0)
    BY Zenon DEF Init
  <2>2. \A c \in DOMAIN opts : opts[c] \in Int
    BY <2>1 DEF Empty
  <2>3. /\ {"mac", "useZeroGet"} \subseteq DOMAIN msg
        /\ msg.mac \in {0, 16, 32} /\ msg.useZeroGet \in BOOLEAN
    BY <2>1 DEF NewMessage
  <2>4. net \in {0, UDS, 2, 4, 6} /\ allow \in 0 .. 255
    BY <2>1
  <2> QED
    BY <2>1, <2>2, <2>3, <2>4, NewParamsTyped, Zenon DEF ValueInv
<1>2. ValueInv /\ FileInv /\ SaInv /\ [Next]_vars => ValueInv'
  <2> SUFFICES ASSUME ValueInv, FileInv, SaInv, [Next]_vars PROVE ValueInv'
    OBVIOUS
  <2>0. CfgTyped(cfg) /\ SppsTyped(loaded)
    BY Zenon DEF FileInv, SaInv
  <2>s. ASSUME UNCHANGED <<opts, net, prms, params, msg>>,
               UNCHANGED allow \/ allow' = 0
        PROVE  ValueInv'
    <3>1. 0 \in 0 .. 255
      OBVIOUS
    <3>2. allow' \in 0 .. 255
      <4>1. allow \in 0 .. 255
        BY Zenon DEF ValueInv
      <4> QED
        BY <2>s, <3>1, <4>1
    <3> QED
      BY <2>s, <3>2 DEF ValueInv
  <2>1. ASSUME \/ (\E l : cfg_read(l)) \/ (\E l : sa_read(l)) \/ sa_eof
               \/ process_cfg \/ process_cfg_line \/ process_cfg_eof
               \/ process_auth \/ process_sa_line \/ process_sa_eof
               \/ close \/ use_socket \/ UNCHANGED vars
        PROVE  ValueInv'
    <3>1. CASE (\E l : cfg_read(l)) \/ (\E l : sa_read(l)) \/ sa_eof
      BY <2>s, <3>1, Zenon DEF cfg_read, cfg_turn, sa_read, sa_turn, sa_eof, options, message
    <3>2. CASE process_cfg \/ process_cfg_line \/ process_cfg_eof
      BY <2>s, <3>2, Zenon DEF process_cfg, process_cfg_line, process_cfg_eof, cfg_turn,
         options, message
    <3>3. CASE process_auth \/ process_sa_line \/ process_sa_eof
      BY <2>s, <3>3, Zenon DEF process_auth, process_sa_line, process_sa_eof, sa_turn,
         options, message
    <3>4. CASE close \/ use_socket \/ UNCHANGED vars
      BY <2>s, <3>4, Zenon DEF close, use_socket, vars, options, message
    <3> QED
      BY <2>1, <3>1, <3>2, <3>3, <3>4, Zenon
  <2>2. ASSUME NEW a \in Args, parse_option(a[1], a[2]) PROVE ValueInv'
    <3>1. UNCHANGED <<prms, params, msg, allow>>
      BY <2>2, Zenon DEF parse_option, message
    <3>2. CASE UNCHANGED <<opts, net>>
      BY <2>s, <3>1, <3>2, Zenon
    <3>3. CASE UNCHANGED opts /\ net' \in {2, 4, 6, UDS}
      <4>1. net' \in {0, UDS, 2, 4, 6}
        BY <3>3, Zenon
      <4> QED
        BY <3>1, <3>3, <4>1, Zenon DEF ValueInv
    <3>4. CASE UNCHANGED net /\ opts' = Put(opts, a[1], a[2])
      <4>1. a[2] \in Int
        BY ArgsAssumption, Zenon
      <4> DEFINE c == a[1]
                 v == a[2]
      <4>2. opts' = Put(opts, c, v) /\ v \in Int
        BY <3>4, <4>1, Zenon
      <4> HIDE DEF c, v
      <4>3. \A x \in DOMAIN opts' : opts'[x] \in Int
        BY <4>2, Zenon DEF Put, ValueInv
      <4> QED
        BY <3>1, <3>4, <4>3, Zenon DEF ValueInv
    <3> QED
      BY <2>2, <3>2, <3>3, <3>4, Zenon DEF parse_option
  <2>3. ASSUME NEW hmac, process_key(hmac) PROVE ValueInv'
    <3>1. UNCHANGED <<opts, net, params>>
      BY <2>3, Zenon DEF process_key, options
    <3>2. CASE UNCHANGED <<msg, allow, prms>>
      BY <2>s, <3>1, <3>2, Zenon
    <3>3. CASE /\ have(loaded, Spp, Key)
               /\ msg' = [msg EXCEPT !.mac = loaded[Spp][Key]]
               /\ allow' = option("U", "allow_unauth") % 256
               /\ prms' = [prms EXCEPT !.ignore = prms.ignore \/ allow' > 0,
                                       !.minorVersion = 1]
      <4>1. allow' \in 0 .. 255
        BY <2>0, <3>3, OptionIsOctet, KeysAreNamed, ZenonT(30)
      <4>2. loaded[Spp][Key] \in {0, 16, 32}
        <5>1. loaded[Spp][Key] \in {16, 32}
          BY <2>0, <3>3, Zenon DEF have, SppsTyped, KeysTyped
        <5> QED
          BY <5>1, Zenon
      <4>3. /\ DOMAIN msg' = DOMAIN msg /\ msg'.mac = loaded[Spp][Key]
            /\ msg'.useZeroGet = msg.useZeroGet
        <5> DEFINE m == loaded[Spp][Key]
        <5>1. msg' = [msg EXCEPT !.mac = m]
          BY <3>3, Zenon
        <5>2. "mac" \in DOMAIN msg /\ "useZeroGet" \in DOMAIN msg
          BY Zenon DEF ValueInv
        <5> HIDE DEF m
        <5>3. DOMAIN msg' = DOMAIN msg /\ msg'.mac = m /\ msg'.useZeroGet = msg.useZeroGet
          BY <5>1, <5>2
        <5> QED
          BY <5>3, Zenon DEF m
      <4>4. ParamsTyped(prms')
        <5> DEFINE i == prms.ignore \/ allow' > 0
        <5>1. prms' = [prms EXCEPT !.ignore = i, !.minorVersion = 1]
          BY <3>3, Zenon
        <5>2. ParamsTyped(prms)
          BY Zenon DEF ValueInv
        <5> HIDE DEF i
        <5> QED
          BY <5>1, <5>2, KeyParams, Zenon
      <4> QED
        BY <3>1, <4>1, <4>2, <4>3, <4>4, Zenon DEF ValueInv
    <3> QED
      BY <2>3, <3>2, <3>3, Zenon DEF process_key, useAuth
  <2>4. ASSUME NEW found, process_net(found) PROVE ValueInv'
    <3>1. UNCHANGED <<opts, params, msg, allow>>
      BY <2>4, Zenon DEF process_net, message
    <3>2. ParamsTyped(prms')
      BY <2>0, <2>4, ParamsAfterNet, Zenon
    <3>3. net' \in {0, UDS, 2, 4, 6}
      <4>1. PICK m : net' = IF m \in Kinds THEN m ELSE 4
        BY <2>4, Zenon DEF process_net
      <4> QED
        BY <4>1, Zenon DEF Kinds
    <3> QED
      BY <3>1, <3>2, <3>3, Zenon DEF ValueInv
  <2>5. ASSUME NEW n, process_socket(n) PROVE ValueInv'
    <3>1. UNCHANGED <<opts, net, allow, prms>>
      BY <2>5, Zenon DEF process_socket, options
    <3>2. CASE UNCHANGED <<params, msg>>
      BY <2>s, <3>1, <3>2, Zenon
    <3>3. CASE /\ params' = updateParams(params, prms)
               /\ msg' = [msg EXCEPT !.useZeroGet = params'.useZeroGet]
      <4>1. ParamsTyped(params') /\ params'.transportSpecific \in 0 .. 15
        <5>1. CASE prms.transportSpecific > 15
          BY <3>3, <5>1, Zenon DEF updateParams, ValueInv
        <5>2. CASE ~(prms.transportSpecific > 15)
          <6>1. params' = prms
            BY <3>3, <5>2, Zenon DEF updateParams
          <6>2. prms.transportSpecific \in 0 .. 255
            BY Zenon DEF ValueInv, ParamsTyped
          <6>3. prms.transportSpecific \in 0 .. 15
            BY <5>2, <6>2
          <6> QED
            BY <6>1, <6>3, Zenon DEF ValueInv
        <5> QED
          BY <5>1, <5>2
      <4>2. /\ DOMAIN msg' = DOMAIN msg /\ msg'.mac = msg.mac
            /\ msg'.useZeroGet = params'.useZeroGet
        <5> DEFINE z == params'.useZeroGet
        <5>1. msg' = [msg EXCEPT !.useZeroGet = z]
          BY <3>3, Zenon
        <5>2. "mac" \in DOMAIN msg /\ "useZeroGet" \in DOMAIN msg
          BY Zenon DEF ValueInv
        <5> HIDE DEF z
        <5>3. DOMAIN msg' = DOMAIN msg /\ msg'.mac = msg.mac /\ msg'.useZeroGet = z
          BY <5>1, <5>2
        <5> QED
          BY <5>3, Zenon DEF z
      <4>3. params'.useZeroGet \in BOOLEAN
        BY <4>1, Zenon DEF ParamsTyped
      <4> QED
        BY <3>1, <4>1, <4>2, <4>3, Zenon DEF ValueInv
    <3> QED
      BY <2>5, <3>2, <3>3, Zenon DEF process_socket
  <2> QED
    BY <2>1, <2>2, <2>3, <2>4, <2>5, Zenon DEF Next
<1> QED
  BY <1>1, <1>2, FileInvariant, SaInvariant, PTL DEF Spec

\* Every setting is unset or in the range that set_val gives its key, the parameters
\* of the Message are in the ranges of updateParams and of their types, and the socket
\* is of a known kind: for any options and files.
THEOREM SettingsTyped == Spec => []TypeOK
<1>1. ProcessInv => sk.kind \in Kinds \union {0}
  <2>1. NoSock.kind = 0
    BY DEF NoSock
  <2> QED
    BY <2>1, Zenon DEF ProcessInv, SockInv, IsSock
<1>2. FileInv /\ ValueInv /\ ProcessInv => TypeOK
  BY <1>1, Zenon DEF FileInv, CfgTyped, ValueInv, ParamsTyped, TypeOK
<1> QED
  BY <1>2, FileInvariant, ValueInvariant, ProcessInvariant, PTL

\* With the settings that process made, every message of every id fits a buffer of the
\* planned length exactly, whatever the options and the files.
THEOREM SettingsPlanIsBuilt == Spec => []PlannedIsBuilt
<1>1. ValueInv => PlannedIsBuilt
  BY PlansAreRight, Zenon DEF ValueInv, PlannedIsBuilt
<1> QED
  BY <1>1, ValueInvariant, PTL

=============================================================================
