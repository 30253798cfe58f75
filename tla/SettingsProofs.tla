---------------------------- MODULE SettingsProofs ----------------------------
(***************************************************************************)
(* Proofs about Settings, for any commands, processes, profiles and        *)
(* failures: the types of what the commands share, the lists of profiles,  *)
(* that TUN mode is never set without service mode when the settings are   *)
(* changed by one process at a time, and that a change of the settings     *)
(* that no other one got in the way of is all or nothing.                  *)
(***************************************************************************)
EXTENDS Settings, SequenceTheorems, TLAPS

-----------------------------------------------------------------------------
(* Lists of profiles.                                                      *)

LEMMA PositionIs ==
  ASSUME NEW s \in Seq(Uids), NEW u \in Range(s)
  PROVE  Position(s, u) \in 1..Len(s) /\ s[Position(s, u)] = u
  <1>1. \E i \in DOMAIN s : s[i] = u
    BY DEF Range
  <1>2. Position(s, u) \in DOMAIN s /\ s[Position(s, u)] = u
    BY <1>1 DEF Position
  <1> QED
    BY <1>2

LEMMA Concatenated ==
  ASSUME NEW T, NEW a \in Seq(T), NEW b \in Seq(T)
  PROVE  /\ a \o b \in Seq(T) /\ Len(a \o b) = Len(a) + Len(b)
         /\ \A j \in 1..(Len(a) + Len(b)) : (a \o b)[j] = IF j <= Len(a) THEN a[j] ELSE b[j - Len(a)]
  <1>1. Len(a) \in Nat /\ Len(b) \in Nat
    OBVIOUS
  <1>2. a \o b \in Seq(T) /\ Len(a \o b) = Len(a) + Len(b)
    OBVIOUS
  <1>3. \A j \in 1..(Len(a) + Len(b)) : (a \o b)[j] = IF j <= Len(a) THEN a[j] ELSE b[j - Len(a)]
    OBVIOUS
  <1> QED
    BY <1>2, <1>3

\* What removing the element at i leaves.
LEMMA RemoveAtIs ==
  ASSUME NEW s \in Seq(Uids), NEW i \in 1..Len(s)
  PROVE  /\ RemoveAt(s, i) \in Seq(Uids)
         /\ Len(RemoveAt(s, i)) = Len(s) - 1
         /\ \A j \in 1..(Len(s) - 1) : RemoveAt(s, i)[j] = IF j < i THEN s[j] ELSE s[j + 1]
  <1> DEFINE a == SubSeq(s, 1, i - 1)
             b == SubSeq(s, i + 1, Len(s))
  <1>1. a \in Seq(Uids) /\ Len(a) = i - 1 /\ \A j \in 1..(i - 1) : a[j] = s[j]
    OBVIOUS
  <1>2. b \in Seq(Uids) /\ Len(b) = Len(s) - i /\ \A j \in 1..(Len(s) - i) : b[j] = s[i + j]
    OBVIOUS
  <1>3. RemoveAt(s, i) = a \o b
    BY DEF RemoveAt
  <1> HIDE DEF a, b
  <1>4. /\ a \o b \in Seq(Uids) /\ Len(a \o b) = Len(a) + Len(b)
        /\ \A j \in 1..(Len(a) + Len(b)) : (a \o b)[j] = IF j <= Len(a) THEN a[j] ELSE b[j - Len(a)]
    BY <1>1, <1>2, Concatenated
  <1>5. ASSUME NEW j \in 1..(Len(s) - 1)
        PROVE  (a \o b)[j] = IF j < i THEN s[j] ELSE s[j + 1]
    <2>1. CASE j < i
      BY <1>1, <1>2, <1>4, <2>1
    <2>2. CASE ~(j < i)
      <3>1. (a \o b)[j] = b[j - (i - 1)]
        BY <1>1, <1>2, <1>4, <2>2
      <3>2. j - (i - 1) \in 1..(Len(s) - i) /\ i + (j - (i - 1)) = j + 1
        BY <2>2
      <3> QED
        BY <1>2, <2>2, <3>1, <3>2
    <2> QED
      BY <2>1, <2>2
  <1> QED
    BY <1>1, <1>2, <1>3, <1>4, <1>5

\* What inserting u before the element at i gives.
LEMMA InsertAtIs ==
  ASSUME NEW s \in Seq(Uids), NEW u \in Uids, NEW i \in 1..(Len(s) + 1)
  PROVE  /\ InsertAt(s, i, u) \in Seq(Uids)
         /\ Len(InsertAt(s, i, u)) = Len(s) + 1
         /\ \A j \in 1..(Len(s) + 1) :
              InsertAt(s, i, u)[j] = IF j < i THEN s[j] ELSE IF j = i THEN u ELSE s[j - 1]
  <1> DEFINE a == SubSeq(s, 1, i - 1)
             b == SubSeq(s, i, Len(s))
             m == a \o <<u>>
  <1>1. a \in Seq(Uids) /\ Len(a) = i - 1 /\ \A j \in 1..(i - 1) : a[j] = s[j]
    OBVIOUS
  <1>2. b \in Seq(Uids) /\ Len(b) = Len(s) - i + 1 /\ \A j \in 1..(Len(s) - i + 1) : b[j] = s[i + j - 1]
    OBVIOUS
  <1>3. InsertAt(s, i, u) = m \o b
    BY DEF InsertAt
  <1> HIDE DEF a, b
  <1>4. m \in Seq(Uids) /\ Len(m) = i /\ \A j \in 1..i : m[j] = IF j < i THEN a[j] ELSE u
    BY <1>1
  <1> HIDE DEF m
  <1>5. /\ m \o b \in Seq(Uids) /\ Len(m \o b) = Len(m) + Len(b)
        /\ \A j \in 1..(Len(m) + Len(b)) : (m \o b)[j] = IF j <= Len(m) THEN m[j] ELSE b[j - Len(m)]
    BY <1>2, <1>4, Concatenated
  <1>6. ASSUME NEW j \in 1..(Len(s) + 1)
        PROVE  (m \o b)[j] = IF j < i THEN s[j] ELSE IF j = i THEN u ELSE s[j - 1]
    <2>1. CASE j <= i
      <3>1. (m \o b)[j] = m[j] /\ j \in 1..i
        BY <1>2, <1>4, <1>5, <2>1
      <3> QED
        BY <1>1, <1>4, <2>1, <3>1
    <2>2. CASE j > i
      <3>1. (m \o b)[j] = b[j - i]
        BY <1>2, <1>4, <1>5, <2>2
      <3>2. j - i \in 1..(Len(s) - i + 1) /\ i + (j - i) - 1 = j - 1
        BY <2>2
      <3> QED
        BY <1>2, <2>2, <3>1, <3>2
    <2>3. j <= i \/ j > i
      OBVIOUS
    <2> QED
      BY <2>1, <2>2, <2>3
  <1> QED
    BY <1>2, <1>3, <1>4, <1>5, <1>6

\* A list without u: the others, each once.
LEMMA WithoutIs ==
  ASSUME NEW s \in Seq(Uids), NEW u \in Uids
  PROVE  /\ Without(s, u) \in Seq(Uids)
         /\ Range(Without(s, u)) \subseteq Range(s)
         /\ u \in Range(s) => Len(Without(s, u)) = Len(s) - 1
         /\ IsInjective(s) => /\ Range(Without(s, u)) = Range(s) \ {u}
                              /\ IsInjective(Without(s, u))
  <1>1. CASE u \notin Range(s)
    BY <1>1 DEF Without
  <1>2. CASE u \in Range(s)
    <2> DEFINE i == Position(s, u)
               t == Without(s, u)
    <2>1. i \in 1..Len(s) /\ s[i] = u
      BY <1>2, PositionIs
    <2>2. t = RemoveAt(s, i)
      BY <1>2 DEF Without
    <2>3. /\ t \in Seq(Uids) /\ Len(t) = Len(s) - 1
          /\ \A j \in 1..(Len(s) - 1) : t[j] = IF j < i THEN s[j] ELSE s[j + 1]
      BY <2>1, <2>2, RemoveAtIs
    <2> HIDE DEF i, t
    <2>4. Range(t) \subseteq Range(s)
      <3> SUFFICES ASSUME NEW j \in 1..(Len(s) - 1) PROVE t[j] \in Range(s)
        BY <2>3 DEF Range
      <3>1. j \in 1..Len(s) /\ j + 1 \in 1..Len(s)
        OBVIOUS
      <3> QED
        BY <2>3, <3>1 DEF Range
    <2>5. ASSUME IsInjective(s) PROVE IsInjective(t) /\ Range(t) = Range(s) \ {u}
      <3>1. \A j, k \in 1..Len(s) : s[j] = s[k] => j = k
        BY <2>5 DEF IsInjective
      <3>2. ASSUME NEW j \in 1..(Len(s) - 1), NEW k \in 1..(Len(s) - 1), t[j] = t[k] PROVE j = k
        BY <2>1, <2>3, <3>1, <3>2
      <3>3. ASSUME NEW j \in 1..(Len(s) - 1) PROVE t[j] # u
        BY <2>1, <2>3, <3>1
      <3>4. ASSUME NEW k \in 1..Len(s), s[k] # u PROVE s[k] \in Range(t)
        <4>1. k # i
          BY <2>1, <3>4
        <4>2. CASE k < i
          <5>1. k \in 1..(Len(s) - 1) /\ t[k] = s[k]
            BY <2>1, <2>3, <4>2
          <5> QED
            BY <2>3, <5>1 DEF Range
        <4>3. CASE k > i
          <5>1. k - 1 \in 1..(Len(s) - 1) /\ t[k - 1] = s[k]
            BY <2>1, <2>3, <4>3
          <5> QED
            BY <2>3, <5>1 DEF Range
        <4> QED
          BY <2>1, <4>1, <4>2, <4>3
      <3>5. IsInjective(t)
        BY <2>3, <3>2 DEF IsInjective
      <3>6. Range(t) = Range(s) \ {u}
        <4>1. u \notin Range(t)
          BY <2>3, <3>3 DEF Range
        <4>2. Range(s) \ {u} \subseteq Range(t)
          BY <3>4 DEF Range
        <4> QED
          BY <2>4, <4>1, <4>2
      <3> QED
        BY <3>5, <3>6
    <2> QED
      BY <2>3, <2>4, <2>5 DEF t
  <1> QED
    BY <1>1, <1>2

\* A list with u moved to i: the same profiles, each once.
LEMMA InsertedIs ==
  ASSUME NEW s \in Seq(Uids), NEW u \in Uids \ Range(s), NEW i \in 1..(Len(s) + 1), IsInjective(s)
  PROVE  /\ Range(InsertAt(s, i, u)) = Range(s) \cup {u}
         /\ IsInjective(InsertAt(s, i, u))
  <1> DEFINE t == InsertAt(s, i, u)
  <1>1. /\ t \in Seq(Uids) /\ Len(t) = Len(s) + 1
        /\ \A j \in 1..(Len(s) + 1) : t[j] = IF j < i THEN s[j] ELSE IF j = i THEN u ELSE s[j - 1]
    BY InsertAtIs
  <1> HIDE DEF t
  <1>2. \A j, k \in 1..Len(s) : s[j] = s[k] => j = k
    BY DEF IsInjective
  <1>3. \A j \in 1..Len(s) : s[j] # u /\ s[j] \in Range(s)
    BY DEF Range
  <1>4. ASSUME NEW j \in 1..(Len(s) + 1), NEW k \in 1..(Len(s) + 1), t[j] = t[k] PROVE j = k
    <2>1. ASSUME NEW l \in 1..(Len(s) + 1), l # i
          PROVE  \E h \in 1..Len(s) : t[l] = s[h] /\ h = IF l < i THEN l ELSE l - 1
      <3>1. CASE l < i
        BY <1>1, <3>1
      <3>2. CASE l > i
        <4>1. l - 1 \in 1..Len(s) /\ t[l] = s[l - 1]
          BY <1>1, <3>2
        <4> QED
          BY <3>2, <4>1
      <3> QED
        BY <2>1, <3>1, <3>2
    <2>2. t[i] = u
      BY <1>1
    <2>3. CASE j = i \/ k = i
      BY <1>3, <1>4, <2>1, <2>2, <2>3
    <2>4. CASE j # i /\ k # i
      <3>1. PICK h \in 1..Len(s) : t[j] = s[h] /\ h = IF j < i THEN j ELSE j - 1
        BY <2>1, <2>4
      <3>2. PICK l \in 1..Len(s) : t[k] = s[l] /\ l = IF k < i THEN k ELSE k - 1
        BY <2>1, <2>4
      <3>3. h = l
        BY <1>2, <1>4, <3>1, <3>2
      <3> QED
        BY <2>4, <3>1, <3>2, <3>3
    <2> QED
      BY <2>3, <2>4
  <1>5. ASSUME NEW j \in 1..(Len(s) + 1) PROVE t[j] \in Range(s) \cup {u}
    BY <1>1, <1>3
  <1>6. ASSUME NEW k \in 1..Len(s) PROVE s[k] \in Range(t)
    <2>1. CASE k < i
      <3>1. k \in 1..(Len(s) + 1) /\ t[k] = s[k]
        BY <1>1, <2>1
      <3> QED
        BY <1>1, <3>1 DEF Range
    <2>2. CASE k >= i
      <3>1. k + 1 \in 1..(Len(s) + 1) /\ t[k + 1] = s[k]
        BY <1>1, <2>2
      <3> QED
        BY <1>1, <3>1 DEF Range
    <2> QED
      BY <2>1, <2>2
  <1>7. u \in Range(t)
    <2>1. t[i] = u
      BY <1>1
    <2> QED
      BY <1>1, <2>1 DEF Range
  <1>8. IsInjective(t)
    BY <1>1, <1>4 DEF IsInjective
  <1>9. Range(t) \subseteq Range(s) \cup {u}
    BY <1>1, <1>5 DEF Range
  <1>10. Range(s) \subseteq Range(t)
    BY <1>6 DEF Range
  <1> QED
    BY <1>7, <1>8, <1>9, <1>10 DEF t

\* What the edits of a list keep of it.
Kept(p, q) == q \in Profiles /\ (Sound(p) => Sound(q))

LEMMA AppendedIs ==
  ASSUME NEW p \in Profiles, NEW u \in Uids \ Listed(p)
  PROVE  Kept(p, Appended(p, u)) /\ Listed(Appended(p, u)) = Listed(p) \cup {u}
  <1> DEFINE s == p.items
             t == Append(s, u)
             q == Appended(p, u)
  <1>1. s \in Seq(Uids) /\ p.current \in Uids \cup {None}
    BY DEF Profiles
  <1>2. q.items = t /\ q.current = p.current /\ q \in Profiles
    BY <1>1 DEF Appended, Profiles
  <1>3. Len(t) = Len(s) + 1 /\ t \in Seq(Uids) /\ t[Len(s) + 1] = u /\ \A j \in 1..Len(s) : t[j] = s[j]
    BY <1>1
  <1>4. \A j \in 1..Len(s) : s[j] # u /\ s[j] \in Range(s)
    BY <1>1 DEF Listed, Range
  <1> HIDE DEF s, t, q
  <1>5. Range(t) = Range(s) \cup {u}
    <2>1. Range(t) \subseteq Range(s) \cup {u}
      <3> SUFFICES ASSUME NEW j \in 1..(Len(s) + 1) PROVE t[j] \in Range(s) \cup {u}
        BY <1>3 DEF Range
      <3>1. j \in 1..Len(s) \/ j = Len(s) + 1
        BY <1>1
      <3> QED
        BY <1>3, <1>4, <3>1
    <2>2. ASSUME NEW j \in 1..Len(s) PROVE s[j] \in Range(t)
      <3>1. j \in 1..Len(t) /\ t[j] = s[j]
        BY <1>1, <1>3
      <3> QED
        BY <1>3, <3>1 DEF Range
    <2>3. u \in Range(t)
      <3>1. Len(s) + 1 \in 1..Len(t)
        BY <1>1, <1>3
      <3> QED
        BY <1>3, <3>1 DEF Range
    <2>4. Range(s) \subseteq Range(t)
      BY <1>1, <2>2 DEF Range
    <2> QED
      BY <2>1, <2>3, <2>4
  <1>6. ASSUME IsInjective(s) PROVE IsInjective(t)
    <2> SUFFICES ASSUME NEW j \in 1..(Len(s) + 1), NEW k \in 1..(Len(s) + 1), t[j] = t[k]
                 PROVE  j = k
      BY <1>3 DEF IsInjective
    <2>1. \A h, l \in 1..Len(s) : s[h] = s[l] => h = l
      BY <1>1, <1>6 DEF IsInjective
    <2> QED
      BY <1>1, <1>3, <1>4, <2>1
  <1> QED
    BY <1>2, <1>5, <1>6 DEF Kept, Sound, Listed, s, t, q

LEMMA WithScriptIs ==
  ASSUME NEW p \in Profiles
  PROVE  Kept(p, WithScript(p)) /\ Script \in Listed(WithScript(p))
  <1>1. CASE Script \in Listed(p)
    BY <1>1 DEF WithScript, Kept
  <1>2. CASE Script \notin Listed(p)
    <2> DEFINE s == p.items
               t == <<Script>> \o s
               q == WithScript(p)
    <2>1. s \in Seq(Uids) /\ p.current \in Uids \cup {None} /\ Script \in Uids
      BY SettingsAssumption DEF Profiles
    <2>2. t \in Seq(Uids)
      BY <2>1
    <2>3. q.items = t /\ q.current = p.current /\ q \in Profiles
      BY <1>2, <2>1, <2>2 DEF WithScript, Profiles
    <2>4. Len(t) = Len(s) + 1 /\ t[1] = Script /\ \A j \in 1..Len(s) : t[j + 1] = s[j]
      <3>1. <<Script>> \in Seq(Uids) /\ Len(<<Script>>) = 1 /\ <<Script>>[1] = Script
        BY <2>1
      <3>2. /\ Len(t) = 1 + Len(s)
            /\ \A j \in 1..(1 + Len(s)) : t[j] = IF j <= 1 THEN <<Script>>[j] ELSE s[j - 1]
        BY <2>1, <3>1, Concatenated
      <3> HIDE DEF t, s
      <3> QED
        BY <2>1, <3>1, <3>2
    <2>5. \A j \in 1..Len(s) : s[j] # Script /\ s[j] \in Range(s)
      BY <1>2, <2>1 DEF Listed, Range
    <2> HIDE DEF s, t, q
    <2>6. \A j \in 1..Len(t) : j = 1 \/ (j - 1 \in 1..Len(s) /\ t[j] = s[j - 1])
      BY <2>1, <2>4
    <2>7. Range(s) \cup {Script} = Range(t)
      <3>1. 1 \in 1..Len(t) /\ \A j \in 1..Len(s) : j + 1 \in 1..Len(t)
        BY <2>1, <2>4
      <3>2. Range(s) \cup {Script} \subseteq Range(t)
        BY <2>1, <2>2, <2>4, <3>1 DEF Range
      <3>3. Range(t) \subseteq Range(s) \cup {Script}
        BY <2>2, <2>4, <2>5, <2>6 DEF Range
      <3> QED
        BY <3>2, <3>3
    <2>8. ASSUME IsInjective(s) PROVE IsInjective(t)
      <3> SUFFICES ASSUME NEW j \in 1..Len(t), NEW k \in 1..Len(t), t[j] = t[k] PROVE j = k
        BY <2>2 DEF IsInjective
      <3>1. \A h, l \in 1..Len(s) : s[h] = s[l] => h = l
        BY <2>1, <2>8 DEF IsInjective
      <3>2. CASE j = 1 \/ k = 1
        BY <2>4, <2>5, <2>6, <3>2
      <3>3. CASE j # 1 /\ k # 1
        <4>1. j - 1 = k - 1
          BY <2>6, <3>1, <3>3
        <4> QED
          BY <4>1
      <3> QED
        BY <3>2, <3>3
    <2> QED
      BY <2>3, <2>7, <2>8 DEF Kept, Sound, Listed, s, t, q
  <1> QED
    BY <1>1, <1>2

LEMMA LoadedIs ==
  ASSUME NEW saved, saved = None \/ (saved \in Profiles /\ Sound(saved)), NEW backedUp \in BOOLEAN
  PROVE  /\ Loaded(saved, backedUp) \in Profiles /\ Sound(Loaded(saved, backedUp))
         /\ Script \in Listed(Loaded(saved, backedUp)) \/ (saved = None /\ ~backedUp)
  <1>1. Template \in Profiles
    BY DEF Template, Profiles
  <1>2. Sound(Template)
    <2>1. Template.items = <<>> /\ Template.current = None
      BY DEF Template
    <2> QED
      BY <2>1 DEF Sound, IsInjective
  <1> QED
    BY <1>1, <1>2, WithScriptIs DEF Loaded, Kept

LEMMA DeletedIs ==
  ASSUME NEW p \in Profiles, NEW u \in Uids
  PROVE  Kept(p, Deleted(p, u)) /\ (Sound(p) => Listed(Deleted(p, u)) = Listed(p) \ {u})
  <1> DEFINE rest == Without(p.items, u)
             q == Deleted(p, u)
             first == IF rest = <<>> THEN None ELSE rest[1]
  <1>1. p.items \in Seq(Uids) /\ p.current \in Uids \cup {None}
    BY DEF Profiles
  <1>2. /\ rest \in Seq(Uids)
        /\ IsInjective(p.items) => IsInjective(rest) /\ Range(rest) = Range(p.items) \ {u}
    BY <1>1, WithoutIs
  <1> HIDE DEF rest
  <1>3. first \in Uids \cup {None} /\ first \in Range(rest) \cup {None}
    <2>1. CASE rest # <<>>
      <3>1. 1 \in 1..Len(rest)
        BY <1>2, <2>1
      <3> QED
        BY <1>2, <2>1, <3>1 DEF Range
    <2> QED
      BY <2>1
  <1>4. q.items = rest /\ q.current = IF p.current \in {u, None} THEN first ELSE p.current
    BY DEF Deleted, rest
  <1> HIDE DEF first
  <1>5. q \in Profiles
    BY <1>1, <1>2, <1>3, <1>4 DEF Deleted, rest, Profiles, first
  <1>6. ASSUME Sound(p) PROVE Sound(q) /\ Listed(q) = Listed(p) \ {u}
    BY <1>2, <1>3, <1>4, <1>6 DEF Sound, Listed
  <1> QED
    BY <1>5, <1>6 DEF Kept

LEMMA MovedIs ==
  ASSUME NEW p \in Profiles, NEW u \in Listed(p), NEW over \in Listed(p)
  PROVE  Kept(p, Moved(p, u, over)) /\ (Sound(p) => Listed(Moved(p, u, over)) = Listed(p))
  <1> DEFINE s == p.items
             rest == Without(s, u)
             i == Position(s, over)
             t == InsertAt(rest, i, u)
             q == Moved(p, u, over)
  <1>1. s \in Seq(Uids) /\ p.current \in Uids \cup {None} /\ u \in Uids /\ u \in Range(s)
    BY DEF Profiles, Listed, Range
  <1>2. i \in 1..Len(s)
    BY <1>1, PositionIs DEF Listed
  <1>3. /\ rest \in Seq(Uids) /\ Len(rest) = Len(s) - 1
        /\ IsInjective(s) => IsInjective(rest) /\ Range(rest) = Range(s) \ {u}
    BY <1>1, WithoutIs
  <1>4. i \in 1..(Len(rest) + 1)
    BY <1>1, <1>2, <1>3
  <1> HIDE DEF i, rest, s
  <1>5. t \in Seq(Uids)
    BY <1>1, <1>3, <1>4, InsertAtIs
  <1>6. ASSUME IsInjective(s) PROVE IsInjective(t) /\ Range(t) = Range(s)
    <2>1. IsInjective(rest) /\ Range(rest) = Range(s) \ {u} /\ u \in Uids \ Range(rest)
      BY <1>1, <1>3, <1>6
    <2>2. IsInjective(t) /\ Range(t) = Range(rest) \cup {u}
      BY <1>3, <1>4, <2>1, InsertedIs
    <2> QED
      BY <1>1, <2>1, <2>2
  <1> HIDE DEF t
  <1>7. q.items = t /\ q.current = p.current /\ q \in Profiles
    BY <1>1, <1>5 DEF Moved, Profiles, s, rest, i, t
  <1> QED
    BY <1>6, <1>7 DEF Kept, Sound, Listed, s

LEMMA SelectedIs ==
  ASSUME NEW p \in Profiles, NEW a, a.current \in Uids
  PROVE  Kept(p, Selected(a, p)) /\ Listed(Selected(a, p)) = Listed(p)
  BY DEF Kept, Selected, Sound, Listed, Profiles

-----------------------------------------------------------------------------
(* Commands.                                                               *)

Fields == {"kind", "arg", "todo", "tried", "local", "previous", "rolling", "whole",
           "swallowed", "alone", "before"}
Documented == {"verge", "clash", "core", "switch"}
AllStages == {"validate", "draft", "save", "commit", "discard", "launch", "proxy", "hotkeys", "tray",
              "firewall", "port", "runtime", "script", "restore", "fetch", "edit"} \cup CoreStages

\* The stages a command may still have to do.
Fits(c, s) ==
    /\ s \in {"draft", "save"} => ~c.rolling /\ c.kind \in Documented
    /\ s = "hotkeys" => c.rolling \/ (c.kind = "verge" /\ "hotkeys" \in DOMAIN c.arg)
    /\ s = "firewall" => c.rolling \/ (c.kind = "clash" /\ "lan" \in DOMAIN c.arg)
    /\ s = "runtime" => c.kind = "clash"
    /\ s = "script" => ~c.rolling /\ c.kind = "script"
    /\ s = "restore" => c.kind = "script" /\ c.rolling /\ c.previous \in Scripts
    /\ s = "edit" => c.kind = "edit"

Stages(c) == {s \in AllStages : Fits(c, s)}

\* A command on the global script knows the old one before anything but saving
\* the new one can fail.
Remembered(c) ==
    c.previous \in Scripts \/ (c.tried = {} /\ c.todo # <<>> /\ Head(c.todo) = "script")

CmdOK(c) ==
    /\ DOMAIN c = Fields
    /\ IsCommand(c)
    /\ c.rolling \in BOOLEAN
    /\ c.local \in Runs \cup {None}
    /\ c.todo \in Seq(Stages(c))
    /\ c.kind = "script" /\ ~c.rolling => Remembered(c)

CmdsOK ==
    /\ DOMAIN cmd = Procs
    /\ \A p \in Procs : cmd[p] = None \/ CmdOK(cmd[p])

ConfigOK ==
    /\ DOMAIN config = Documents
    /\ config["verge"] \in Settled(Verges) /\ config["clash"] \in Settled(Clashes)
    /\ config["profiles"] \in Settled(Profiles) /\ config["runtime"] \in Settled(Runs \cup {None})

DiskOK == disk \in [verge : Verges, clash : Clashes, profiles : Profiles \cup {None},
                    script : Scripts, run : Runs]

CoreOK == core \in [config : Runs, service : BOOLEAN] \cup {None}

EffectsOK ==
    /\ launch \in LaunchStates
    /\ proxy \in {"p1", "p2", "off"} /\ hotkeys \in {"h1", "h2"} /\ firewall \subseteq Cores
    /\ timers \subseteq Remote

(* The inductive invariant of the types.                                   *)
TInv == ConfigOK /\ DiskOK /\ CoreOK /\ EffectsOK /\ CmdsOK

\* What a step leaves of a command, and where it goes on.
Same(c, d) == DOMAIN d = Fields /\ d.kind = c.kind /\ d.arg = c.arg /\ d.previous = c.previous
Left(c, d, todo, tried) == Same(c, d) /\ d.local = c.local /\ d.todo = todo /\ d.tried = tried

LEMMA FieldsChange ==
  ASSUME NEW c, DOMAIN c = Fields, NEW x
  PROVE  /\ Left(c, [c EXCEPT !.todo = x], x, c.tried) /\ [c EXCEPT !.todo = x].rolling = c.rolling
         /\ Left(c, [c EXCEPT !.tried = x], c.todo, x) /\ [c EXCEPT !.tried = x].rolling = c.rolling
         /\ Left(c, Disturbed(c), c.todo, c.tried) /\ Disturbed(c).rolling = c.rolling
         /\ Left(c, Incomplete(c), c.todo, c.tried) /\ Incomplete(c).rolling = c.rolling
         /\ Left(c, RollsBack(c), c.todo, c.tried) /\ RollsBack(c).rolling = TRUE
  BY DEF Fields, Left, Same, Disturbed, Incomplete, RollsBack

LEMMA NotesChange ==
  ASSUME NEW c, DOMAIN c = Fields, NEW x
  PROVE  /\ LET d == [c EXCEPT !.local = x] IN
              Same(c, d) /\ d.todo = c.todo /\ d.tried = c.tried /\ d.rolling = c.rolling /\ d.local = x
         /\ LET d == [c EXCEPT !.swallowed = x] IN
              Left(c, d, c.todo, c.tried) /\ d.rolling = c.rolling
         /\ LET d == [c EXCEPT !.previous = x] IN
              /\ DOMAIN d = Fields /\ d.kind = c.kind /\ d.arg = c.arg /\ d.local = c.local
              /\ d.todo = c.todo /\ d.tried = c.tried /\ d.rolling = c.rolling /\ d.previous = x
  BY DEF Fields, Left, Same

Tries(c) == IF c.rolling THEN c.tried ELSE c.tried \cup {Head(c.todo)}

LEMMA AttemptIs ==
  ASSUME NEW p, DOMAIN cmd[p] = Fields
  PROVE  Left(cmd[p], Attempt(p), cmd[p].todo, Tries(cmd[p])) /\ Attempt(p).rolling = cmd[p].rolling
  <1> DEFINE c == cmd[p]
  <1>1. CASE c.rolling
    BY <1>1 DEF Attempt, Tries, Left, Same
  <1>2. CASE ~c.rolling
    <2> DEFINE x == c.tried \cup {Head(c.todo)}
    <2>1. Attempt(p) = [c EXCEPT !.tried = x] /\ Tries(c) = x
      BY <1>2 DEF Attempt, Tries
    <2> HIDE DEF x, c
    <2>2. DOMAIN c = Fields
      BY DEF c
    <2>3. Left(c, [c EXCEPT !.tried = x], c.todo, x) /\ [c EXCEPT !.tried = x].rolling = c.rolling
      BY <2>2, FieldsChange
    <2> QED
      BY <2>1, <2>3 DEF c
  <1> QED
    BY <1>1, <1>2

LEMMA PassedIs ==
  ASSUME NEW p, DOMAIN cmd[p] = Fields
  PROVE  /\ Left(cmd[p], Passed(p), Tail(cmd[p].todo), Tries(cmd[p]))
         /\ Passed(p).rolling = cmd[p].rolling
  <1> DEFINE a == Attempt(p)
  <1>1. Left(cmd[p], a, cmd[p].todo, Tries(cmd[p])) /\ a.rolling = cmd[p].rolling
    BY AttemptIs
  <1>2. Passed(p) = [a EXCEPT !.todo = Tail(a.todo)]
    BY DEF Passed
  <1> HIDE DEF a
  <1>3. DOMAIN a = Fields
    BY <1>1 DEF Left, Same
  <1>4. Left(a, Passed(p), Tail(a.todo), a.tried) /\ Passed(p).rolling = a.rolling
    <2> DEFINE x == Tail(a.todo)
    <2>1. Passed(p) = [a EXCEPT !.todo = x]
      BY <1>2
    <2> HIDE DEF x
    <2>2. Left(a, [a EXCEPT !.todo = x], x, a.tried) /\ [a EXCEPT !.todo = x].rolling = a.rolling
      BY <1>3, FieldsChange
    <2> QED
      BY <2>1, <2>2 DEF x
  <1> QED
    BY <1>1, <1>4 DEF Left, Same

\* A failure starts the rollback, or goes on in it.
LEMMA FailedIs ==
  ASSUME NEW p, DOMAIN cmd[p] = Fields, Fails(p)
  PROVE  \E d : /\ Goes(p, d) /\ d.rolling = TRUE
                /\ \/ /\ ~cmd[p].rolling
                      /\ \E a : /\ Left(cmd[p], a, cmd[p].todo, Tries(cmd[p]))
                                /\ Left(cmd[p], d, Rollback(a), Tries(cmd[p]))
                   \/ /\ cmd[p].rolling
                      /\ \E i \in 2..(Len(cmd[p].todo) + 1) :
                           Left(cmd[p], d, SubSeq(cmd[p].todo, i, Len(cmd[p].todo)), Tries(cmd[p]))
  <1> DEFINE c == cmd[p]
             a == Attempt(p)
  <1>1. Left(c, a, c.todo, Tries(c)) /\ a.rolling = c.rolling
    BY AttemptIs
  <1>2. DOMAIN a = Fields
    BY <1>1 DEF Left, Same
  <1>3. CASE ~c.rolling /\ Goes(p, [RollsBack(a) EXCEPT !.todo = Rollback(a)])
    <2> DEFINE b == RollsBack(a)
               r == Rollback(a)
               d == [b EXCEPT !.todo = r]
    <2>1. Left(a, b, a.todo, a.tried) /\ b.rolling = TRUE
      BY <1>2, FieldsChange
    <2>2. DOMAIN b = Fields
      BY <2>1 DEF Left, Same
    <2> HIDE DEF b, r, a
    <2>3. Left(b, d, r, b.tried) /\ d.rolling = b.rolling
      BY <2>2, FieldsChange
    <2> HIDE DEF d
    <2>4. Left(c, d, r, Tries(c)) /\ d.rolling = TRUE
      BY <1>1, <2>1, <2>3 DEF Left, Same
    <2>5. Goes(p, d)
      BY <1>3 DEF d, b, r, a
    <2>6. Left(c, d, Rollback(a), Tries(c))
      BY <2>4 DEF r
    <2> QED
      BY <1>1, <1>3, <2>4, <2>5, <2>6
  <1>4. CASE /\ c.rolling
             /\ \E i \in 2..(Len(a.todo) + 1) :
                  Goes(p, [Incomplete(a) EXCEPT !.todo = SubSeq(@, i, Len(@))])
    <2> PICK i \in 2..(Len(a.todo) + 1) :
               Goes(p, [Incomplete(a) EXCEPT !.todo = SubSeq(@, i, Len(@))])
      BY <1>4
    <2> DEFINE b == Incomplete(a)
               r == SubSeq(b.todo, i, Len(b.todo))
               d == [b EXCEPT !.todo = r]
    <2>1. Left(a, b, a.todo, a.tried) /\ b.rolling = a.rolling
      BY <1>2, FieldsChange
    <2>2. DOMAIN b = Fields
      BY <2>1 DEF Left, Same
    <2>5. Goes(p, d)
      OBVIOUS
    <2> HIDE DEF b, a
    <2>3. Left(b, d, r, b.tried) /\ d.rolling = b.rolling
      <3> HIDE DEF r
      <3> QED
        BY <2>2, FieldsChange
    <2> HIDE DEF d
    <2>4. Left(c, d, r, Tries(c)) /\ d.rolling = c.rolling
      <3> HIDE DEF r
      <3> QED
        BY <1>1, <2>1, <2>3 DEF Left, Same
    <2>6. b.todo = c.todo /\ a.todo = c.todo
      BY <1>1, <2>1 DEF Left
    <2>7. i \in 2..(Len(c.todo) + 1) /\ r = SubSeq(c.todo, i, Len(c.todo))
      BY <2>6
    <2>8. d.rolling = TRUE
      BY <1>4, <2>4
    <2> QED
      BY <1>4, <2>4, <2>5, <2>7, <2>8
  <1> QED
    BY <1>3, <1>4 DEF Fails

LEMMA StagesSame ==
  ASSUME NEW c, NEW d, Same(c, d), d.rolling = c.rolling
  PROVE  Stages(d) = Stages(c) /\ (IsCommand(c) => IsCommand(d))
  BY DEF Same, Stages, Fits, IsCommand

LEMMA SameCmdOK ==
  ASSUME NEW c, NEW d, CmdOK(c), Left(c, d, c.todo, c.tried), d.rolling = c.rolling
  PROVE  CmdOK(d)
  BY StagesSame DEF CmdOK, Left, Same, Remembered

LEMMA GoesOK ==
  ASSUME CmdsOK, NEW p \in Procs, NEW d, CmdOK(d), Goes(p, d)
  PROVE  CmdsOK'
  <1>1. DOMAIN cmd' = Procs
    BY DEF Goes
  <1>2. ASSUME NEW q \in Procs PROVE cmd'[q] = None \/ CmdOK(cmd'[q])
    <2>1. CASE q = p
      BY <2>1 DEF Goes
    <2>2. CASE q # p /\ cmd[q] # None /\ Shared(p, q)
      <3>1. cmd'[q] = Disturbed(cmd[q])
        BY <2>2 DEF Goes
      <3>2. CmdOK(cmd[q])
        BY <2>2 DEF CmdsOK
      <3>3. Left(cmd[q], Disturbed(cmd[q]), cmd[q].todo, cmd[q].tried)
            /\ Disturbed(cmd[q]).rolling = cmd[q].rolling
        BY <3>2, FieldsChange DEF CmdOK
      <3> QED
        BY <3>1, <3>2, <3>3, SameCmdOK
    <2>3. CASE q # p /\ ~(cmd[q] # None /\ Shared(p, q))
      <3>1. cmd'[q] = cmd[q]
        BY <2>3 DEF Goes
      <3> QED
        BY <3>1 DEF CmdsOK
    <2> QED
      BY <2>1, <2>2, <2>3
  <1> QED
    BY <1>1, <1>2 DEF CmdsOK

LEMMA TailIs ==
  ASSUME NEW S, NEW q \in Seq(S), q # <<>>
  PROVE  Tail(q) \in Seq(S) /\ Head(q) \in S
  OBVIOUS

LEMMA PassesOK ==
  ASSUME CmdsOK, NEW p \in Procs, cmd[p] # None, cmd[p].todo # <<>>,
         Head(cmd[p].todo) # "script", Passes(p)
  PROVE  CmdsOK'
  <1> DEFINE c == cmd[p]
  <1>1. CmdOK(c)
    BY DEF CmdsOK
  <1>2. Left(c, Passed(p), Tail(c.todo), Tries(c)) /\ Passed(p).rolling = c.rolling
    BY <1>1, PassedIs DEF CmdOK
  <1>3. Tail(c.todo) \in Seq(Stages(c))
    BY <1>1, TailIs DEF CmdOK
  <1> HIDE DEF c
  <1>4. CmdOK(Passed(p))
    BY <1>1, <1>2, <1>3, StagesSame DEF CmdOK, Left, Same, Remembered, c
  <1> QED
    BY <1>4, GoesOK DEF Passes

\* The stages of a rollback.
LEMMA RollbackIs ==
  ASSUME NEW c, CmdOK(c), c.todo # <<>>, ~c.rolling, NEW a, Left(c, a, c.todo, Tries(c)),
         NEW d, Left(c, d, Rollback(a), Tries(c)), d.rolling = TRUE
  PROVE  Rollback(a) \in Seq(Stages(d))
  <1> DEFINE T == Stages(d)
  <1>1. CoreStages \cup {"discard", "proxy", "launch", "hotkeys", "tray", "firewall"} \subseteq T
    BY DEF Stages, Fits, AllStages, CoreStages
  <1>2. c.kind = "script" /\ a.tried # {"script"} => "restore" \in T
    <2> SUFFICES ASSUME c.kind = "script", a.tried # {"script"} PROVE "restore" \in T
      OBVIOUS
    <2>1. ~(c.tried = {} /\ Head(c.todo) = "script")
      BY DEF Left, Tries
    <2>2. d.kind = "script" /\ d.previous \in Scripts
      BY <2>1 DEF CmdOK, Remembered, Left, Same
    <2> QED
      BY <2>2 DEF Stages, Fits, AllStages
  <1>3. a.kind = c.kind
    BY DEF Left, Same
  <1> SUFFICES Rollback(a) \in Seq(T)
    OBVIOUS
  <1> HIDE DEF T
  <1>4. <<>> \in Seq(T) /\ <<"discard">> \in Seq(T)
    BY <1>1
  <1>5. Updating \in Seq(T) /\ Restarting \o <<"keep">> \in Seq(T)
    BY <1>1 DEF Updating, Restarting, CoreStages
  <1>6. CoreRollback(a) \in Seq(T)
    <2>1. Updating \o <<"keep">> \in Seq(T) /\ <<"enhance", "generate", "write", "keep">> \in Seq(T)
      BY <1>1 DEF Updating, CoreStages
    <2> QED
      BY <1>4, <1>5, <2>1 DEF CoreRollback, If
  <1>7. /\ Again(a, "proxy") \in Seq(T) /\ Again(a, "launch") \in Seq(T)
        /\ Again(a, "hotkeys") \in Seq(T) /\ Again(a, "tray") \in Seq(T)
        /\ Again(a, "firewall") \in Seq(T)
    BY <1>1 DEF Again, If
  <1>8. CASE a.kind = "switch"
    <2>1. Rollback(a) = <<"discard">>
      BY <1>8 DEF Rollback
    <2> QED
      BY <1>4, <2>1
  <1>9. CASE a.kind = "script"
    <2>1. CASE a.tried = {"script"}
      BY <1>4, <1>9, <2>1 DEF Rollback, If
    <2>2. CASE a.tried # {"script"}
      <3>1. "restore" \in T
        BY <1>2, <1>3, <1>9, <2>2
      <3>2. <<"restore">> \in Seq(T)
        BY <3>1
      <3>3. <<"restore">> \o Updating \in Seq(T)
        BY <1>5, <3>2
      <3>4. Rollback(a) = <<"restore">> \o Updating
        BY <1>9, <2>2 DEF Rollback, If
      <3> QED
        BY <3>3, <3>4
    <2> QED
      BY <2>1, <2>2
  <1>10. CASE a.kind \notin {"switch", "script"} /\ "draft" \notin a.tried
    BY <1>4, <1>10 DEF Rollback
  <1>11. CASE a.kind \notin {"switch", "script"} /\ "draft" \in a.tried
    <2> DEFINE r1 == <<"discard">> \o CoreRollback(a)
               r2 == r1 \o Again(a, "proxy")
               r3 == r2 \o Again(a, "launch")
               r4 == r3 \o Again(a, "hotkeys")
               r5 == r4 \o Again(a, "tray")
               r6 == r5 \o Again(a, "firewall")
    <2>0. Rollback(a) = r6
      BY <1>11 DEF Rollback
    <2>1. r1 \in Seq(T)
      BY <1>4, <1>6
    <2>2. r2 \in Seq(T)
      BY <1>7, <2>1
    <2>3. r3 \in Seq(T)
      BY <1>7, <2>2
    <2>4. r4 \in Seq(T)
      BY <1>7, <2>3
    <2>5. r5 \in Seq(T)
      BY <1>7, <2>4
    <2>6. r6 \in Seq(T)
      BY <1>7, <2>5
    <2> QED
      BY <2>0, <2>6
  <1> QED
    BY <1>8, <1>9, <1>10, <1>11

LEMMA FailsOK ==
  ASSUME CmdsOK, NEW p \in Procs, cmd[p] # None, cmd[p].todo # <<>>, Fails(p)
  PROVE  CmdsOK'
  <1> DEFINE c == cmd[p]
  <1>1. CmdOK(c)
    BY DEF CmdsOK
  <1>2. PICK d : /\ Goes(p, d) /\ d.rolling = TRUE
                 /\ \/ /\ ~c.rolling
                       /\ \E a : Left(c, a, c.todo, Tries(c)) /\ Left(c, d, Rollback(a), Tries(c))
                    \/ /\ c.rolling
                       /\ \E i \in 2..(Len(c.todo) + 1) :
                            Left(c, d, SubSeq(c.todo, i, Len(c.todo)), Tries(c))
    BY <1>1, FailedIs DEF CmdOK
  <1> HIDE DEF c
  <1>3. CASE ~c.rolling
    <2> PICK a : Left(c, a, c.todo, Tries(c)) /\ Left(c, d, Rollback(a), Tries(c))
      BY <1>2, <1>3
    <2>1. d.todo \in Seq(Stages(d))
      BY <1>1, <1>2, <1>3, RollbackIs DEF Left, c
    <2>2. IsCommand(d) /\ DOMAIN d = Fields /\ d.local = c.local
      BY <1>1 DEF CmdOK, IsCommand, Left, Same
    <2> QED
      BY <1>1, <1>2, <2>1, <2>2, GoesOK DEF CmdOK
  <1>4. CASE c.rolling
    <2> PICK i \in 2..(Len(c.todo) + 1) :
               Left(c, d, SubSeq(c.todo, i, Len(c.todo)), Tries(c))
      BY <1>2, <1>4
    <2> DEFINE S == Stages(c)
    <2>1. c.todo \in Seq(S) /\ c.rolling = TRUE
      BY <1>1, <1>4 DEF CmdOK
    <2>2. Stages(d) = S /\ IsCommand(d)
      BY <1>1, <1>2, <2>1, StagesSame DEF CmdOK, Left
    <2> HIDE DEF S
    <2>3. SubSeq(c.todo, i, Len(c.todo)) \in Seq(S)
      BY <2>1
    <2>4. CmdOK(d)
      BY <1>1, <1>2, <2>2, <2>3 DEF CmdOK, Left, Same
    <2> QED
      BY <1>2, <2>4, GoesOK
  <1> QED
    BY <1>3, <1>4

\* The plans of the commands.
LEMMA PlanIs ==
  ASSUME NEW c, IsCommand(c), ~c.rolling, c.todo = Plan(c.kind, c.arg), DOMAIN c = Fields,
         c.tried = {}, c.local = None, c.rolling = FALSE
  PROVE  CmdOK(c)
  <1> DEFINE T == Stages(c)
             a == c.arg
  <1>1. CoreStages \cup {"validate", "commit", "launch", "proxy", "tray", "port", "fetch"}
          \subseteq T
    BY DEF Stages, Fits, AllStages, CoreStages
  <1>2. c.kind \in Documented => {"draft", "save"} \subseteq T
    BY DEF Stages, Fits, AllStages
  <1>3. c.kind = "verge" /\ "hotkeys" \in DOMAIN a => "hotkeys" \in T
    BY DEF Stages, Fits, AllStages
  <1>4. /\ c.kind = "clash" => "runtime" \in T /\ ("lan" \in DOMAIN a => "firewall" \in T)
        /\ c.kind = "script" => "script" \in T
        /\ c.kind = "edit" => "edit" \in T
    BY DEF Stages, Fits, AllStages
  <1>5. c.kind \in Kinds
    BY DEF IsCommand
  <1> SUFFICES Plan(c.kind, a) \in Seq(T) /\ (c.kind = "script" => Head(Plan(c.kind, a)) = "script" /\ Plan(c.kind, a) # <<>>)
    BY DEF CmdOK, Remembered
  <1> HIDE DEF T, a
  <1>6. Updating \in Seq(T) /\ Restarting \in Seq(T) /\ <<>> \in Seq(T)
    BY <1>1 DEF Updating, Restarting, CoreStages
  <1>7. \A s \in T, b \in BOOLEAN : If(b, <<s>>) \in Seq(T)
    BY DEF If
  <1>8. CASE c.kind = "verge"
    <2> DEFINE has(k) == k \in DOMAIN a
               r1 == <<"validate", "draft">>
               x == IF has("service") THEN Restarting ELSE If(has("tun"), Updating)
               r2 == r1 \o x
               r3 == r2 \o If(has("launch"), <<"launch">>)
               r4 == r3 \o If(has("proxy") \/ has("port"), <<"proxy">>)
               r5 == r4 \o If(has("hotkeys"), <<"hotkeys">>)
               r6 == r5 \o If(has("proxy") \/ has("tun"), <<"tray">>)
               r7 == r6 \o <<"save", "commit">>
    <2>0. Plan(c.kind, a) = r7
      BY <1>8 DEF Plan, VergePlan
    <2>1. r1 \in Seq(T) /\ x \in Seq(T) /\ <<"save", "commit">> \in Seq(T)
      BY <1>1, <1>2, <1>6, <1>8 DEF If, Documented
    <2> HIDE DEF x
    <2>2. r2 \in Seq(T)
      BY <2>1
    <2> HIDE DEF r1, r2
    <2>3. r3 \in Seq(T)
      BY <1>1, <2>2 DEF If
    <2> HIDE DEF r3
    <2>4. r4 \in Seq(T)
      BY <1>1, <2>3 DEF If
    <2> HIDE DEF r4
    <2>5. r5 \in Seq(T)
      BY <1>3, <1>8, <2>4 DEF If
    <2> HIDE DEF r5
    <2>6. r6 \in Seq(T)
      BY <1>1, <2>5 DEF If
    <2> HIDE DEF r6
    <2>7. r7 \in Seq(T)
      BY <2>1, <2>6
    <2> HIDE DEF r7
    <2> QED
      BY <1>8, <2>0, <2>7
  <1>9. CASE c.kind = "clash"
    <2> DEFINE has(k) == k \in DOMAIN a
               r1 == If(has("lan"), <<"firewall">>)
               r2 == r1 \o <<"draft">>
               r3 == r2 \o If(has("port"), <<"port">>)
               r4 == r3 \o If(has("port") \/ has("lan"), Restarting)
               r5 == r4 \o If(has("port"), <<"proxy">>)
               r6 == r5 \o If(has("stack"), Updating)
               r7 == r6 \o <<"runtime">>
               r8 == r7 \o If(has("lan") \/ has("log"), <<"write">>)
               r9 == r8 \o <<"save", "commit">>
    <2>0. Plan(c.kind, a) = r9
      BY <1>9 DEF Plan, ClashPlan
    <2>1. r1 \in Seq(T) /\ <<"draft">> \in Seq(T) /\ <<"runtime">> \in Seq(T)
          /\ <<"save", "commit">> \in Seq(T)
      BY <1>1, <1>2, <1>4, <1>9 DEF If, Documented
    <2> HIDE DEF r1
    <2>2. r2 \in Seq(T)
      BY <2>1
    <2> HIDE DEF r2
    <2>3. r3 \in Seq(T)
      BY <1>1, <2>2 DEF If
    <2> HIDE DEF r3
    <2>4. r4 \in Seq(T)
      BY <1>6, <2>3 DEF If
    <2> HIDE DEF r4
    <2>5. r5 \in Seq(T)
      BY <1>1, <2>4 DEF If
    <2> HIDE DEF r5
    <2>6. r6 \in Seq(T)
      BY <1>6, <2>5 DEF If
    <2> HIDE DEF r6
    <2>7. r7 \in Seq(T)
      BY <2>1, <2>6
    <2> HIDE DEF r7
    <2>8. r8 \in Seq(T)
      BY <1>1, <2>7 DEF If, CoreStages
    <2> HIDE DEF r8
    <2>9. r9 \in Seq(T)
      BY <2>1, <2>8
    <2> HIDE DEF r9
    <2> QED
      BY <1>9, <2>0, <2>9
  <1>10. CASE c.kind = "core"
    <2>1. CorePlan \in Seq(T)
      BY <1>1, <1>2, <1>10 DEF CorePlan, CoreStages, Documented
    <2> QED
      BY <1>10, <2>1 DEF Plan
  <1>11. CASE c.kind = "switch"
    <2>1. <<"draft">> \in Seq(T) /\ <<"save", "commit">> \in Seq(T)
      BY <1>1, <1>2, <1>11 DEF Documented
    <2>2. SwitchPlan \in Seq(T)
      BY <1>6, <2>1 DEF SwitchPlan
    <2> QED
      BY <1>11, <2>2 DEF Plan
  <1>12. CASE c.kind = "script"
    <2>1. <<"script">> \in Seq(T)
      BY <1>4, <1>12
    <2>2. <<"script">> \o Updating \in Seq(T)
      BY <1>6, <2>1
    <2>3. Head(<<"script">> \o Updating) = "script" /\ <<"script">> \o Updating # <<>>
      BY DEF Updating
    <2> QED
      BY <1>12, <2>2, <2>3 DEF Plan
  <1>13. CASE c.kind = "enhance"
    BY <1>6, <1>13 DEF Plan
  <1>14. CASE c.kind = "edit"
    <2>1. <<"edit">> \in Seq(T) /\ If(a.op \in Downloads, <<"fetch">>) \in Seq(T)
      BY <1>1, <1>4, <1>14 DEF If
    <2>2. EditPlan(a) \in Seq(T)
      BY <2>1 DEF EditPlan
    <2>3. Plan(c.kind, a) = EditPlan(a)
      BY <1>14 DEF Plan
    <2> QED
      BY <1>14, <2>2, <2>3
  <1> QED
    BY <1>5, <1>8, <1>9, <1>10, <1>11, <1>12, <1>13, <1>14 DEF Kinds

-----------------------------------------------------------------------------
(* Documents and effects.                                                  *)

LEMMA DocumentsAre ==
  ASSUME ConfigOK
  PROVE  /\ Data("verge") \in Verges /\ Latest("verge") \in Verges
         /\ Data("clash") \in Clashes /\ Latest("clash") \in Clashes
         /\ Data("profiles") \in Profiles /\ Latest("profiles") \in Profiles
         /\ Data("runtime") \in Runs \cup {None} /\ Latest("runtime") \in Runs \cup {None}
  BY DEF ConfigOK, Data, Latest, Settled

LEMMA GeneratedIs ==
  ASSUME NEW v \in Verges, NEW c \in Clashes, NEW p \in Profiles, NEW script \in Scripts
  PROVE  Generated(v, c, p, script) \in Runs
  BY DEF Generated, Stack, Verges, Clashes, Profiles, Runs

LEMMA StartedIs ==
  ASSUME ConfigOK, Latest("runtime") # None
  PROVE  Started \in [config : Runs, service : BOOLEAN]
  BY DocumentsAre DEF Started, Verges

\* A patched document is one.
LEMMA PatchedIs ==
  ASSUME ConfigOK, NEW c, IsCommand(c), c.kind \in Documented
  PROVE  /\ c.kind \in {"verge", "core"} => Patched("verge", c.arg) \in Verges
         /\ c.kind = "clash" => Patched("clash", c.arg) \in Clashes
         /\ c.kind = "switch" => Patched("profiles", c.arg) \in Profiles
  <1>1. ASSUME NEW a, IsPatch(a, Verges), NEW d \in Verges PROVE Merged(a, d) \in Verges
    BY <1>1 DEF Merged, Verges, IsPatch
  <1>2. ASSUME NEW a, IsPatch(a, Clashes), NEW d \in Clashes PROVE Merged(a, d) \in Clashes
    BY <1>2 DEF Merged, Clashes, IsPatch
  <1>3. CASE c.kind \in {"verge", "core"}
    BY <1>1, <1>3, DocumentsAre DEF Patched, IsCommand
  <1>4. CASE c.kind = "clash"
    BY <1>2, <1>4, DocumentsAre DEF Patched, IsCommand
  <1>5. CASE c.kind = "switch"
    BY <1>5, DocumentsAre, SelectedIs DEF Patched, IsCommand, Kept
  <1> QED
    BY <1>3, <1>4, <1>5 DEF Documented

\* The stored configuration with a part of a patch is one.
LEMMA PatchedRunIs ==
  ASSUME NEW a, IsPatch(a, Clashes), NEW r \in Runs
  PROVE  PatchedRun(a, r) \in Runs
  BY DEF PatchedRun, IsPatch, Clashes, Runs

LEMMA LaunchResults ==
  ASSUME NEW l \in LaunchStates, NEW r \in EnableResults(l) \cup DisableResults(l)
  PROVE  r[1] \in LaunchStates
  <1>1. ASSUME NEW t \in {"none", "ours", "stale", "foreign"} PROVE [l EXCEPT !.task = t] \in LaunchStates
    BY DEF LaunchStates
  <1>2. ASSUME NEW k \in LaunchStates PROVE WithoutLegacy(k) \in LaunchStates
    BY DEF LaunchStates, WithoutLegacy
  <1>3. CASE r \in EnableResults(l)
    <2> DEFINE made == [l EXCEPT !.task = "ours"]
    <2>1. made \in LaunchStates
      BY <1>1
    <2>2. r \in {<<l, FALSE>>, <<WithoutLegacy(made), TRUE>>, <<made, FALSE>>}
      BY <1>3 DEF EnableResults
    <2> HIDE DEF made
    <2>3. WithoutLegacy(made) \in LaunchStates
      BY <1>2, <2>1
    <2>4. CASE r = <<l, FALSE>>
      BY <2>4
    <2>5. CASE r = <<WithoutLegacy(made), TRUE>>
      BY <2>3, <2>5
    <2>6. CASE r = <<made, FALSE>>
      BY <2>1, <2>6
    <2> QED
      BY <2>2, <2>4, <2>5, <2>6
  <1>4. CASE r \in DisableResults(l)
    <2> DEFINE gone == IF Owned(l) THEN [l EXCEPT !.task = "none"] ELSE l
    <2>1. gone \in LaunchStates
      BY <1>1
    <2>2. r \in {<<l, FALSE>>, <<WithoutLegacy(gone), TRUE>>, <<gone, FALSE>>}
      BY <1>4 DEF DisableResults
    <2> HIDE DEF gone
    <2>3. WithoutLegacy(gone) \in LaunchStates
      BY <1>2, <2>1
    <2>4. CASE r = <<l, FALSE>>
      BY <2>4
    <2>5. CASE r = <<WithoutLegacy(gone), TRUE>>
      BY <2>3, <2>5
    <2>6. CASE r = <<gone, FALSE>>
      BY <2>1, <2>6
    <2> QED
      BY <2>2, <2>4, <2>5, <2>6
  <1> QED
    BY <1>3, <1>4

LEMMA FirewallResults ==
  ASSUME NEW lan, NEW rules \in SUBSET Cores, NEW r \in RuleResults(lan, rules)
  PROVE  r[1] \subseteq Cores
  <1>1. RulesFor(lan) \subseteq Cores
    BY DEF RulesFor
  <1>2. CASE r = <<RulesFor(lan), TRUE>>
    BY <1>1, <1>2
  <1>3. CASE \E x \in IF lan THEN SUBSET Cores ELSE {rules, rules \ {"mihomo"}} : r = <<x, FALSE>>
    <2> PICK x \in IF lan THEN SUBSET Cores ELSE {rules, rules \ {"mihomo"}} : r = <<x, FALSE>>
      BY <1>3
    <2>1. x \subseteq Cores
      OBVIOUS
    <2> QED
      BY <2>1
  <1> QED
    BY <1>2, <1>3 DEF RuleResults

-----------------------------------------------------------------------------
(* The steps.                                                              *)

\* What a stage finds.
LEMMA AtStage ==
  ASSUME CmdsOK, NEW p \in Procs, NEW s, At(p, s)
  PROVE  /\ cmd[p] # None /\ cmd[p].todo # <<>> /\ Head(cmd[p].todo) = s
         /\ CmdOK(cmd[p]) /\ Fits(cmd[p], s)
  <1>1. CmdOK(cmd[p]) /\ cmd[p].todo # <<>> /\ Head(cmd[p].todo) = s
    BY DEF At, CmdsOK
  <1>2. Head(cmd[p].todo) \in Stages(cmd[p])
    BY <1>1, TailIs DEF CmdOK
  <1> QED
    BY <1>1, <1>2 DEF At, Stages

LEMMA CommandsInit ==
  ASSUME Init
  PROVE  CmdsOK
  BY DEF Init, CmdsOK

\* The command's part of a stage.
LEMMA StageOK ==
  ASSUME CmdsOK, NEW p \in Procs, NEW s, At(p, s),
         (Passes(p) /\ s # "script") \/ Breaks(p) \/ Refuses(p)
  PROVE  CmdsOK'
  BY AtStage, PassesOK, FailsOK DEF Breaks, Refuses

LEMMA RemembersOK ==
  ASSUME CmdsOK, NEW p \in Procs, NEW s, At(p, s), NEW old,
         cmd[p].kind = "script" => cmd[p].rolling \/ old \in Scripts, Remembers(p, old)
  PROVE  CmdsOK'
  <1> DEFINE c == cmd[p]
             b == Passed(p)
             d == [b EXCEPT !.previous = old]
             S == Stages(c)
  <1>1. CmdOK(c) /\ c.todo # <<>> /\ Head(c.todo) = s /\ Fits(c, s)
    BY AtStage
  <1>2. Left(c, b, Tail(c.todo), Tries(c)) /\ b.rolling = c.rolling
    BY <1>1, PassedIs DEF CmdOK
  <1>3. Tail(c.todo) \in Seq(Stages(c))
    BY <1>1, TailIs DEF CmdOK
  <1>4. CASE c.rolling
    <2> HIDE DEF c, b
    <2>1. CmdOK(b)
      BY <1>1, <1>2, <1>3, <1>4, StagesSame DEF CmdOK, Left, Same
    <2> QED
      BY <1>4, <2>1, GoesOK DEF Remembers, c, b
  <1>5. CASE ~c.rolling
    <2>1. Goes(p, d)
      BY <1>5 DEF Remembers
    <2> HIDE DEF c, b
    <2>2. DOMAIN b = Fields
      BY <1>2 DEF Left, Same
    <2>3. /\ DOMAIN d = Fields /\ d.kind = b.kind /\ d.arg = b.arg /\ d.local = b.local
          /\ d.todo = b.todo /\ d.tried = b.tried /\ d.rolling = b.rolling /\ d.previous = old
      BY <2>2, NotesChange
    <2> HIDE DEF d
    <2>4. d.kind = c.kind /\ d.arg = c.arg /\ d.local = c.local /\ d.rolling = c.rolling
          /\ d.todo = Tail(c.todo)
      BY <1>2, <2>3 DEF Left, Same
    <2>5. Stages(d) = Stages(c) /\ IsCommand(d)
      BY <1>1, <1>5, <2>4 DEF Stages, Fits, IsCommand, CmdOK
    <2>6. d.kind = "script" => d.previous \in Scripts
      BY <1>5, <2>3, <2>4 DEF c
    <2>7. CmdOK(d)
      BY <1>1, <1>3, <2>3, <2>4, <2>5, <2>6 DEF CmdOK, Remembered
    <2> QED
      BY <2>1, <2>7, GoesOK
  <1> QED
    BY <1>4, <1>5

LEMMA TInit ==
  ASSUME Init
  PROVE  TInv
  <1> PICK b \in Boots, backedUp \in BOOLEAN :
        LET list == Loaded(b.profiles, backedUp)
            run == Generated(b.verge, b.clash, list, "s0") IN
        /\ blocked = (b.profiles = None /\ ~backedUp)
        /\ config = [f \in Documents |->
                       IF f = "runtime" THEN [data |-> None, draft |-> run]
                       ELSE [data |-> IF f = "profiles" THEN list ELSE b[f], draft |-> None]]
        /\ disk = [verge |-> b.verge, clash |-> b.clash,
                   profiles |-> IF blocked THEN None ELSE list, script |-> "s0", run |-> run]
        /\ core = [config |-> run, service |-> b.verge.service]
        /\ launch = b.launch
        /\ proxy = WantedProxy(b.verge) /\ hotkeys = b.verge.hotkeys
        /\ firewall = b.firewall
        /\ timers = Listed(list) \cap Remote
    BY DEF Init
  <1> DEFINE list == Loaded(b.profiles, backedUp)
             run == Generated(b.verge, b.clash, list, "s0")
  <1>1. IsBoot(b)
    BY SettingsAssumption
  <1>2. list \in Profiles
    BY <1>1, LoadedIs DEF IsBoot
  <1> HIDE DEF list
  <1>3. run \in Runs
    BY <1>1, <1>2, GeneratedIs DEF IsBoot, Scripts
  <1>4. ConfigOK
    <2> HIDE DEF run
    <2>1. config["verge"] = [data |-> b.verge, draft |-> None]
          /\ config["clash"] = [data |-> b.clash, draft |-> None]
          /\ config["profiles"] = [data |-> list, draft |-> None]
          /\ config["runtime"] = [data |-> None, draft |-> run] /\ DOMAIN config = Documents
      BY DEF Documents, list, run
    <2> QED
      BY <1>1, <1>2, <1>3, <2>1 DEF ConfigOK, Settled, IsBoot
  <1>5. DiskOK
    <2>1. disk = [verge |-> b.verge, clash |-> b.clash,
                  profiles |-> IF blocked THEN None ELSE list, script |-> "s0", run |-> run]
      BY DEF list
    <2> HIDE DEF run
    <2> QED
      BY <1>1, <1>2, <1>3, <2>1 DEF DiskOK, IsBoot, Scripts
  <1>6. CoreOK
    <2>1. core = [config |-> run, service |-> b.verge.service]
      BY DEF list
    <2> HIDE DEF run
    <2> QED
      BY <1>1, <1>3, <2>1 DEF CoreOK, IsBoot, Verges
  <1>7. EffectsOK
    BY <1>1 DEF EffectsOK, IsBoot, WantedProxy, Verges
  <1> QED
    BY <1>4, <1>5, <1>6, <1>7, CommandsInit DEF TInv

LEMMA TBegin ==
  ASSUME TInv, NEW p \in Procs, Begin(p)
  PROVE  TInv'
  <1> PICK c \in Commands[p] :
        cmd' = [cmd EXCEPT ![p] =
              [kind |-> c.kind, arg |-> c.arg, todo |-> Plan(c.kind, c.arg), tried |-> {},
               local |-> None, previous |-> None, rolling |-> FALSE, whole |-> TRUE,
               swallowed |-> FALSE, alone |-> \A q \in Procs \ {p} : cmd[q] = None,
               before |-> [config |-> config, disk |-> disk, core |-> core, proxy |-> proxy,
                           launch |-> launch, hotkeys |-> hotkeys, firewall |-> firewall]]]
    BY DEF Begin
  <1>1. IsCommand(c)
    BY SettingsAssumption
  <1>2. DOMAIN cmd = Procs
    BY DEF TInv, CmdsOK
  <1>3. CmdOK(cmd'[p])
    <2> DEFINE d == cmd'[p]
               was == [config |-> config, disk |-> disk, core |-> core, proxy |-> proxy,
                       launch |-> launch, hotkeys |-> hotkeys, firewall |-> firewall]
               plan == Plan(c.kind, c.arg)
               only == \A q \in Procs \ {p} : cmd[q] = None
    <2>1. d = [kind |-> c.kind, arg |-> c.arg, todo |-> plan, tried |-> {},
               local |-> None, previous |-> None, rolling |-> FALSE, whole |-> TRUE,
               swallowed |-> FALSE, alone |-> only, before |-> was]
      BY <1>2
    <2> HIDE DEF d, was, plan, only
    <2>2. DOMAIN d = Fields /\ d.kind = c.kind /\ d.arg = c.arg /\ d.todo = plan /\ d.tried = {}
          /\ d.local = None /\ d.rolling = FALSE
      BY <2>1 DEF Fields
    <2>3. IsCommand(d) /\ d.todo = Plan(d.kind, d.arg)
      BY <1>1, <2>2 DEF IsCommand, plan
    <2> QED
      BY <2>2, <2>3, PlanIs DEF d
  <1>4. CmdsOK'
    BY <1>2, <1>3 DEF TInv, CmdsOK
  <1> QED
    BY <1>4 DEF TInv, Begin, ConfigOK, DiskOK, CoreOK, EffectsOK, effects

LEMMA TFinish ==
  ASSUME TInv, NEW p \in Procs, Finish(p)
  PROVE  TInv'
  <1>1. CmdsOK'
    BY DEF TInv, CmdsOK, Finish
  <1> QED
    BY <1>1 DEF TInv, Finish, ConfigOK, DiskOK, CoreOK, EffectsOK, effects

LEMMA ConfigStep ==
  ASSUME TInv, CmdsOK', ConfigOK', UNCHANGED <<disk, effects, timers>>
  PROVE  TInv'
  BY DEF TInv, DiskOK, CoreOK, EffectsOK, effects

LEMMA QuietStep ==
  ASSUME TInv, CmdsOK', UNCHANGED <<config, disk, effects, timers>>
  PROVE  TInv'
  BY ConfigStep DEF TInv, ConfigOK

\* A draft or a value of the right kind keeps the documents typed.
LEMMA DraftedIs ==
  ASSUME ConfigOK, NEW f \in Documents, NEW x,
         f = "verge" => x \in Verges, f = "clash" => x \in Clashes,
         f = "profiles" => x \in Profiles, f = "runtime" => x \in Runs \cup {None},
         config' = Drafted(f, x) \/ config' = WithData(f, x)
  PROVE  ConfigOK'
  <1>1. DOMAIN config' = Documents
    BY DEF ConfigOK, Drafted, WithData
  <1>2. ASSUME NEW g \in Documents, NEW T, config[g] \in Settled(T), g = f => x \in T
        PROVE  config'[g] \in Settled(T)
    <2>1. CASE g # f
      BY <1>2, <2>1 DEF ConfigOK, Drafted, WithData
    <2>2. CASE g = f
      <3>1. config'[g] \in {[data |-> config[g].data, draft |-> x], [data |-> x, draft |-> config[g].draft]}
        BY <1>2, <2>2 DEF ConfigOK, Drafted, WithData
      <3> QED
        BY <1>2, <2>2, <3>1 DEF Settled
    <2> QED
      BY <2>1, <2>2
  <1> QED
    BY <1>1, <1>2 DEF ConfigOK, Documents

LEMMA EndedIs ==
  ASSUME ConfigOK, NEW f \in Documents, NEW T, config[f] \in Settled(T)
  PROVE  Applied(f) \in Settled(T) /\ Discarded(f) \in Settled(T)
  BY DEF Applied, Discarded, Settled, Latest

LEMMA TValidate ==
  ASSUME TInv, NEW p \in Procs, Validate(p)
  PROVE  TInv'
  <1>1. CmdsOK'
    BY StageOK DEF TInv, Validate
  <1> QED
    BY <1>1, QuietStep DEF Validate

LEMMA TDraft ==
  ASSUME TInv, NEW p \in Procs, Draft(p)
  PROVE  TInv'
  <1> DEFINE c == cmd[p]
             f == Document(c.kind)
             x == Patched(f, c.arg)
  <1>1. CmdsOK'
    BY StageOK DEF TInv, Draft
  <1>2. c.kind \in Documented /\ IsCommand(c)
    BY AtStage DEF TInv, Draft, Fits, CmdOK
  <1>3. config' = Drafted(f, x)
    BY DEF Draft
  <1>4. /\ f = "verge" => x \in Verges
        /\ f = "clash" => x \in Clashes
        /\ f = "profiles" => x \in Profiles
        /\ f \in {"verge", "clash", "profiles"}
    <2>1. ConfigOK
      BY DEF TInv
    <2> HIDE DEF c
    <2>2. CASE c.kind \in {"verge", "core"}
      BY <1>2, <2>1, <2>2, PatchedIs DEF Document
    <2>3. CASE c.kind = "clash"
      BY <1>2, <2>1, <2>3, PatchedIs DEF Document
    <2>4. CASE c.kind = "switch"
      BY <1>2, <2>1, <2>4, PatchedIs DEF Document
    <2> QED
      BY <1>2, <2>2, <2>3, <2>4 DEF Documented
  <1> HIDE DEF f, x, c
  <1>5. ConfigOK'
    BY <1>3, <1>4, DraftedIs DEF TInv, Documents
  <1> QED
    BY <1>1, <1>5, ConfigStep DEF Draft

LEMMA TPort ==
  ASSUME TInv, NEW p \in Procs, Port(p)
  PROVE  TInv'
  <1>1. CmdsOK'
    BY StageOK DEF TInv, Port
  <1> QED
    BY <1>1, QuietStep DEF Port

LEMMA TEnhance ==
  ASSUME TInv, NEW p \in Procs, Enhance(p)
  PROVE  TInv'
  <1> DEFINE c == cmd[p]
             b == Passed(p)
             d == [b EXCEPT !.local = Enhanced]
  <1>1. CmdOK(c) /\ c.todo # <<>> /\ Head(c.todo) = "enhance"
    BY AtStage DEF TInv, Enhance
  <1>2. Left(c, b, Tail(c.todo), Tries(c)) /\ b.rolling = c.rolling
    BY <1>1, PassedIs DEF CmdOK
  <1>3. Tail(c.todo) \in Seq(Stages(c))
    BY <1>1, TailIs DEF CmdOK
  <1>4. Enhanced \in Runs
    BY DocumentsAre, GeneratedIs DEF Enhanced, TInv, DiskOK
  <1>5. Goes(p, d)
    BY DEF Enhance
  <1> HIDE DEF c, b
  <1>6. Same(b, d) /\ d.todo = b.todo /\ d.tried = b.tried /\ d.rolling = b.rolling /\ d.local = Enhanced
    BY <1>2, NotesChange DEF Left, Same
  <1> HIDE DEF d
  <1>7. Same(c, d) /\ d.rolling = c.rolling /\ d.todo = Tail(c.todo)
    BY <1>2, <1>6 DEF Left, Same
  <1>8. CmdOK(d)
    BY <1>1, <1>3, <1>4, <1>6, <1>7, StagesSame DEF CmdOK, Same, Remembered
  <1>9. CmdsOK'
    BY <1>5, <1>8, GoesOK DEF TInv
  <1> QED
    BY <1>9, QuietStep DEF Enhance

LEMMA TGenerate ==
  ASSUME TInv, NEW p \in Procs, Generate(p)
  PROVE  TInv'
  <1>1. CmdsOK'
    BY StageOK DEF TInv, Generate
  <1>2. cmd[p].local \in Runs \cup {None}
    BY AtStage DEF TInv, Generate, CmdOK
  <1>3. ConfigOK'
    BY <1>2, DraftedIs DEF TInv, Generate, Documents
  <1> QED
    BY <1>1, <1>3, ConfigStep DEF Generate

LEMMA TCheck ==
  ASSUME TInv, NEW p \in Procs, Check(p)
  PROVE  TInv'
  <1>1. CmdsOK'
    BY StageOK DEF TInv, Check
  <1> QED
    BY <1>1, QuietStep DEF Check

LEMMA TWrite ==
  ASSUME TInv, NEW p \in Procs, Write(p)
  PROVE  TInv'
  <1>1. CmdsOK'
    BY StageOK DEF TInv, Write
  <1>2. DiskOK'
    BY DocumentsAre DEF TInv, Write, DiskOK
  <1> QED
    BY <1>1, <1>2 DEF TInv, Write, ConfigOK, CoreOK, EffectsOK, effects

LEMMA TPut ==
  ASSUME TInv, NEW p \in Procs, Put(p)
  PROVE  TInv'
  <1>1. CmdsOK'
    BY StageOK DEF TInv, Put
  <1>2. CoreOK'
    BY DEF TInv, Put, CoreOK, DiskOK
  <1> QED
    BY <1>1, <1>2 DEF TInv, Put, ConfigOK, DiskOK, EffectsOK

LEMMA TRestart ==
  ASSUME TInv, NEW p \in Procs, Restart(p)
  PROVE  TInv'
  <1>1. CmdsOK'
    BY StageOK DEF TInv, Restart
  <1>2. DiskOK'
    BY DocumentsAre DEF TInv, Restart, DiskOK
  <1>3. CoreOK'
    BY StartedIs DEF TInv, Restart, CoreOK
  <1> QED
    BY <1>1, <1>2, <1>3 DEF TInv, Restart, ConfigOK, EffectsOK

LEMMA TRecover ==
  ASSUME TInv, Recover
  PROVE  TInv'
  <1>1. DiskOK'
    BY DocumentsAre DEF TInv, Recover, DiskOK
  <1>2. CoreOK'
    BY StartedIs DEF TInv, Recover, CoreOK
  <1>3. CmdsOK'
    BY DEF TInv, Recover, CmdsOK
  <1> QED
    BY <1>1, <1>2, <1>3 DEF TInv, Recover, ConfigOK, EffectsOK

LEMMA TLaunch ==
  ASSUME TInv, NEW p \in Procs, Launch(p)
  PROVE  TInv'
  <1> DEFINE c == cmd[p]
             b == Passed(p)
             d == [b EXCEPT !.swallowed = TRUE]
  <1> PICK r \in EnableResults(launch) \cup DisableResults(launch) :
         launch' = r[1] /\ (Passes(p) \/ Breaks(p) \/ Refuses(p) \/ Goes(p, d))
    BY DEF Launch
  <1>1. At(p, "launch")
    BY DEF Launch
  <1>2. launch' \in LaunchStates
    BY LaunchResults DEF TInv, EffectsOK
  <1>3. ASSUME Goes(p, d) PROVE CmdsOK'
    <2>1. CmdOK(c) /\ c.todo # <<>> /\ Head(c.todo) = "launch"
      BY <1>1, AtStage DEF TInv
    <2>2. Left(c, b, Tail(c.todo), Tries(c)) /\ b.rolling = c.rolling
      BY <2>1, PassedIs DEF CmdOK
    <2>3. Tail(c.todo) \in Seq(Stages(c))
      BY <2>1, TailIs DEF CmdOK
    <2>0. Goes(p, d)
      BY <1>3
    <2> HIDE DEF c, b
    <2>4. Left(b, d, b.todo, b.tried) /\ d.rolling = b.rolling
      BY <2>2, NotesChange DEF Left, Same
    <2> HIDE DEF d
    <2>5. Left(c, d, Tail(c.todo), Tries(c)) /\ d.rolling = c.rolling
      BY <2>2, <2>4 DEF Left, Same
    <2>6. CmdOK(d)
      BY <2>1, <2>3, <2>5, StagesSame DEF CmdOK, Left, Same, Remembered
    <2> QED
      BY <2>0, <2>6, GoesOK DEF TInv
  <1>4. CmdsOK'
    BY <1>1, <1>3, StageOK DEF TInv
  <1> QED
    BY <1>2, <1>4 DEF TInv, Launch, ConfigOK, DiskOK, CoreOK, EffectsOK

LEMMA TSetProxy ==
  ASSUME TInv, NEW p \in Procs, SetProxy(p)
  PROVE  TInv'
  <1>1. CmdsOK'
    BY StageOK DEF TInv, SetProxy
  <1>2. WantedProxy(Latest("verge")) \in {"p1", "p2", "off"}
    BY DocumentsAre DEF WantedProxy, Verges, TInv
  <1> QED
    BY <1>1, <1>2 DEF TInv, SetProxy, ConfigOK, DiskOK, CoreOK, EffectsOK

LEMMA TSetHotkeys ==
  ASSUME TInv, NEW p \in Procs, SetHotkeys(p)
  PROVE  TInv'
  <1>1. CmdsOK'
    BY StageOK DEF TInv, SetHotkeys
  <1>2. hotkeys' \in {"h1", "h2"}
    <2>1. CASE cmd[p].rolling
      BY <2>1, DocumentsAre DEF SetHotkeys, Verges, TInv
    <2>2. CASE ~cmd[p].rolling
      <3> DEFINE a == cmd[p].arg
      <3>1. "hotkeys" \in DOMAIN a /\ IsPatch(a, Verges)
        BY <2>2, AtStage DEF TInv, SetHotkeys, Fits, CmdOK, IsCommand
      <3> HIDE DEF a
      <3>2. a["hotkeys"] \in {"h1", "h2"}
        BY <3>1 DEF IsPatch, Verges
      <3> QED
        BY <2>2, <3>2 DEF SetHotkeys, a
    <2> QED
      BY <2>1, <2>2
  <1> QED
    BY <1>1, <1>2 DEF TInv, SetHotkeys, ConfigOK, DiskOK, CoreOK, EffectsOK

LEMMA TTray ==
  ASSUME TInv, NEW p \in Procs, Tray(p)
  PROVE  TInv'
  <1>1. CmdsOK'
    BY StageOK DEF TInv, Tray
  <1> QED
    BY <1>1, QuietStep DEF Tray

LEMMA TSetFirewall ==
  ASSUME TInv, NEW p \in Procs, SetFirewall(p)
  PROVE  TInv'
  <1> DEFINE lan == IF cmd[p].rolling THEN cmd[p].previous ELSE cmd[p].arg.lan
             old == Latest("clash").lan
  <1> PICK r \in RuleResults(lan, firewall) :
         firewall' = r[1] /\ (IF r[2] THEN Remembers(p, old) ELSE Breaks(p))
    BY DEF SetFirewall
  <1>0. At(p, "firewall")
    BY DEF SetFirewall
  <1> HIDE DEF lan, old
  <1>1. firewall' \subseteq Cores
    BY FirewallResults DEF TInv, EffectsOK
  <1>2. ASSUME Breaks(p) PROVE CmdsOK'
    BY <1>0, <1>2, StageOK DEF TInv
  <1>3. ASSUME Remembers(p, old) PROVE CmdsOK'
    <2>1. cmd[p].rolling \/ cmd[p].kind = "clash"
      BY <1>0, AtStage DEF TInv, Fits
    <2> QED
      BY <1>0, <1>3, <2>1, RemembersOK DEF TInv
  <1>4. CmdsOK'
    BY <1>2, <1>3
  <1> QED
    BY <1>1, <1>4 DEF TInv, SetFirewall, ConfigOK, DiskOK, CoreOK, EffectsOK

LEMMA TPatchRuntime ==
  ASSUME TInv, NEW p \in Procs, PatchRuntime(p)
  PROVE  TInv'
  <1> DEFINE a == cmd[p].arg
             r == Latest("runtime")
  <1>1. CmdsOK'
    BY StageOK DEF TInv, PatchRuntime
  <1>2. IsPatch(a, Clashes)
    BY AtStage DEF TInv, PatchRuntime, Fits, CmdOK, IsCommand
  <1>3. r \in Runs \cup {None}
    BY DocumentsAre DEF TInv
  <1>4. config' = IF r = None THEN config ELSE Drafted("runtime", PatchedRun(a, r))
    BY DEF PatchRuntime
  <1> HIDE DEF a, r
  <1>5. ConfigOK'
    <2>1. CASE r = None
      BY <1>4, <2>1 DEF TInv, ConfigOK
    <2>2. CASE r # None
      BY <1>2, <1>3, <1>4, <2>2, PatchedRunIs, DraftedIs DEF TInv, Documents
    <2> QED
      BY <2>1, <2>2
  <1> QED
    BY <1>1, <1>5, ConfigStep DEF PatchRuntime

LEMMA TSave ==
  ASSUME TInv, NEW p \in Procs, Save(p)
  PROVE  TInv'
  <1>1. CmdsOK'
    BY StageOK DEF TInv, Save
  <1>2. Document(cmd[p].kind) \in {"verge", "clash", "profiles"}
    BY AtStage DEF TInv, Save, Fits, Document, Documented
  <1>3. DiskOK'
    <2>1. CASE UNCHANGED disk
      BY <2>1 DEF TInv, DiskOK
    <2>2. CASE disk' = [disk EXCEPT ![Document(cmd[p].kind)] = Latest(Document(cmd[p].kind))]
      BY <1>2, <2>2, DocumentsAre DEF TInv, DiskOK
    <2> QED
      BY <2>1, <2>2 DEF Save
  <1> QED
    BY <1>1, <1>3 DEF TInv, Save, ConfigOK, CoreOK, EffectsOK, effects

LEMMA TEnds ==
  ASSUME TInv, NEW p \in Procs, Commit(p) \/ Discard(p)
  PROVE  TInv'
  <1>1. CmdsOK'
    BY StageOK DEF TInv, Commit, Discard, Ends
  <1> DEFINE own == {Document(cmd[p].kind)} \cup IF cmd[p].kind = "switch" THEN {} ELSE {"runtime"}
  <1>2. \/ config' = [f \in Documents |-> IF f \in own THEN [g \in Documents |-> Applied(g)][f] ELSE config[f]]
        \/ config' = [f \in Documents |-> IF f \in own THEN [g \in Documents |-> Discarded(g)][f] ELSE config[f]]
    BY DEF Commit, Discard, Ends
  <1> HIDE DEF own
  <1>3. DOMAIN config' = Documents
        /\ \A f \in Documents : config'[f] \in {config[f], Applied(f), Discarded(f)}
    BY <1>2
  <1>4. ConfigOK'
    BY <1>3, EndedIs DEF TInv, ConfigOK, Documents
  <1> QED
    BY <1>1, <1>4, ConfigStep DEF Commit, Discard, Ends

LEMMA TKeep ==
  ASSUME TInv, NEW p \in Procs, Keep(p)
  PROVE  TInv'
  <1>1. CmdsOK'
    BY StageOK DEF TInv, Keep
  <1>2. ConfigOK'
    BY EndedIs DEF TInv, Keep, ConfigOK, Documents
  <1> QED
    BY <1>1, <1>2, ConfigStep DEF Keep

LEMMA TSaveScript ==
  ASSUME TInv, NEW p \in Procs, SaveScript(p)
  PROVE  TInv'
  <1> DEFINE c == cmd[p]
             new == IF c.rolling THEN c.previous ELSE c.arg.script
  <1>1. PICK s \in {"script", "restore"} : At(p, s)
    BY DEF SaveScript
  <1>2. CmdOK(c) /\ Fits(c, s)
    BY <1>1, AtStage DEF TInv
  <1>3. new \in Scripts
    BY <1>2 DEF Fits, CmdOK, IsCommand
  <1>4. disk.script \in Scripts
    BY DEF TInv, DiskOK
  <1>5. (disk' = [disk EXCEPT !.script = new] /\ Remembers(p, disk.script)) \/ (UNCHANGED disk /\ Breaks(p))
    BY DEF SaveScript
  <1> HIDE DEF c, new
  <1>6. DiskOK'
    BY <1>3, <1>5 DEF TInv, DiskOK
  <1>7. CmdsOK'
    BY <1>1, <1>4, <1>5, RemembersOK, StageOK DEF TInv
  <1> QED
    BY <1>6, <1>7 DEF TInv, SaveScript, ConfigOK, CoreOK, EffectsOK, effects

LEMMA TFetch ==
  ASSUME TInv, NEW p \in Procs, Fetch(p)
  PROVE  TInv'
  <1>1. CmdsOK'
    BY StageOK DEF TInv, Fetch
  <1> QED
    BY <1>1, QuietStep DEF Fetch

\* Saving the list keeps what is saved and the command typed.
LEMMA SavesOK ==
  ASSUME TInv, NEW p \in Procs, At(p, "edit"), NEW list \in Profiles, NEW reload \in BOOLEAN,
         Saves(p, list, reload)
  PROVE  CmdsOK' /\ DiskOK'
  <1> DEFINE c == cmd[p]
             a == Attempt(p)
             x == If(reload, Updating)
             d == [a EXCEPT !.todo = x]
  <1>1. CmdOK(c) /\ c.todo # <<>> /\ Head(c.todo) = "edit" /\ Fits(c, "edit")
    BY AtStage DEF TInv
  <1>2. Left(c, a, c.todo, Tries(c)) /\ a.rolling = c.rolling
    BY <1>1, AttemptIs DEF CmdOK
  <1>3. CASE disk' = [disk EXCEPT !.profiles = list] /\ Goes(p, d)
    <2>0. Goes(p, d)
      BY <1>3
    <2>1. x \in Seq(Stages(c))
      <3>1. CoreStages \subseteq Stages(c)
        BY DEF Stages, Fits, AllStages, CoreStages
      <3> DEFINE S == Stages(c)
      <3> HIDE DEF S
      <3>2. Updating \in Seq(S) /\ <<>> \in Seq(S)
        BY <3>1 DEF Updating, CoreStages, S
      <3> QED
        BY <3>2 DEF If, S
    <2> HIDE DEF c, a, x
    <2>2. Left(a, d, x, a.tried) /\ d.rolling = a.rolling
      BY <1>2, FieldsChange DEF Left, Same
    <2> HIDE DEF d
    <2>3. Left(c, d, x, Tries(c)) /\ d.rolling = c.rolling
      BY <1>2, <2>2 DEF Left, Same
    <2>4. CmdOK(d)
      BY <1>1, <2>1, <2>3, StagesSame DEF CmdOK, Left, Same, Fits
    <2>5. CmdsOK'
      BY <2>0, <2>4, GoesOK DEF TInv
    <2>6. DiskOK'
      BY <1>3 DEF TInv, DiskOK
    <2> QED
      BY <2>5, <2>6
  <1>4. CASE UNCHANGED disk /\ (Breaks(p) \/ Refuses(p))
    BY <1>4, StageOK DEF TInv, DiskOK
  <1> QED
    BY <1>3, <1>4 DEF Saves

LEMMA EditedIs ==
  ASSUME NEW p \in Procs, ConfigOK, CmdOK(cmd[p]), Fits(cmd[p], "edit"),
         cmd[p].arg.op \notin {"update", "timed"}, NEW q \in Edited(cmd[p].arg)
  PROVE  /\ q \in Profiles /\ (Sound(Data("profiles")) => Sound(q))
         /\ Sound(Data("profiles")) /\ Script \in Listed(Data("profiles")) => Script \in Listed(q)
  <1> DEFINE a == cmd[p].arg
             l == Data("profiles")
  <1>1. a.op \in {"import", "delete", "patch", "reorder"} /\ a.uid \in Uids
    BY DEF Fits, CmdOK, IsCommand, Edits
  <1>2. l \in Profiles
    BY DocumentsAre
  <1>3. q \in Edited(a)
    OBVIOUS
  <1> HIDE DEF a
  <1>4. CASE a.op = "import"
    <2>1. q = Appended(l, a.uid) /\ a.uid \notin Listed(l)
      BY <1>3, <1>4 DEF Edited
    <2> HIDE DEF l
    <2> QED
      BY <1>1, <1>2, <2>1, AppendedIs DEF Kept, l
  <1>5. CASE a.op = "delete"
    <2>1. q = Deleted(l, a.uid) /\ a.uid # Script
      BY <1>3, <1>5 DEF Edited
    <2> HIDE DEF l
    <2> QED
      BY <1>1, <1>2, <2>1, DeletedIs DEF Kept, l
  <1>6. CASE a.op = "patch"
    <2>1. q = l
      BY <1>3, <1>6 DEF Edited
    <2> QED
      BY <1>2, <2>1
  <1>7. CASE a.op = "reorder"
    <2>1. a.uid \in Listed(l) /\ \E u \in Listed(l) : q = Moved(l, a.uid, u)
      BY <1>3, <1>7 DEF Edited
    <2> HIDE DEF l
    <2> QED
      BY <1>1, <1>2, <2>1, MovedIs DEF Kept, l
  <1> QED
    BY <1>1, <1>4, <1>5, <1>6, <1>7

LEMMA TEditList ==
  ASSUME TInv, NEW p \in Procs, At(p, "edit"), EditList(p), UNCHANGED <<effects, blocked, begun>>
  PROVE  TInv'
  <1> DEFINE a == cmd[p].arg
             reload == a.op = "delete" /\ Data("profiles").current \in {a.uid, None}
  <1>1. CmdOK(cmd[p]) /\ Fits(cmd[p], "edit")
    BY AtStage DEF TInv
  <1> PICK q \in Edited(a) : /\ config' = WithData("profiles", q) /\ Saves(p, q, reload)
                             /\ IF a.op = "patch" /\ disk'.profiles = q THEN SyncTimers
                                ELSE UNCHANGED timers
    BY DEF EditList
  <1>2. q \in Profiles
    BY <1>1, EditedIs DEF EditList, TInv
  <1>3. ConfigOK'
    BY <1>2, DraftedIs DEF TInv, Documents
  <1>4. CmdsOK' /\ DiskOK'
    <2>1. reload \in BOOLEAN
      OBVIOUS
    <2> HIDE DEF reload
    <2> QED
      BY <1>2, <2>1, SavesOK
  <1>5. timers' \subseteq Remote
    BY DEF SyncTimers, Desired, TInv, EffectsOK
  <1> QED
    BY <1>3, <1>4, <1>5 DEF TInv, CoreOK, EffectsOK, effects

LEMMA TUpdateItem ==
  ASSUME TInv, NEW p \in Procs, At(p, "edit"), UpdateItem(p), UNCHANGED <<effects, blocked, begun>>
  PROVE  TInv'
  <1> DEFINE a == cmd[p].arg
             list == Latest("profiles")
             reload == list.current = a.uid
  <1>1. list \in Profiles
    BY DocumentsAre DEF TInv
  <1>2. Saves(p, list, reload) \/ (UNCHANGED disk /\ Refuses(p))
    BY DEF UpdateItem
  <1>3. CmdsOK' /\ DiskOK'
    <2>1. reload \in BOOLEAN
      OBVIOUS
    <2> HIDE DEF reload, list
    <2>2. CASE Saves(p, list, reload)
      BY <1>1, <2>1, <2>2, SavesOK
    <2>3. CASE UNCHANGED disk /\ Refuses(p)
      BY <2>3, StageOK DEF TInv, DiskOK
    <2> QED
      BY <1>2, <2>2, <2>3
  <1> QED
    BY <1>3 DEF TInv, UpdateItem, ConfigOK, CoreOK, EffectsOK, effects

LEMMA TMisplace ==
  ASSUME TInv, NEW p \in Procs, At(p, "edit"), Misplace(p), UNCHANGED <<effects, blocked, begun>>
  PROVE  TInv'
  <1> DEFINE l == Data("profiles")
  <1>1. Emptied(l) \in Profiles
    <2>1. l \in Profiles
      BY DocumentsAre DEF TInv
    <2> HIDE DEF l
    <2>2. Emptied(l).items = <<>> /\ Emptied(l).current = l.current
      BY <2>1 DEF Emptied, Profiles
    <2>3. <<>> \in Seq(Uids) /\ DOMAIN Emptied(l) = {"items", "current"}
      BY <2>1 DEF Emptied, Profiles
    <2>4. Emptied(l) = [items |-> <<>>, current |-> l.current]
      BY <2>1, <2>2, <2>3 DEF Emptied, Profiles
    <2> QED
      BY <2>1, <2>3, <2>4 DEF Profiles
  <1>2. config' = WithData("profiles", Emptied(l)) \/ config' = config
    BY DEF Misplace
  <1>3. ConfigOK'
    BY <1>1, <1>2, DraftedIs DEF TInv, Documents, ConfigOK
  <1>4. CmdsOK'
    BY StageOK DEF TInv, Misplace
  <1> QED
    BY <1>3, <1>4 DEF TInv, Misplace, DiskOK, CoreOK, EffectsOK, effects

LEMMA TEdit ==
  ASSUME TInv, NEW p \in Procs, Edit(p)
  PROVE  TInv'
  BY TEditList, TUpdateItem, TMisplace DEF Edit

LEMMA TNext ==
  ASSUME TInv, [Next]_vars
  PROVE  TInv'
  <1>1. CASE UNCHANGED vars
    BY <1>1, QuietStep DEF vars, TInv, CmdsOK, effects
  <1>2. CASE Next
    BY <1>2, TRecover, TBegin, TFinish, TValidate, TDraft, TPort, TEnhance, TGenerate, TCheck,
       TWrite, TPut, TRestart, TLaunch, TSetProxy, TSetHotkeys, TTray, TSetFirewall, TPatchRuntime,
       TSave, TEnds, TKeep, TSaveScript, TFetch, TEdit DEF Next
  <1> QED
    BY <1>1, <1>2

\* Documents, effects and commands have the values they should have, whatever
\* commands interleave and fail.
THEOREM TypeCorrect == Spec => []TypeOK
  <1>1. TInv => TypeOK
    BY DEF TInv, TypeOK, ConfigOK, DiskOK, CoreOK, EffectsOK
  <1>2. Init => TInv
    BY TInit
  <1>3. TInv /\ [Next]_vars => TInv'
    BY TNext
  <1> QED
    BY <1>1, <1>2, <1>3, PTL DEF Spec

-----------------------------------------------------------------------------
(* The lists of profiles.                                                  *)

GoodList(q) == Sound(q) /\ (Script \in Listed(q) \/ blocked)

(* The inductive invariant: the draft is kept even while it is not in use. *)
LInv ==
    /\ ~lost => /\ GoodList(Data("profiles"))
                /\ config["profiles"].draft # None => GoodList(config["profiles"].draft)
                /\ disk.profiles # None => GoodList(disk.profiles)
    /\ blocked => disk.profiles = None

LEMMA LatestIsGood ==
  ASSUME LInv, ~lost
  PROVE  GoodList(Latest("profiles"))
  BY DEF LInv, Latest, Data

\* Steps that leave the lists alone.
LEMMA LKept ==
  ASSUME LInv, config'["profiles"] = config["profiles"], disk'.profiles = disk.profiles,
         UNCHANGED <<blocked, lost>>
  PROVE  LInv'
  BY DEF LInv, GoodList, Data

LEMMA LInit ==
  ASSUME Init
  PROVE  LInv
  <1> PICK b \in Boots, backedUp \in BOOLEAN :
        LET list == Loaded(b.profiles, backedUp)
            run == Generated(b.verge, b.clash, list, "s0") IN
        /\ blocked = (b.profiles = None /\ ~backedUp)
        /\ config = [f \in Documents |->
                       IF f = "runtime" THEN [data |-> None, draft |-> run]
                       ELSE [data |-> IF f = "profiles" THEN list ELSE b[f], draft |-> None]]
        /\ disk = [verge |-> b.verge, clash |-> b.clash,
                   profiles |-> IF blocked THEN None ELSE list, script |-> "s0", run |-> run]
    BY DEF Init
  <1> DEFINE list == Loaded(b.profiles, backedUp)
  <1>1. b.profiles = None \/ (b.profiles \in Profiles /\ Sound(b.profiles))
    BY SettingsAssumption DEF IsBoot
  <1>2. Sound(list) /\ (Script \in Listed(list) \/ (b.profiles = None /\ ~backedUp))
    BY <1>1, LoadedIs
  <1>3. config["profiles"] = [data |-> list, draft |-> None]
    BY DEF Documents
  <1>4. disk.profiles = IF blocked THEN None ELSE list
    OBVIOUS
  <1>5. blocked <=> b.profiles = None /\ ~backedUp
    OBVIOUS
  <1> HIDE DEF list
  <1> QED
    BY <1>2, <1>3, <1>4, <1>5 DEF LInv, GoodList, Data

LEMMA LDraft ==
  ASSUME TInv, LInv, NEW p \in Procs, Draft(p)
  PROVE  LInv'
  <1> DEFINE c == cmd[p]
             f == Document(c.kind)
             l == Latest("profiles")
  <1>1. c.kind \in Documented /\ IsCommand(c)
    BY AtStage DEF TInv, Draft, Fits, CmdOK
  <1>2. config' = Drafted(f, Patched(f, c.arg)) /\ UNCHANGED <<disk, blocked, lost>>
    BY DEF Draft
  <1>3. DOMAIN config = Documents
    BY DEF TInv, ConfigOK
  <1>4. CASE c.kind # "switch"
    <2>1. f # "profiles"
      BY <1>1, <1>4 DEF Document, Documented
    <2> HIDE DEF f, c
    <2> QED
      BY <1>2, <1>3, <2>1, LKept DEF Drafted, Documents
  <1>5. CASE c.kind = "switch"
    <2>1. f = "profiles" /\ c.arg.current \in Uids
      BY <1>1, <1>5 DEF Document, IsCommand
    <2>2. config'["profiles"] = [data |-> config["profiles"].data, draft |-> Selected(c.arg, l)]
      BY <1>2, <1>3, <2>1 DEF Drafted, Documents, Patched
    <2>3. l \in Profiles
      BY DocumentsAre DEF TInv
    <2>4. ~lost => GoodList(l)
      BY LatestIsGood
    <2> HIDE DEF c, f, l
    <2>5. ~lost => GoodList(Selected(c.arg, l))
      BY <2>1, <2>3, <2>4, SelectedIs DEF Kept, GoodList
    <2> QED
      BY <1>2, <2>2, <2>5 DEF LInv, GoodList, Data
  <1> QED
    BY <1>4, <1>5

LEMMA LEnds ==
  ASSUME TInv, LInv, NEW p \in Procs, Commit(p) \/ Discard(p)
  PROVE  LInv'
  <1> DEFINE own == {Document(cmd[p].kind)} \cup IF cmd[p].kind = "switch" THEN {} ELSE {"runtime"}
  <1>1. \/ config' = [f \in Documents |-> IF f \in own THEN [g \in Documents |-> Applied(g)][f] ELSE config[f]]
        \/ config' = [f \in Documents |-> IF f \in own THEN [g \in Documents |-> Discarded(g)][f] ELSE config[f]]
    BY DEF Commit, Discard, Ends
  <1>2. UNCHANGED <<disk, blocked, lost>>
    BY DEF Commit, Discard, Ends
  <1> HIDE DEF own
  <1>3. config'["profiles"] \in {config["profiles"], Applied("profiles"), Discarded("profiles")}
    BY <1>1 DEF Documents
  <1>4. CASE config'["profiles"] = config["profiles"]
    BY <1>2, <1>4, LKept
  <1>5. CASE config'["profiles"] = [data |-> Latest("profiles"), draft |-> None]
    BY <1>2, <1>5, LatestIsGood DEF LInv, GoodList, Data
  <1>6. CASE config'["profiles"] = [config["profiles"] EXCEPT !.draft = None]
    <2>1. config'["profiles"].data = config["profiles"].data /\ config'["profiles"].draft = None
      BY <1>6 DEF TInv, ConfigOK, Settled
    <2> QED
      BY <1>2, <2>1 DEF LInv, GoodList, Data
  <1> QED
    BY <1>3, <1>4, <1>5, <1>6 DEF Applied, Discarded

LEMMA LSave ==
  ASSUME TInv, LInv, NEW p \in Procs, Save(p)
  PROVE  LInv'
  <1> DEFINE f == Document(cmd[p].kind)
  <1>1. f \in {"verge", "clash", "profiles"}
    BY AtStage DEF TInv, Save, Fits, Document, Documented
  <1>2. /\ UNCHANGED <<config, blocked, lost>>
        /\ UNCHANGED disk \/ (Writable(f) /\ disk' = [disk EXCEPT ![f] = Latest(f)])
    BY DEF Save
  <1> HIDE DEF f
  <1>3. CASE disk'.profiles = disk.profiles
    BY <1>2, <1>3, LKept
  <1>4. CASE ~blocked /\ disk'.profiles = Latest("profiles")
    BY <1>2, <1>4, LatestIsGood DEF LInv, GoodList, Data
  <1>5. disk'.profiles = disk.profiles \/ (~blocked /\ disk'.profiles = Latest("profiles"))
    BY <1>1, <1>2 DEF Writable, TInv, DiskOK
  <1> QED
    BY <1>3, <1>4, <1>5

LEMMA LSaves ==
  ASSUME TInv, NEW p \in Procs, NEW list, NEW reload, Saves(p, list, reload)
  PROVE  disk'.profiles = disk.profiles \/ (~blocked /\ disk'.profiles = list)
  BY DEF Saves, Writable, TInv, DiskOK

LEMMA LEditList ==
  ASSUME TInv, LInv, NEW p \in Procs, At(p, "edit"), EditList(p), UNCHANGED <<effects, blocked, begun>>
  PROVE  LInv'
  <1> DEFINE a == cmd[p].arg
             reload == a.op = "delete" /\ Data("profiles").current \in {a.uid, None}
  <1>1. CmdOK(cmd[p]) /\ Fits(cmd[p], "edit")
    BY AtStage DEF TInv
  <1> PICK q \in Edited(a) : config' = WithData("profiles", q) /\ Saves(p, q, reload)
    BY DEF EditList
  <1>2. /\ Sound(Data("profiles")) => Sound(q)
        /\ Sound(Data("profiles")) /\ Script \in Listed(Data("profiles")) => Script \in Listed(q)
    BY <1>1, EditedIs DEF EditList, TInv
  <1>3. ~lost => GoodList(q)
    BY <1>2 DEF LInv, GoodList
  <1>4. config'["profiles"] = [data |-> q, draft |-> config["profiles"].draft]
    BY DEF WithData, TInv, ConfigOK, Documents
  <1>5. disk'.profiles = disk.profiles \/ (~blocked /\ disk'.profiles = q)
    BY LSaves
  <1>6. UNCHANGED <<blocked, lost>>
    BY DEF EditList
  <1> QED
    BY <1>3, <1>4, <1>5, <1>6 DEF LInv, GoodList, Data

LEMMA LUpdateItem ==
  ASSUME TInv, LInv, NEW p \in Procs, At(p, "edit"), UpdateItem(p), UNCHANGED <<effects, blocked, begun>>
  PROVE  LInv'
  <1>1. UNCHANGED <<config, blocked, lost>>
    BY DEF UpdateItem
  <1>2. disk'.profiles = disk.profiles \/ (~blocked /\ disk'.profiles = Latest("profiles"))
    BY LSaves DEF UpdateItem
  <1>3. ~lost => GoodList(Latest("profiles"))
    BY LatestIsGood
  <1> QED
    BY <1>1, <1>2, <1>3 DEF LInv, GoodList, Data

LEMMA LMisplace ==
  ASSUME TInv, LInv, NEW p \in Procs, At(p, "edit"), Misplace(p), UNCHANGED <<effects, blocked, begun>>
  PROVE  LInv'
  <1>1. UNCHANGED <<disk, blocked>> /\ (lost' \/ (config' = config /\ (lost' <=> lost)))
    BY DEF Misplace
  <1> QED
    BY <1>1 DEF LInv, GoodList, Data

LEMMA LNext ==
  ASSUME TInv, LInv, [Next]_vars
  PROVE  LInv'
  <1>1. DOMAIN config = Documents
    BY DEF TInv, ConfigOK
  <1>2. CASE UNCHANGED vars \/ Recover
    BY <1>2, LKept DEF vars, Recover, TInv, DiskOK
  <1>3. ASSUME NEW p \in Procs,
               \/ Begin(p) \/ Finish(p) \/ Validate(p) \/ Port(p) \/ Enhance(p) \/ Check(p)
               \/ Put(p) \/ Launch(p) \/ SetProxy(p) \/ SetHotkeys(p) \/ Tray(p)
               \/ SetFirewall(p) \/ Fetch(p)
        PROVE  LInv'
    BY <1>3, LKept DEF Begin, Finish, Validate, Port, Enhance, Check, Put, Launch, SetProxy,
       SetHotkeys, Tray, SetFirewall, Fetch
  <1>4. ASSUME NEW p \in Procs, Write(p) \/ Restart(p) \/ SaveScript(p)
        PROVE  LInv'
    BY <1>4, LKept DEF Write, Restart, SaveScript, TInv, DiskOK
  <1>5. ASSUME NEW p \in Procs, Generate(p) \/ PatchRuntime(p) \/ Keep(p)
        PROVE  LInv'
    BY <1>1, <1>5, LKept DEF Generate, PatchRuntime, Keep, Drafted, Documents
  <1>6. ASSUME NEW p \in Procs, Edit(p)
        PROVE  LInv'
    BY <1>6, LEditList, LUpdateItem, LMisplace DEF Edit
  <1>7. CASE Next
    BY <1>2, <1>3, <1>4, <1>5, <1>6, <1>7, LDraft, LEnds, LSave DEF Next
  <1> QED
    BY <1>2, <1>7

\* However commands interleave and fail, and whatever file the program started
\* with, no list of profiles has a profile twice, loses the global script or
\* names a current profile it does not have, unless a profile that is not
\* listed was to be moved; and a file that could be neither read nor backed up
\* is never overwritten.
THEOREM ListsStaySound == Spec => []ProfilesAreSound
  <1>1. LInv => ProfilesAreSound
    BY LatestIsGood DEF LInv, ProfilesAreSound, Lists, GoodList
  <1>2. Init => TInv /\ LInv
    BY TInit, LInit
  <1>3. TInv /\ LInv /\ [Next]_vars => TInv' /\ LInv'
    BY TNext, LNext
  <1> QED
    BY <1>1, <1>2, <1>3, PTL DEF Spec

-----------------------------------------------------------------------------
(* TUN mode needs service mode.                                            *)

(* The settings are patched by one process only, `changer'.  Outside its    *)
(* patches a draft agrees with the committed settings on both modes;        *)
(* whether a patch fits is decided one stage before its draft.              *)
NoneIsNoCommand == \A c : DOMAIN c = Fields => c # None

Fit(v) == v.tun => v.service
Agree(v, w) == v.tun = w.tun /\ v.service = w.service
Agreed == Agree(Latest("verge"), Data("verge"))

Patching(p) == cmd[p] # None /\ cmd[p].kind = "verge"

\* A patch with a draft of its own, to be committed or dropped.
Pending(c) ==
    IF c.rolling THEN c.todo # <<>> /\ Head(c.todo) = "discard"
    ELSE "draft" \in c.tried /\ "commit" \in Range(c.todo)

\* Where a patch is: to be checked, checked, drafted or rolling back.
Phase(c) ==
    \/ c.rolling
    \/ /\ "draft" \notin c.tried
       /\ \/ c.todo = VergePlan(c.arg)
          \/ c.todo = Tail(VergePlan(c.arg)) /\ Fitting(c.arg, Latest("verge"))
    \/ "draft" \in c.tried /\ {"validate", "draft"} \cap Range(c.todo) = {}

VInv(changer) ==
    /\ \A q \in Procs \ {changer} : cmd[q] # None => cmd[q].kind # "verge"
    /\ Patching(changer) => Phase(cmd[changer])
    /\ (Patching(changer) /\ Pending(cmd[changer])) \/ Agreed
    /\ TunNeedsService

\* A plan starts with the check and the draft, has neither later, and commits.
Shaped(q) ==
    /\ q \in Seq(AllStages) /\ Len(q) >= 2 /\ q[1] = "validate" /\ q[2] = "draft"
    /\ \A i \in 3..Len(q) : q[i] \notin {"validate", "draft"}

LEMMA ShapedMore ==
  ASSUME NEW q, Shaped(q), NEW y \in Seq(AllStages \ {"validate", "draft"})
  PROVE  Shaped(q \o y)
  <1>1. q \in Seq(AllStages) /\ y \in Seq(AllStages) /\ Len(y) \in Nat /\ Len(q) \in Nat
    BY DEF Shaped
  <1>2. /\ q \o y \in Seq(AllStages) /\ Len(q \o y) = Len(q) + Len(y)
        /\ \A j \in 1..(Len(q) + Len(y)) : (q \o y)[j] = IF j <= Len(q) THEN q[j] ELSE y[j - Len(q)]
    BY <1>1, Concatenated
  <1>3. \A j \in 1..Len(y) : y[j] \notin {"validate", "draft"}
    OBVIOUS
  <1>4. ASSUME NEW j \in 3..(Len(q) + Len(y)) PROVE (q \o y)[j] \notin {"validate", "draft"}
    <2>1. CASE j <= Len(q)
      BY <1>1, <1>2, <2>1 DEF Shaped
    <2>2. CASE j > Len(q)
      <3>1. j - Len(q) \in 1..Len(y) /\ (q \o y)[j] = y[j - Len(q)]
        BY <1>1, <1>2, <2>2
      <3> QED
        BY <1>3, <3>1
    <2> QED
      BY <1>1, <2>1, <2>2
  <1> QED
    BY <1>1, <1>2, <1>4 DEF Shaped

LEMMA VergePlanIs ==
  ASSUME NEW a
  PROVE  LET q == VergePlan(a) IN
         /\ q # <<>> /\ Head(q) = "validate"
         /\ Tail(q) # <<>> /\ Head(Tail(q)) = "draft"
         /\ {"validate", "draft"} \cap Range(Tail(Tail(q))) = {}
         /\ "commit" \in Range(Tail(Tail(q)))
  <1> DEFINE T == AllStages \ {"validate", "draft"}
             has(k) == k \in DOMAIN a
             x1 == IF has("service") THEN Restarting ELSE If(has("tun"), Updating)
             x2 == If(has("launch"), <<"launch">>)
             x3 == If(has("proxy") \/ has("port"), <<"proxy">>)
             x4 == If(has("hotkeys"), <<"hotkeys">>)
             x5 == If(has("proxy") \/ has("tun"), <<"tray">>)
             r1 == <<"validate", "draft">>
             r6 == ((((r1 \o x1) \o x2) \o x3) \o x4) \o x5
             q == VergePlan(a)
  <1>1. q = r6 \o <<"save", "commit">>
    BY DEF VergePlan
  <1>2. CoreStages \cup {"launch", "proxy", "hotkeys", "tray", "save", "commit"} \subseteq T
    BY DEF AllStages, CoreStages
  <1> HIDE DEF T
  <1>3. x1 \in Seq(T)
    BY <1>2 DEF If, Restarting, Updating, CoreStages
  <1>4. x2 \in Seq(T) /\ x3 \in Seq(T) /\ x4 \in Seq(T) /\ x5 \in Seq(T) /\ <<"save", "commit">> \in Seq(T)
    BY <1>2 DEF If
  <1>5. Shaped(r1)
    <2>1. r1 \in Seq(AllStages)
      BY DEF AllStages
    <2> QED
      BY <2>1 DEF Shaped
  <1> HIDE DEF x1, x2, x3, x4, x5, r1
  <1>6. Shaped(r6)
    <2>1. Shaped(r1 \o x1)
      BY <1>3, <1>5, ShapedMore DEF T
    <2>2. Shaped((r1 \o x1) \o x2)
      BY <1>4, <2>1, ShapedMore DEF T
    <2>3. Shaped(((r1 \o x1) \o x2) \o x3)
      BY <1>4, <2>2, ShapedMore DEF T
    <2>4. Shaped((((r1 \o x1) \o x2) \o x3) \o x4)
      BY <1>4, <2>3, ShapedMore DEF T
    <2> QED
      BY <1>4, <2>4, ShapedMore DEF T
  <1> HIDE DEF r6
  <1>7. Shaped(q)
    BY <1>1, <1>4, <1>6, ShapedMore DEF T
  <1>8. Len(q) = Len(r6) + 2 /\ q[Len(q)] = "commit" /\ Len(r6) \in Nat /\ Len(r6) >= 2
    <2>1. r6 \in Seq(AllStages) /\ Len(r6) >= 2 /\ Len(r6) \in Nat
      BY <1>6 DEF Shaped
    <2> DEFINE y == <<"save", "commit">>
    <2>2. y \in Seq(AllStages) /\ Len(y) = 2 /\ y[2] = "commit"
      BY DEF AllStages
    <2>3. q = r6 \o y
      BY <1>1
    <2> HIDE DEF y
    <2>4. /\ Len(r6 \o y) = Len(r6) + Len(y)
          /\ \A j \in 1..(Len(r6) + Len(y)) : (r6 \o y)[j] = IF j <= Len(r6) THEN r6[j] ELSE y[j - Len(r6)]
      BY <2>1, <2>2, Concatenated
    <2> HIDE DEF q
    <2> QED
      BY <2>1, <2>2, <2>3, <2>4
  <1> HIDE DEF q
  <1>9. q \in Seq(AllStages) /\ q[1] = "validate" /\ q[2] = "draft" /\ Len(q) \in Nat /\ Len(q) >= 4
        /\ \A i \in 3..Len(q) : q[i] \notin {"validate", "draft"}
    BY <1>7, <1>8 DEF Shaped
  <1>10. Tail(q) \in Seq(AllStages) /\ Len(Tail(q)) = Len(q) - 1
         /\ \A j \in 1..(Len(q) - 1) : Tail(q)[j] = q[j + 1]
    BY <1>9
  <1> DEFINE t == Tail(q)
  <1>11. t \in Seq(AllStages) /\ Len(t) = Len(q) - 1 /\ \A j \in 1..(Len(q) - 1) : t[j] = q[j + 1]
    BY <1>10
  <1> HIDE DEF t
  <1>12. Tail(t) \in Seq(AllStages) /\ Len(Tail(t)) = Len(q) - 2
         /\ \A j \in 1..(Len(q) - 2) : Tail(t)[j] = t[j + 1]
    BY <1>9, <1>11
  <1>13. \A j \in 1..(Len(q) - 2) : Tail(t)[j] = q[j + 2]
    <2> SUFFICES ASSUME NEW j \in 1..(Len(q) - 2) PROVE Tail(t)[j] = q[j + 2]
      OBVIOUS
    <2>1. j + 1 \in 1..(Len(q) - 1) /\ (j + 1) + 1 = j + 2
      BY <1>9
    <2> QED
      BY <1>11, <1>12, <2>1
  <1>14. {"validate", "draft"} \cap Range(Tail(t)) = {}
    <2> SUFFICES ASSUME NEW j \in 1..(Len(q) - 2) PROVE Tail(t)[j] \notin {"validate", "draft"}
      BY <1>12 DEF Range
    <2>1. j + 2 \in 3..Len(q)
      BY <1>9
    <2> QED
      BY <1>9, <1>13, <2>1
  <1>15. "commit" \in Range(Tail(t))
    <2>1. Len(q) - 2 \in 1..(Len(q) - 2) /\ (Len(q) - 2) + 2 = Len(q)
      BY <1>9
    <2>2. Tail(t)[Len(q) - 2] = "commit" /\ Len(q) - 2 \in DOMAIN Tail(t)
      BY <1>8, <1>12, <1>13, <2>1
    <2> QED
      BY <2>2 DEF Range
  <1>16. q # <<>> /\ Head(q) = "validate" /\ t # <<>> /\ Head(t) = "draft"
    BY <1>9, <1>11
  <1> QED
    BY <1>14, <1>15, <1>16 DEF t, q

\* How a command goes on after a stage: with the next one, or rolling back.
Going(c, d) == d.rolling = c.rolling /\ d.todo = Tail(c.todo) /\ d.tried = Tries(c)
Failing(c, d) ==
    /\ d.rolling = TRUE
    /\ ~c.rolling /\ "draft" \in Tries(c) => d.todo # <<>> /\ Head(d.todo) = "discard"
Continues(c, d) ==
    /\ DOMAIN d = Fields /\ d.kind = c.kind
    /\ c.kind = "verge" => d.arg = c.arg /\ (Going(c, d) \/ Failing(c, d))

LEMMA HeadIs ==
  ASSUME NEW T, NEW a \in Seq(T), a # <<>>, NEW b \in Seq(T)
  PROVE  a \o b \in Seq(T) /\ a \o b # <<>> /\ Head(a \o b) = Head(a)
  <1>1. Len(a) >= 1 /\ Len(a) \in Nat /\ Len(b) \in Nat
    OBVIOUS
  <1>2. /\ a \o b \in Seq(T) /\ Len(a \o b) = Len(a) + Len(b)
        /\ \A j \in 1..(Len(a) + Len(b)) : (a \o b)[j] = IF j <= Len(a) THEN a[j] ELSE b[j - Len(a)]
    BY Concatenated
  <1>3. (a \o b)[1] = a[1]
    BY <1>1, <1>2
  <1> QED
    BY <1>1, <1>2, <1>3

LEMMA RollbackDiscards ==
  ASSUME NEW a, a.kind \in {"verge", "clash", "core"}, "draft" \in a.tried
  PROVE  Rollback(a) # <<>> /\ Head(Rollback(a)) = "discard"
  <1> DEFINE T == AllStages
             r0 == <<"discard">>
             r1 == r0 \o CoreRollback(a)
             r2 == r1 \o Again(a, "proxy")
             r3 == r2 \o Again(a, "launch")
             r4 == r3 \o Again(a, "hotkeys")
             r5 == r4 \o Again(a, "tray")
             r6 == r5 \o Again(a, "firewall")
  <1>1. Rollback(a) = r6
    BY DEF Rollback
  <1>2. r0 \in Seq(T) /\ r0 # <<>> /\ Head(r0) = "discard"
    BY DEF AllStages
  <1>11. CoreStages \cup {"proxy", "launch", "hotkeys", "tray", "firewall"} \subseteq T
    BY DEF AllStages
  <1> HIDE DEF T, r0
  <1>3. CoreRollback(a) \in Seq(T)
    <2>1. Updating \o <<"keep">> \in Seq(T) /\ <<"enhance", "generate", "write", "keep">> \in Seq(T)
          /\ <<>> \in Seq(T) /\ Restarting \o <<"keep">> \in Seq(T)
      BY <1>11 DEF Updating, Restarting, CoreStages
    <2> QED
      BY <2>1 DEF CoreRollback, If
  <1>4. /\ Again(a, "proxy") \in Seq(T) /\ Again(a, "launch") \in Seq(T)
        /\ Again(a, "hotkeys") \in Seq(T) /\ Again(a, "tray") \in Seq(T)
        /\ Again(a, "firewall") \in Seq(T)
    BY <1>11 DEF Again, If
  <1>5. r1 \in Seq(T) /\ r1 # <<>> /\ Head(r1) = "discard"
    BY <1>2, <1>3, HeadIs
  <1> HIDE DEF r1
  <1>6. r2 \in Seq(T) /\ r2 # <<>> /\ Head(r2) = "discard"
    BY <1>4, <1>5, HeadIs
  <1> HIDE DEF r2
  <1>7. r3 \in Seq(T) /\ r3 # <<>> /\ Head(r3) = "discard"
    BY <1>4, <1>6, HeadIs
  <1> HIDE DEF r3
  <1>8. r4 \in Seq(T) /\ r4 # <<>> /\ Head(r4) = "discard"
    BY <1>4, <1>7, HeadIs
  <1> HIDE DEF r4
  <1>9. r5 \in Seq(T) /\ r5 # <<>> /\ Head(r5) = "discard"
    BY <1>4, <1>8, HeadIs
  <1> HIDE DEF r5
  <1>10. r6 \in Seq(T) /\ r6 # <<>> /\ Head(r6) = "discard"
    BY <1>4, <1>9, HeadIs
  <1> QED
    BY <1>1, <1>10

Stage(p) ==
    \/ Validate(p) \/ Draft(p) \/ Port(p) \/ Enhance(p) \/ Generate(p) \/ Check(p) \/ Write(p)
    \/ Put(p) \/ Restart(p) \/ Launch(p) \/ SetProxy(p) \/ SetHotkeys(p) \/ Tray(p)
    \/ SetFirewall(p) \/ PatchRuntime(p) \/ Save(p) \/ Commit(p) \/ Discard(p) \/ Keep(p)
    \/ SaveScript(p) \/ Fetch(p) \/ Edit(p)

LEMMA StagesContinue ==
  ASSUME TInv, NEW p \in Procs, Stage(p)
  PROVE  /\ At(p, Head(cmd[p].todo)) /\ CmdOK(cmd[p]) /\ Fits(cmd[p], Head(cmd[p].todo))
         /\ \E d : Goes(p, d) /\ Continues(cmd[p], d)
  <1> DEFINE c == cmd[p]
             s == Head(c.todo)
             Goal == \E d : Goes(p, d) /\ Continues(c, d)
  <1>1. At(p, s)
    BY DEF Stage, Validate, Draft, Port, Enhance, Generate, Check, Write, Put, Restart, Launch,
       SetProxy, SetHotkeys, Tray, SetFirewall, PatchRuntime, Save, Commit, Discard, Ends, Keep,
       SaveScript, Fetch, Edit, At
  <1>2. c # None /\ c.todo # <<>> /\ CmdOK(c) /\ Fits(c, s)
    BY <1>1, AtStage DEF TInv
  <1>3. DOMAIN c = Fields
    BY <1>2 DEF CmdOK
  <1>4. Left(c, Passed(p), Tail(c.todo), Tries(c)) /\ Passed(p).rolling = c.rolling
    BY <1>3, PassedIs
  <1>5. ASSUME Passes(p) PROVE Goal
    BY <1>4, <1>5 DEF Passes, Left, Same, Continues, Going
  <1>6. ASSUME Fails(p) PROVE Goal
    <2>1. PICK d : /\ Goes(p, d) /\ d.rolling = TRUE
                   /\ \/ /\ ~c.rolling
                         /\ \E a : Left(c, a, c.todo, Tries(c)) /\ Left(c, d, Rollback(a), Tries(c))
                      \/ /\ c.rolling
                         /\ \E i \in 2..(Len(c.todo) + 1) :
                              Left(c, d, SubSeq(c.todo, i, Len(c.todo)), Tries(c))
      BY <1>3, <1>6, FailedIs
    <2>2. DOMAIN d = Fields /\ d.kind = c.kind /\ d.arg = c.arg
      BY <2>1 DEF Left, Same
    <2>3. ASSUME ~c.rolling, c.kind = "verge", "draft" \in Tries(c)
          PROVE  d.todo # <<>> /\ Head(d.todo) = "discard"
      <3> PICK a : Left(c, a, c.todo, Tries(c)) /\ Left(c, d, Rollback(a), Tries(c))
        BY <2>1, <2>3
      <3>1. a.kind = "verge" /\ "draft" \in a.tried /\ d.todo = Rollback(a)
        BY <2>3 DEF Left, Same
      <3> QED
        BY <3>1, RollbackDiscards
    <2>4. Continues(c, d)
      BY <2>1, <2>2, <2>3 DEF Continues, Failing
    <2> QED
      BY <2>1, <2>4
  <1>7. ASSUME NEW old, Remembers(p, old), c.kind = "verge" => c.rolling PROVE Goal
    <2>1. CASE c.rolling
      <3>1. Goes(p, Passed(p))
        BY <1>7, <2>1 DEF Remembers
      <3> QED
        BY <1>4, <3>1 DEF Left, Same, Continues, Going
    <2>2. CASE ~c.rolling
      <3> DEFINE b == Passed(p)
                 d == [b EXCEPT !.previous = old]
      <3>1. Goes(p, d)
        BY <1>7, <2>2 DEF Remembers
      <3>2. c.kind # "verge"
        BY <1>7, <2>2
      <3> HIDE DEF b, c
      <3>3. DOMAIN d = Fields /\ d.kind = c.kind
        BY <1>4, NotesChange DEF Left, Same, b
      <3> HIDE DEF d
      <3> QED
        BY <3>1, <3>2, <3>3 DEF Continues, c
    <2> QED
      BY <2>1, <2>2
  <1>8. ASSUME Goes(p, [Passed(p) EXCEPT !.local = Enhanced]) \/ Goes(p, [Passed(p) EXCEPT !.swallowed = TRUE])
        PROVE  Goal
    <2> DEFINE b == Passed(p)
               d1 == [b EXCEPT !.local = Enhanced]
               d2 == [b EXCEPT !.swallowed = TRUE]
    <2>1. Goes(p, d1) \/ Goes(p, d2)
      BY <1>8
    <2> HIDE DEF b
    <2>2. DOMAIN b = Fields
      BY <1>4 DEF Left, Same, b
    <2>3. /\ Same(b, d1) /\ d1.todo = b.todo /\ d1.tried = b.tried /\ d1.rolling = b.rolling
          /\ Left(b, d2, b.todo, b.tried) /\ d2.rolling = b.rolling
      BY <2>2, NotesChange
    <2> HIDE DEF d1, d2, c
    <2>4. Continues(c, d1) /\ Continues(c, d2)
      BY <1>4, <2>3 DEF Left, Same, Continues, Going, b
    <2> QED
      BY <2>1, <2>4 DEF c
  <1>9. ASSUME NEW x, c.kind # "verge", Goes(p, [Attempt(p) EXCEPT !.todo = x]) PROVE Goal
    <2> DEFINE a == Attempt(p)
               d == [a EXCEPT !.todo = x]
    <2>1. Goes(p, d)
      BY <1>9
    <2>2. Left(c, a, c.todo, Tries(c))
      BY <1>3, AttemptIs
    <2> HIDE DEF a, c
    <2>3. DOMAIN d = Fields /\ d.kind = c.kind
      BY <2>2, FieldsChange DEF Left, Same
    <2> HIDE DEF d
    <2> QED
      BY <1>9, <2>1, <2>3 DEF Continues, c
  <1>10. ASSUME Breaks(p) \/ Refuses(p) PROVE Goal
    BY <1>6, <1>10 DEF Breaks, Refuses
  <1> HIDE DEF Goal
  <1>11. CASE Validate(p) \/ Draft(p) \/ Port(p) \/ Generate(p) \/ Check(p) \/ Write(p) \/ Put(p)
              \/ Restart(p) \/ SetProxy(p) \/ SetHotkeys(p) \/ Tray(p) \/ PatchRuntime(p) \/ Save(p)
              \/ Commit(p) \/ Discard(p) \/ Keep(p) \/ Fetch(p)
    <2>1. Passes(p) \/ Breaks(p) \/ Refuses(p)
      BY <1>11 DEF Validate, Draft, Port, Generate, Check, Write, Put, Restart, SetProxy, SetHotkeys,
         Tray, PatchRuntime, Save, Commit, Discard, Ends, Keep, Fetch
    <2>2. Goal
      BY <1>5, <1>10, <2>1
    <2> QED
      BY <1>1, <1>2, <2>2 DEF Goal
  <1>12. CASE Enhance(p) \/ Launch(p)
    <2>1. Passes(p) \/ Breaks(p) \/ Refuses(p) \/ Goes(p, [Passed(p) EXCEPT !.local = Enhanced])
             \/ Goes(p, [Passed(p) EXCEPT !.swallowed = TRUE])
      BY <1>12 DEF Enhance, Launch
    <2>2. Goal
      BY <1>5, <1>8, <1>10, <2>1
    <2> QED
      BY <1>1, <1>2, <2>2 DEF Goal
  <1>13. CASE SetFirewall(p) \/ SaveScript(p)
    <2>1. Breaks(p) \/ \E old : Remembers(p, old)
      BY <1>13 DEF SetFirewall, SaveScript
    <2>2. s \in {"firewall", "script", "restore"}
      BY <1>13 DEF SetFirewall, SaveScript, At
    <2>3. c.kind = "verge" => c.rolling
      BY <1>2, <2>2 DEF Fits
    <2>4. Goal
      BY <1>7, <1>10, <2>1, <2>3
    <2> QED
      BY <1>1, <1>2, <2>4 DEF Goal
  <1>14. CASE Edit(p)
    <2>1. s = "edit"
      BY <1>14 DEF Edit, At
    <2>2. c.kind # "verge"
      BY <1>2, <2>1 DEF Fits
    <2>3. Passes(p) \/ Breaks(p) \/ Refuses(p) \/ \E x : Goes(p, [Attempt(p) EXCEPT !.todo = x])
      BY <1>14 DEF Edit, EditList, UpdateItem, Misplace, Saves
    <2>4. Goal
      BY <1>5, <1>9, <1>10, <2>2, <2>3
    <2> QED
      BY <1>1, <1>2, <2>4 DEF Goal
  <1> QED
    BY <1>11, <1>12, <1>13, <1>14 DEF Stage

LEMMA MergedModes ==
  ASSUME NEW a, NEW v \in Verges
  PROVE  /\ Merged(a, v).tun = IF "tun" \in DOMAIN a THEN a["tun"] ELSE v.tun
         /\ Merged(a, v).service = IF "service" \in DOMAIN a THEN a["service"] ELSE v.service
  BY DEF Merged, Verges

LEMMA FittingAgrees ==
  ASSUME NEW a, NEW v \in Verges, NEW w \in Verges, Agree(v, w), Fitting(a, v)
  PROVE  Fitting(a, w)
  BY MergedModes DEF Fitting, Agree

\* A patch that fits leaves settings that fit.
LEMMA FittingFits ==
  ASSUME NEW a, IsPatch(a, Verges), NEW v \in Verges, Fit(v), Fitting(a, v)
  PROVE  Fit(Merged(a, v))
  <1> SUFFICES ASSUME Merged(a, v).tun PROVE Merged(a, v).service
    BY DEF Fit
  <1>1. CASE "tun" \in DOMAIN a
    <2>1. a["tun"] \in BOOLEAN
      BY <1>1 DEF IsPatch, Verges
    <2>2. Asks(a, "tun")
      BY <1>1, <2>1, MergedModes DEF Asks
    <2> QED
      BY <2>2 DEF Fitting
  <1>2. CASE "tun" \notin DOMAIN a
    BY <1>2, MergedModes DEF Fitting, Fit
  <1> QED
    BY <1>1, <1>2

\* What a stage does to the settings.
LEMMA StageModes ==
  ASSUME TInv, NEW p \in Procs, Stage(p)
  PROVE  LET c == cmd[p]
             s == Head(c.todo)
             D == Data("verge")
             L == Latest("verge")
         IN /\ s \notin {"draft", "commit", "discard"} =>
                 Data("verge")' = D /\ Latest("verge")' = L /\ disk'.verge \in {disk.verge, L}
            /\ s \in {"draft", "commit", "discard"} => disk'.verge = disk.verge
            /\ s = "draft" => /\ Data("verge")' = D
                              /\ c.kind \notin {"verge", "core"} => Latest("verge")' = L
                              /\ c.kind \in {"verge", "core"} => Latest("verge")' \in {Merged(c.arg, L), D}
            /\ s = "commit" => /\ \/ Data("verge")' = D /\ Latest("verge")' = L
                                  \/ Data("verge")' = L /\ Latest("verge")' = L
                               /\ c.kind = "verge" => Data("verge")' = L /\ Latest("verge")' = L
            /\ s = "discard" => /\ Data("verge")' = D /\ Latest("verge")' \in {L, D}
                                /\ c.kind = "verge" => Latest("verge")' = D
  <1> DEFINE c == cmd[p]
             s == Head(c.todo)
             D == Data("verge")
             L == Latest("verge")
  <1>1. DOMAIN config = Documents /\ config["verge"] \in Settled(Verges)
    BY DEF TInv, ConfigOK
  <1>2. CASE Validate(p) \/ Port(p) \/ Enhance(p) \/ Generate(p) \/ Check(p) \/ Write(p) \/ Put(p)
             \/ Restart(p) \/ Launch(p) \/ SetProxy(p) \/ SetHotkeys(p) \/ Tray(p) \/ SetFirewall(p)
             \/ PatchRuntime(p) \/ Save(p) \/ Keep(p) \/ SaveScript(p) \/ Fetch(p) \/ Edit(p)
    <2>1. s \notin {"draft", "commit", "discard"}
      BY <1>2 DEF Validate, Port, Enhance, Generate, Check, Write, Put, Restart, Launch, SetProxy,
         SetHotkeys, Tray, SetFirewall, PatchRuntime, Save, Keep, SaveScript, Fetch, Edit, At
    <2>2. config'["verge"] = config["verge"]
      <3>1. CASE Validate(p) \/ Port(p) \/ Enhance(p) \/ Check(p) \/ Write(p) \/ Put(p) \/ Restart(p)
                 \/ Launch(p) \/ SetProxy(p) \/ SetHotkeys(p) \/ Tray(p) \/ SetFirewall(p) \/ Save(p)
                 \/ SaveScript(p) \/ Fetch(p)
        BY <3>1 DEF Validate, Port, Enhance, Check, Write, Put, Restart, Launch, SetProxy, SetHotkeys,
           Tray, SetFirewall, Save, SaveScript, Fetch
      <3>2. CASE Generate(p) \/ PatchRuntime(p) \/ Keep(p)
        BY <1>1, <3>2 DEF Generate, PatchRuntime, Keep, Drafted, Documents
      <3>3. CASE Edit(p)
        <4>1. config' = config \/ \E x : config' = WithData("profiles", x)
          BY <3>3 DEF Edit, EditList, UpdateItem, Misplace
        <4> QED
          BY <1>1, <4>1 DEF WithData, Documents
      <3> QED
        BY <1>2, <3>1, <3>2, <3>3
    <2>3. disk'.verge \in {disk.verge, L}
      <3>1. CASE Save(p)
        <4>1. Document(c.kind) \in {"verge", "clash", "profiles"}
          BY <3>1, AtStage DEF TInv, Save, Fits, Document, Documented
        <4>2. UNCHANGED disk \/ disk' = [disk EXCEPT ![Document(c.kind)] = Latest(Document(c.kind))]
          BY <3>1 DEF Save
        <4> QED
          BY <4>1, <4>2 DEF TInv, DiskOK
      <3>2. CASE Write(p) \/ Restart(p) \/ SaveScript(p) \/ Edit(p)
        BY <3>2 DEF Write, Restart, SaveScript, Edit, EditList, UpdateItem, Misplace, Saves, TInv, DiskOK
      <3>3. CASE Validate(p) \/ Port(p) \/ Enhance(p) \/ Generate(p) \/ Check(p) \/ Put(p) \/ Launch(p)
                 \/ SetProxy(p) \/ SetHotkeys(p) \/ Tray(p) \/ SetFirewall(p) \/ PatchRuntime(p)
                 \/ Keep(p) \/ Fetch(p)
        BY <3>3 DEF Validate, Port, Enhance, Generate, Check, Put, Launch, SetProxy, SetHotkeys, Tray,
           SetFirewall, PatchRuntime, Keep, Fetch
      <3> QED
        BY <1>2, <3>1, <3>2, <3>3
    <2> HIDE DEF s
    <2> QED
      BY <2>1, <2>2, <2>3 DEF Data, Latest, s
  <1>3. CASE Draft(p)
    <2>1. s = "draft" /\ UNCHANGED disk
      BY <1>3 DEF Draft, At
    <2>2. CASE c.kind \notin {"verge", "core"}
      <3>1. Document(c.kind) # "verge"
        BY <2>2, <1>3, AtStage DEF TInv, Draft, Document, Fits, Documented
      <3>2. config'["verge"] = config["verge"]
        BY <1>1, <1>3, <3>1 DEF Draft, Drafted, Documents
      <3> QED
        BY <2>1, <2>2, <3>2 DEF Data, Latest
    <2>3. CASE c.kind \in {"verge", "core"}
      <3>1. Document(c.kind) = "verge"
        BY <2>3 DEF Document
      <3>2. config'["verge"] = [data |-> D, draft |-> Merged(c.arg, L)]
        BY <1>1, <1>3, <3>1 DEF Draft, Drafted, Documents, Patched, Data
      <3> QED
        BY <2>1, <2>3, <3>2 DEF Data, Latest
    <2> QED
      BY <2>2, <2>3
  <1>4. CASE Commit(p) \/ Discard(p)
    <2> DEFINE own == {Document(c.kind)} \cup IF c.kind = "switch" THEN {} ELSE {"runtime"}
    <2>1. c.kind = "verge" => "verge" \in own
      BY DEF Document
    <2>2. UNCHANGED disk
      BY <1>4 DEF Commit, Discard, Ends
    <2>3. CASE Commit(p)
      <3>1. s = "commit"
        BY <2>3 DEF Commit, Ends, At
      <3>2. config' = [f \in Documents |-> IF f \in own THEN [g \in Documents |-> Applied(g)][f] ELSE config[f]]
        BY <2>3 DEF Commit, Ends
      <3> HIDE DEF own
      <3>3. config'["verge"] = IF "verge" \in own THEN [data |-> L, draft |-> None] ELSE config["verge"]
        BY <3>2 DEF Documents, Applied
      <3> QED
        BY <2>1, <2>2, <3>1, <3>3 DEF Data, Latest
    <2>4. CASE Discard(p)
      <3>1. s = "discard"
        BY <2>4 DEF Discard, Ends, At
      <3>2. config' = [f \in Documents |-> IF f \in own THEN [g \in Documents |-> Discarded(g)][f] ELSE config[f]]
        BY <2>4 DEF Discard, Ends
      <3> HIDE DEF own
      <3>3. config'["verge"] = IF "verge" \in own THEN Discarded("verge") ELSE config["verge"]
        BY <3>2 DEF Documents
      <3>4. Discarded("verge").data = D /\ Discarded("verge").draft = None
        BY <1>1 DEF Discarded, Settled, Data
      <3> QED
        BY <2>1, <2>2, <3>1, <3>3, <3>4 DEF Data, Latest
    <2> QED
      BY <1>4, <2>3, <2>4
  <1> QED
    BY <1>2, <1>3, <1>4 DEF Stage

LEMMA TailRange ==
  ASSUME NEW S, NEW q \in Seq(S), q # <<>>
  PROVE  Range(q) = {Head(q)} \cup Range(Tail(q))
  <1>1. Len(q) \in Nat /\ Len(q) >= 1 /\ Head(q) = q[1]
    OBVIOUS
  <1>2. Tail(q) \in Seq(S) /\ Len(Tail(q)) = Len(q) - 1 /\ \A j \in 1..(Len(q) - 1) : Tail(q)[j] = q[j + 1]
    OBVIOUS
  <1>3. ASSUME NEW j \in 1..Len(q) PROVE q[j] \in {Head(q)} \cup Range(Tail(q))
    <2>1. CASE j = 1
      BY <1>1, <2>1
    <2>2. CASE j # 1
      <3>1. j - 1 \in 1..(Len(q) - 1) /\ (j - 1) + 1 = j
        BY <1>1, <2>2
      <3> DEFINE k == j - 1
      <3>2. k \in 1..(Len(q) - 1) /\ k + 1 = j
        BY <3>1
      <3> HIDE DEF k
      <3>3. Tail(q)[k] = q[j] /\ k \in DOMAIN Tail(q)
        BY <1>2, <3>2
      <3> QED
        BY <3>3 DEF Range
    <2> QED
      BY <2>1, <2>2
  <1>4. ASSUME NEW j \in 1..(Len(q) - 1) PROVE Tail(q)[j] \in Range(q)
    <2>1. j + 1 \in 1..Len(q) /\ Tail(q)[j] = q[j + 1]
      BY <1>1, <1>2
    <2> QED
      BY <2>1 DEF Range
  <1>5. Head(q) \in Range(q)
    BY <1>1 DEF Range
  <1>6. Range(q) \subseteq {Head(q)} \cup Range(Tail(q))
    BY <1>3 DEF Range
  <1>7. Range(Tail(q)) \subseteq Range(q)
    BY <1>2, <1>4 DEF Range
  <1> QED
    BY <1>5, <1>6, <1>7

\* The commands of the other processes.
LEMMA OthersKeep ==
  ASSUME CmdsOK, NEW p \in Procs, NEW d, Goes(p, d), NEW q \in Procs \ {p}, cmd'[q] # None
  PROVE  /\ cmd[q] # None /\ Left(cmd[q], cmd'[q], cmd[q].todo, cmd[q].tried)
         /\ cmd'[q].rolling = cmd[q].rolling
  <1>1. CASE cmd[q] # None /\ Shared(p, q)
    <2>1. cmd'[q] = Disturbed(cmd[q])
      BY <1>1 DEF Goes
    <2>2. DOMAIN cmd[q] = Fields
      BY <1>1 DEF CmdsOK, CmdOK
    <2> QED
      BY <1>1, <2>1, <2>2, FieldsChange
  <1>2. CASE ~(cmd[q] # None /\ Shared(p, q))
    <2>1. cmd'[q] = cmd[q]
      BY <1>2 DEF Goes
    <2>2. DOMAIN cmd[q] = Fields
      BY <2>1 DEF CmdsOK, CmdOK
    <2> QED
      BY <2>1, <2>2 DEF Left, Same
  <1> QED
    BY <1>1, <1>2

\* A stage of a command that does not patch the settings.
LEMMA VOther ==
  ASSUME NoneIsNoCommand, TInv, NEW changer \in Procs, VInv(changer), NEW p \in Procs, Stage(p),
         cmd[p].kind # "verge"
  PROVE  VInv(changer)'
  <1> DEFINE c == cmd[p]
             s == Head(c.todo)
             D == Data("verge")
             L == Latest("verge")
             e == cmd[changer]
  <1>1. PICK d : Goes(p, d) /\ Continues(c, d)
    BY StagesContinue
  <1>2. CmdOK(c) /\ Fits(c, s) /\ c # None
    BY StagesContinue DEF At
  <1>3. cmd'[p] = d /\ d.kind = c.kind /\ d.kind # "verge"
    BY <1>1 DEF Goes, Continues
  <1>4. \A q \in Procs \ {p} : cmd'[q] # None =>
           /\ cmd[q] # None /\ Left(cmd[q], cmd'[q], cmd[q].todo, cmd[q].tried)
           /\ cmd'[q].rolling = cmd[q].rolling
    BY <1>1, OthersKeep DEF TInv
  <1>5. \A q \in Procs \ {changer} : cmd'[q] # None => cmd'[q].kind # "verge"
    BY <1>3, <1>4 DEF VInv, Left, Same
  <1>6. D \in Verges /\ L \in Verges
    BY DocumentsAre DEF TInv
  <1>7. /\ disk'.verge \in {disk.verge, L}
        /\ \/ Data("verge")' = D /\ Agree(Latest("verge")', L)
           \/ Data("verge")' = L /\ Latest("verge")' = L
           \/ Data("verge")' = D /\ Latest("verge")' = D
    <2>1. CASE s \notin {"draft", "commit", "discard"}
      BY <2>1, StageModes DEF Agree
    <2>2. CASE s = "draft"
      <3>1. CASE c.kind \notin {"verge", "core"}
        BY <2>2, <3>1, StageModes DEF Agree
      <3>2. CASE c.kind \in {"verge", "core"}
        <4>1. DOMAIN c.arg = {"core"}
          BY <1>2, <3>2 DEF CmdOK, IsCommand
        <4>2. Agree(Merged(c.arg, L), L)
          BY <1>6, <4>1, MergedModes DEF Agree
        <4>3. Data("verge")' = D /\ Latest("verge")' \in {Merged(c.arg, L), D} /\ disk'.verge = disk.verge
          BY <2>2, <3>2, StageModes
        <4> QED
          BY <4>2, <4>3
      <3> QED
        BY <3>1, <3>2
    <2>3. CASE s = "commit"
      BY <2>3, StageModes DEF Agree
    <2>4. CASE s = "discard"
      BY <2>4, StageModes DEF Agree
    <2> QED
      BY <2>1, <2>2, <2>3, <2>4
  <1>8. TunNeedsService'
    BY <1>7 DEF VInv, TunNeedsService, Agree
  <1>9. Patching(changer)' => /\ Patching(changer) /\ changer # p
                              /\ Left(e, e', e.todo, e.tried) /\ e'.rolling = e.rolling
    BY <1>3, <1>4 DEF Patching, Left, Same
  <1>10. Patching(changer) => changer # p
    BY DEF Patching
  <1>11. CASE Agreed
    <2>1. Agreed' /\ Agree(Latest("verge")', L)
      BY <1>7, <1>11 DEF Agreed, Agree
    <2>2. ASSUME Patching(changer)' PROVE Phase(e)'
      <3>1. Phase(e) /\ Left(e, e', e.todo, e.tried) /\ e'.rolling = e.rolling
        BY <1>9, <2>2 DEF VInv
      <3>2. e'.todo = e.todo /\ e'.tried = e.tried /\ e'.arg = e.arg
        BY <3>1 DEF Left, Same
      <3>3. Latest("verge")' \in Verges
        <4>1. ConfigOK'
          BY TNext DEF Stage, Next, TInv
        <4> QED
          BY <4>1 DEF ConfigOK, Latest, Settled
      <3>4. Fitting(e.arg, L) => Fitting(e.arg, Latest("verge")')
        <4>1. Agree(L, Latest("verge")')
          BY <2>1 DEF Agree
        <4> QED
          BY <1>6, <3>3, <4>1, FittingAgrees
      <3> HIDE DEF e
      <3> QED
        BY <3>1, <3>2, <3>4 DEF Phase
    <2> QED
      BY <1>5, <1>8, <2>1, <2>2 DEF VInv
  <1>12. CASE ~Agreed
    <2>1. Patching(changer) /\ Pending(e) /\ Phase(e) /\ changer # p
      BY <1>10, <1>12 DEF VInv
    <2>2. e' # None
      <3>1. DOMAIN e = Fields
        BY <2>1 DEF TInv, CmdsOK, CmdOK, Patching
      <3>2. e' \in {e, Disturbed(e)}
        BY <1>1, <2>1 DEF Goes
      <3>3. DOMAIN e' = Fields
        <4>1. ASSUME NEW x, DOMAIN x = Fields PROVE DOMAIN Disturbed(x) = Fields
          BY <4>1, FieldsChange DEF Left, Same
        <4> QED
          BY <3>1, <3>2, <4>1
      <3> QED
        BY <3>3 DEF NoneIsNoCommand
    <2>3. Left(e, e', e.todo, e.tried) /\ e'.rolling = e.rolling
      BY <1>4, <2>1, <2>2
    <2>4. e'.todo = e.todo /\ e'.tried = e.tried /\ e'.arg = e.arg /\ e'.kind = "verge"
      BY <2>1, <2>3 DEF Left, Same, Patching
    <2>5. Patching(changer)' /\ Pending(e)'
      BY <2>1, <2>2, <2>3, <2>4 DEF Patching, Pending
    <2>6. Phase(e)'
      <3>1. e.rolling \/ "draft" \in e.tried
        BY <2>1 DEF Pending
      <3>2. e.rolling \/ {"validate", "draft"} \cap Range(e.todo) = {}
        BY <2>1, <3>1 DEF Phase
      <3> HIDE DEF e
      <3> QED
        BY <2>3, <2>4, <3>1, <3>2 DEF Phase
    <2> QED
      BY <1>5, <1>8, <2>5, <2>6 DEF VInv
  <1> QED
    BY <1>11, <1>12

\* A patch stays in a phase.
LEMMA PhaseKept ==
  ASSUME NEW c, CmdOK(c), c.todo # <<>>, Head(c.todo) \notin {"validate", "draft"}, Phase(c),
         NEW d, c.kind = "verge", Continues(c, d)
  PROVE  d.rolling \/ ("draft" \in d.tried /\ {"validate", "draft"} \cap Range(d.todo) = {})
  <1>1. CASE c.rolling
    BY <1>1 DEF Continues, Going, Failing
  <1>2. CASE ~c.rolling
    <2>1. "draft" \in c.tried /\ {"validate", "draft"} \cap Range(c.todo) = {}
      BY <1>2, VergePlanIs DEF Phase
    <2>2. Range(Tail(c.todo)) \subseteq Range(c.todo)
      BY TailRange DEF CmdOK
    <2> QED
      BY <1>2, <2>1, <2>2 DEF Continues, Going, Failing, Tries
  <1> QED
    BY <1>1, <1>2

\* A stage of a patch of the settings.
LEMMA VOwn ==
  ASSUME NoneIsNoCommand, TInv, NEW changer \in Procs, VInv(changer), Stage(changer), cmd[changer].kind = "verge"
  PROVE  VInv(changer)'
  <1> DEFINE c == cmd[changer]
             s == Head(c.todo)
             a == c.arg
             D == Data("verge")
             L == Latest("verge")
  <1>1. PICK d : Goes(changer, d) /\ Continues(c, d)
    BY StagesContinue
  <1>2. CmdOK(c) /\ Fits(c, s) /\ c # None /\ c.todo # <<>> /\ At(changer, s)
    BY StagesContinue DEF At
  <1>3. cmd'[changer] = d /\ d.kind = "verge" /\ d.arg = a /\ (Going(c, d) \/ Failing(c, d))
    BY <1>1 DEF Goes, Continues
  <1>4. \A q \in Procs \ {changer} : cmd'[q] # None => cmd'[q].kind # "verge"
    BY <1>1, OthersKeep DEF TInv, VInv, Left, Same
  <1>5. D \in Verges /\ L \in Verges
    BY DocumentsAre DEF TInv
  <1>6. Phase(c) /\ (Pending(c) \/ Agreed) /\ TunNeedsService
    BY <1>2 DEF VInv, Patching
  <1>7. Fit(D) /\ Fit(L) /\ Fit(disk.verge)
    BY <1>6 DEF TunNeedsService, Fit
  <1>8. Range(c.todo) = {s} \cup Range(Tail(c.todo))
    BY <1>2, TailRange DEF CmdOK
  <1>9. d # None
    <2>1. DOMAIN d = Fields
      BY <1>1 DEF Continues
    <2> QED
      BY <2>1 DEF NoneIsNoCommand
  <1>10. Patching(changer)' /\ cmd'[changer] = d
    BY <1>3, <1>9 DEF Patching
  <1>11. IsPatch(a, Verges)
    BY <1>2 DEF CmdOK, IsCommand
  <1> SUFFICES /\ Phase(d)'
               /\ Pending(d) \/ Agreed'
               /\ Fit(D') /\ Fit(L') /\ Fit(disk'.verge)
    BY <1>3, <1>4, <1>10 DEF VInv, TunNeedsService, Fit, Pending, Phase, Patching
  <1>12. CASE s \notin {"draft", "commit", "discard"}
    <2>1. D' = D /\ L' = L /\ disk'.verge \in {disk.verge, L}
      BY <1>12, StageModes
    <2>2. Phase(d)'
      <3>1. CASE s # "validate" \/ d.rolling
        <4>1. d.rolling \/ ("draft" \in d.tried /\ {"validate", "draft"} \cap Range(d.todo) = {})
          BY <1>1, <1>2, <1>6, <1>12, <3>1, PhaseKept
        <4> QED
          BY <4>1 DEF Phase
      <3>2. CASE s = "validate" /\ ~d.rolling
        <4>1. ~c.rolling /\ d.todo = Tail(c.todo) /\ d.tried = c.tried \cup {"validate"}
          BY <1>3, <3>2 DEF Going, Failing, Tries
        <4>2. "draft" \notin c.tried /\ c.todo = VergePlan(a)
          BY <1>6, <1>8, <3>2, <4>1, VergePlanIs DEF Phase
        <4>3. Fitting(a, L)
          <5>1. Validate(changer)
            BY <1>2, <3>2 DEF Stage, Validate, Draft, Port, Enhance, Generate, Check, Write, Put,
               Restart, Launch, SetProxy, SetHotkeys, Tray, SetFirewall, PatchRuntime, Save, Commit,
               Discard, Ends, Keep, SaveScript, Fetch, Edit, At
          <5>2. ~Fails(changer)
            <6> SUFFICES ASSUME Fails(changer) PROVE FALSE
              OBVIOUS
            <6>1. PICK b : Goes(changer, b) /\ b.rolling = TRUE
              BY <1>2, FailedIs DEF CmdOK
            <6>2. cmd'[changer] = b
              BY <6>1 DEF Goes
            <6> QED
              BY <1>3, <3>2, <6>1, <6>2
          <5> QED
            BY <5>1, <5>2 DEF Validate, Breaks, Refuses
        <4>4. Fitting(a, L')
          BY <2>1, <4>3
        <4>5. d.todo = Tail(VergePlan(d.arg)) /\ "draft" \notin d.tried
          BY <1>3, <4>1, <4>2
        <4> QED
          BY <1>3, <4>4, <4>5 DEF Phase
      <3> QED
        BY <3>1, <3>2
    <2>3. Pending(d) \/ Agreed'
      <3>1. CASE Agreed
        BY <2>1, <3>1 DEF Agreed
      <3>2. CASE Pending(c)
        <4>1. ~c.rolling /\ "draft" \in c.tried /\ "commit" \in Range(c.todo)
          BY <1>12, <3>2 DEF Pending
        <4>2. CASE Going(c, d)
          BY <1>8, <1>12, <4>1, <4>2 DEF Going, Pending, Tries
        <4>3. CASE Failing(c, d)
          BY <4>1, <4>3 DEF Failing, Pending, Tries
        <4> QED
          BY <1>3, <4>2, <4>3
      <3> QED
        BY <1>6, <3>1, <3>2
    <2> QED
      BY <1>7, <2>1, <2>2, <2>3
  <1>13. CASE s = "draft"
    <2>1. D' = D /\ L' \in {Merged(a, L), D} /\ disk'.verge = disk.verge
      BY <1>13, StageModes
    <2>2. ~c.rolling
      BY <1>2, <1>13 DEF Fits
    <2>3. c.todo = Tail(VergePlan(a)) /\ Fitting(a, L)
      BY <1>6, <1>8, <1>13, <2>2, VergePlanIs DEF Phase
    <2>4. Fit(Merged(a, L))
      BY <1>5, <1>7, <1>11, <2>3, FittingFits
    <2>5. Fit(L')
      BY <1>7, <2>1, <2>4
    <2>6. CASE Going(c, d)
      <3>1. d.todo = Tail(Tail(VergePlan(a))) /\ "draft" \in d.tried /\ ~d.rolling
        BY <1>13, <2>2, <2>3, <2>6 DEF Going, Tries
      <3>2. {"validate", "draft"} \cap Range(d.todo) = {} /\ "commit" \in Range(d.todo)
        BY <3>1, VergePlanIs
      <3> QED
        BY <1>7, <2>1, <2>5, <3>1, <3>2 DEF Phase, Pending
    <2>7. CASE Failing(c, d)
      <3>1. d.rolling /\ d.todo # <<>> /\ Head(d.todo) = "discard"
        BY <1>13, <2>2, <2>7 DEF Failing, Tries
      <3> QED
        BY <1>7, <2>1, <2>5, <3>1 DEF Phase, Pending
    <2> QED
      BY <1>3, <2>6, <2>7
  <1>14. CASE s \in {"commit", "discard"}
    <2>1. D' = L' /\ D' \in {D, L} /\ disk'.verge = disk.verge
      BY <1>14, StageModes
    <2>2. d.rolling \/ ("draft" \in d.tried /\ {"validate", "draft"} \cap Range(d.todo) = {})
      BY <1>1, <1>2, <1>6, <1>14, PhaseKept
    <2> QED
      BY <1>7, <2>1, <2>2 DEF Phase, Agreed, Agree
  <1> QED
    BY <1>12, <1>13, <1>14

LEMMA VInit ==
  ASSUME Init, NEW changer \in Procs
  PROVE  VInv(changer)
  <1> PICK b \in Boots, backedUp \in BOOLEAN :
        LET list == Loaded(b.profiles, backedUp)
            run == Generated(b.verge, b.clash, list, "s0") IN
        /\ config = [f \in Documents |->
                       IF f = "runtime" THEN [data |-> None, draft |-> run]
                       ELSE [data |-> IF f = "profiles" THEN list ELSE b[f], draft |-> None]]
        /\ disk = [verge |-> b.verge, clash |-> b.clash,
                   profiles |-> IF blocked THEN None ELSE list, script |-> "s0", run |-> run]
    BY DEF Init
  <1>1. config["verge"] = [data |-> b.verge, draft |-> None] /\ disk.verge = b.verge
    BY DEF Documents
  <1>2. b.verge.tun => b.verge.service
    BY SettingsAssumption DEF IsBoot
  <1>3. \A q \in Procs : cmd[q] = None
    BY DEF Init
  <1> QED
    BY <1>1, <1>2, <1>3 DEF VInv, Patching, Agreed, Agree, TunNeedsService, Data, Latest

LEMMA VBegin ==
  ASSUME NoneIsNoCommand, TInv, NEW changer \in Procs, VInv(changer), NEW p \in Procs, Begin(p),
         \A q \in Procs \ {changer} : \A c \in Commands[q] : c.kind # "verge"
  PROVE  VInv(changer)'
  <1> PICK c \in Commands[p] :
        cmd' = [cmd EXCEPT ![p] =
              [kind |-> c.kind, arg |-> c.arg, todo |-> Plan(c.kind, c.arg), tried |-> {},
               local |-> None, previous |-> None, rolling |-> FALSE, whole |-> TRUE,
               swallowed |-> FALSE, alone |-> \A q \in Procs \ {p} : cmd[q] = None,
               before |-> [config |-> config, disk |-> disk, core |-> core, proxy |-> proxy,
                           launch |-> launch, hotkeys |-> hotkeys, firewall |-> firewall]]]
    BY DEF Begin
  <1> DEFINE d == cmd'[p]
  <1>1. DOMAIN cmd = Procs /\ cmd[p] = None
    BY DEF TInv, CmdsOK, Begin
  <1>2. d.kind = c.kind /\ d.arg = c.arg /\ d.todo = Plan(c.kind, c.arg) /\ d.tried = {} /\ d.rolling = FALSE
    BY <1>1
  <1>3. \A q \in Procs \ {p} : cmd'[q] = cmd[q]
    BY <1>1
  <1>4. UNCHANGED <<config, disk>>
    BY DEF Begin
  <1>5. Agreed <=> Agreed'
    BY <1>4 DEF Agreed, Agree, Data, Latest
  <1>6. TunNeedsService'
    BY <1>4 DEF VInv, TunNeedsService, Data, Latest
  <1>7. \A q \in Procs \ {changer} : cmd'[q] # None => cmd'[q].kind # "verge"
    BY <1>2, <1>3 DEF VInv
  <1>8. Latest("verge")' = Latest("verge")
    BY <1>4 DEF Latest
  <1> HIDE DEF d
  <1>9. CASE p = changer
    <2>1. Agreed'
      BY <1>1, <1>5, <1>9 DEF VInv, Patching
    <2>2. Patching(changer)' => Phase(cmd[changer])'
      BY <1>2, <1>9 DEF Patching, Phase, Plan, d
    <2> QED
      BY <1>6, <1>7, <2>1, <2>2 DEF VInv
  <1>10. CASE p # changer
    <2>1. cmd'[changer] = cmd[changer]
      BY <1>3, <1>10
    <2> QED
      BY <1>5, <1>6, <1>7, <1>8, <2>1 DEF VInv, Patching, Phase, Pending
  <1> QED
    BY <1>9, <1>10

LEMMA VFinish ==
  ASSUME TInv, NEW changer \in Procs, VInv(changer), NEW p \in Procs, Finish(p)
  PROVE  VInv(changer)'
  <1>1. DOMAIN cmd = Procs
    BY DEF TInv, CmdsOK
  <1>2. cmd[p] # None /\ cmd[p].todo = <<>> /\ cmd'[p] = None /\ \A q \in Procs \ {p} : cmd'[q] = cmd[q]
    BY <1>1 DEF Finish
  <1>3. UNCHANGED <<config, disk>>
    BY DEF Finish
  <1>4. (Agreed <=> Agreed') /\ Latest("verge")' = Latest("verge")
    BY <1>3 DEF Agreed, Agree, Data, Latest
  <1>5. TunNeedsService'
    BY <1>3 DEF VInv, TunNeedsService, Data, Latest
  <1>6. \A q \in Procs \ {changer} : cmd'[q] # None => cmd'[q].kind # "verge"
    BY <1>2 DEF VInv
  <1>7. CASE p = changer
    <2>1. ~Pending(cmd[p])
      BY <1>2 DEF Pending, Range
    <2> QED
      BY <1>2, <1>4, <1>5, <1>6, <1>7, <2>1 DEF VInv, Patching
  <1>8. CASE p # changer
    <2>1. cmd'[changer] = cmd[changer]
      BY <1>2, <1>8
    <2> QED
      BY <1>4, <1>5, <1>6, <2>1 DEF VInv, Patching, Phase, Pending
  <1> QED
    BY <1>7, <1>8

LEMMA VNext ==
  ASSUME NoneIsNoCommand, TInv, NEW changer \in Procs, VInv(changer), [Next]_vars,
         \A q \in Procs \ {changer} : \A c \in Commands[q] : c.kind # "verge"
  PROVE  VInv(changer)'
  <1>1. CASE UNCHANGED vars \/ Recover
    <2>1. UNCHANGED <<config, cmd>> /\ disk'.verge = disk.verge
      BY <1>1 DEF vars, Recover, TInv, DiskOK
    <2>2. (Agreed <=> Agreed') /\ Latest("verge")' = Latest("verge") /\ Data("verge")' = Data("verge")
      BY <2>1 DEF Agreed, Agree, Data, Latest
    <2> QED
      BY <2>1, <2>2 DEF VInv, TunNeedsService, Patching, Phase, Pending
  <1>2. ASSUME NEW p \in Procs, Stage(p) PROVE VInv(changer)'
    <2>1. CASE cmd[p].kind # "verge"
      BY <1>2, <2>1, VOther
    <2>2. CASE cmd[p].kind = "verge"
      <3>1. p = changer
        BY <1>2, <2>2, StagesContinue DEF VInv, At
      <3> QED
        BY <1>2, <2>2, <3>1, VOwn
    <2> QED
      BY <2>1, <2>2
  <1>3. CASE Next
    <2>1. Recover \/ \E p \in Procs : Begin(p) \/ Finish(p) \/ Stage(p)
      BY <1>3 DEF Next, Stage
    <2> QED
      BY <1>1, <1>2, <2>1, VBegin, VFinish
  <1> QED
    BY <1>1, <1>3

\* When one process patches the settings, TUN mode is never set without service
\* mode, in memory or on disk, through failures and rollbacks and whatever the
\* other commands do meanwhile.
THEOREM TunStaysFitting ==
  ASSUME NoneIsNoCommand, NEW changer \in Procs,
         \A q \in Procs \ {changer} : \A c \in Commands[q] : c.kind # "verge"
  PROVE  Spec => []TunNeedsService
  <1>1. VInv(changer) => TunNeedsService
    BY DEF VInv
  <1>2. Init => TInv /\ VInv(changer)
    BY TInit, VInit
  <1>3. TInv /\ VInv(changer) /\ [Next]_vars => TInv' /\ VInv(changer)'
    BY TNext, VNext
  <1> QED
    BY <1>1, <1>2, <1>3, PTL DEF Spec

\* When one process patches the settings, they and the lists of profiles make
\* sense at any time, whatever failed or was rolled back so far.
THEOREM SettingsStaySound ==
  ASSUME NoneIsNoCommand, NEW changer \in Procs,
         \A q \in Procs \ {changer} : \A c \in Commands[q] : c.kind # "verge"
  PROVE  Spec => []SettingsAreSound
  <1>1. Spec => []ProfilesAreSound
    BY ListsStaySound
  <1>2. Spec => []TunNeedsService
    BY TunStaysFitting
  <1>3. ProfilesAreSound /\ TunNeedsService => SettingsAreSound
    BY DEF SettingsAreSound
  <1> QED
    BY <1>1, <1>2, <1>3, PTL

-----------------------------------------------------------------------------
(* A change of the settings is all or nothing.                             *)

Patches == {"verge", "clash", "core"}
Redone == {"proxy", "launch", "hotkeys", "tray", "firewall"}
Generating == {"check", "write", "put", "restart"}
Todo(c) == Range(c.todo)

\* What must be done before stage s of a command of kind k, and what must not.
Needs(k, s, done) ==
    /\ s \in (Redone \ {"firewall"}) \cup {"save", "commit", "restart", "runtime"} => "draft" \in done
    /\ s \in CoreStages /\ k \in Documented => "draft" \in done
    /\ k = "switch" /\ s # "draft" => "draft" \in done
    /\ k = "script" /\ s # "script" => "script" \in done
    /\ s = "commit" => "save" \in done
    /\ s = "generate" => "enhance" \in done
    /\ s \in {"check", "restart", "put"} => "generate" \in done
    /\ s = "write" => "runtime" \in done \/ {"generate", "check"} \subseteq done
    /\ s = "put" => {"check", "write"} \subseteq done /\ k # "core"
    /\ s = "restart" => k \in Patches
    /\ s \in {"draft", "save", "commit"} => k \in Documented
    /\ s = "firewall" => k = "clash"
    /\ s = "hotkeys" => k = "verge"
    /\ k = "script" => s \in {"script", "enhance", "generate", "check", "write", "put"}

Timely(s, done) ==
    /\ "commit" \notin done /\ s \notin {"discard", "restore", "keep"}
    /\ "save" \in done => s = "commit"
    /\ s = "draft" => done \subseteq {"validate", "firewall"}
    /\ s = "script" => done = {}
    /\ s = "firewall" => "draft" \notin done
    /\ s = "edit" => done \subseteq {"fetch"}
    /\ s \in {"generate", "check", "restart", "put"} => "runtime" \notin done

Ready(k, s, done) == Needs(k, s, done) /\ Timely(s, done)

Legal(k, q, done) == \A i \in 1..Len(q) : Ready(k, q[i], done \cup {q[j] : j \in 1..(i - 1)})

LEMMA RangeConcat ==
  ASSUME NEW S, NEW x \in Seq(S), NEW y \in Seq(S)
  PROVE  x \o y \in Seq(S) /\ Range(x \o y) = Range(x) \cup Range(y)
  <1> DEFINE z == x \o y
  <1>1. /\ z \in Seq(S) /\ Len(z) = Len(x) + Len(y) /\ Len(x) \in Nat /\ Len(y) \in Nat
        /\ \A j \in 1..(Len(x) + Len(y)) : z[j] = IF j <= Len(x) THEN x[j] ELSE y[j - Len(x)]
    BY Concatenated
  <1> HIDE DEF z
  <1>2. ASSUME NEW j \in 1..Len(z) PROVE z[j] \in Range(x) \cup Range(y)
    <2>1. CASE j <= Len(x)
      BY <1>1, <2>1 DEF Range
    <2>2. CASE ~(j <= Len(x))
      <3>1. j - Len(x) \in 1..Len(y) /\ z[j] = y[j - Len(x)]
        BY <1>1, <2>2
      <3> QED
        BY <3>1 DEF Range
    <2> QED
      BY <2>1, <2>2
  <1>3. ASSUME NEW j \in 1..Len(x) PROVE x[j] \in Range(z)
    <2>1. j \in 1..Len(z) /\ z[j] = x[j]
      BY <1>1
    <2> QED
      BY <1>1, <2>1 DEF Range
  <1>4. ASSUME NEW j \in 1..Len(y) PROVE y[j] \in Range(z)
    <2> DEFINE i == Len(x) + j
    <2>1. i \in 1..Len(z) /\ ~(i <= Len(x)) /\ i - Len(x) = j
      BY <1>1
    <2>2. z[i] = y[j]
      BY <1>1, <2>1
    <2> HIDE DEF i
    <2> QED
      BY <1>1, <2>1, <2>2 DEF Range
  <1>5. Range(z) \subseteq Range(x) \cup Range(y)
    BY <1>1, <1>2 DEF Range
  <1>6. Range(x) \subseteq Range(z) /\ Range(y) \subseteq Range(z)
    <2>1. Range(x) = {x[j] : j \in 1..Len(x)} /\ Range(y) = {y[j] : j \in 1..Len(y)}
      BY DEF Range
    <2> QED
      BY <1>3, <1>4, <2>1
  <1> QED
    BY <1>1, <1>5, <1>6 DEF z

\* A legal sequence goes on legally after its first stage.
LEMMA LegalTail ==
  ASSUME NEW S, NEW q \in Seq(S), q # <<>>, NEW k, NEW done, Legal(k, q, done)
  PROVE  Ready(k, Head(q), done) /\ Legal(k, Tail(q), done \cup {Head(q)})
  <1>1. Len(q) \in Nat /\ Len(q) >= 1 /\ Head(q) = q[1]
    OBVIOUS
  <1>2. Tail(q) \in Seq(S) /\ Len(Tail(q)) = Len(q) - 1 /\ \A j \in 1..(Len(q) - 1) : Tail(q)[j] = q[j + 1]
    OBVIOUS
  <1>3. Ready(k, Head(q), done)
    <2>0. 1 \in 1..Len(q)
      BY <1>1
    <2>1. Ready(k, q[1], done \cup {q[j] : j \in 1..(1 - 1)})
      BY <2>0, Zenon DEF Legal
    <2>2. done \cup {q[j] : j \in 1..(1 - 1)} = done
      OBVIOUS
    <2> QED
      BY <1>1, <2>1, <2>2
  <1> DEFINE t == Tail(q)
             d == done \cup {Head(q)}
  <1>4. ASSUME NEW i \in 1..Len(t) PROVE Ready(k, t[i], d \cup {t[j] : j \in 1..(i - 1)})
    <2>1. i + 1 \in 1..Len(q) /\ t[i] = q[i + 1] /\ (i + 1) - 1 = i
      BY <1>1, <1>2
    <2>2. Ready(k, q[i + 1], done \cup {q[j] : j \in 1..((i + 1) - 1)})
      BY <2>1 DEF Legal
    <2>3. done \cup {q[j] : j \in 1..((i + 1) - 1)} = d \cup {t[j] : j \in 1..(i - 1)}
      <3>1. ASSUME NEW j \in 1..i PROVE q[j] \in d \cup {t[m] : m \in 1..(i - 1)}
        <4>1. CASE j = 1
          BY <1>1, <4>1
        <4>2. CASE j # 1
          <5>1. j - 1 \in 1..(i - 1) /\ j - 1 \in 1..(Len(q) - 1) /\ (j - 1) + 1 = j
            BY <1>1, <1>2, <4>2
          <5> DEFINE m == j - 1
          <5>2. m \in 1..(i - 1) /\ m \in 1..(Len(q) - 1) /\ m + 1 = j
            BY <5>1
          <5> HIDE DEF m
          <5>3. t[m] = q[j]
            BY <1>2, <5>2
          <5> QED
            BY <5>2, <5>3
        <4> QED
          BY <4>1, <4>2
      <3>2. ASSUME NEW j \in 1..(i - 1) PROVE t[j] \in {q[m] : m \in 1..i}
        <4>1. j + 1 \in 1..i /\ j \in 1..(Len(q) - 1)
          BY <1>1, <1>2
        <4> QED
          BY <1>2, <4>1
      <3>3. Head(q) \in {q[m] : m \in 1..i}
        BY <1>1
      <3>4. (i + 1) - 1 = i
        OBVIOUS
      <3> HIDE DEF t
      <3> QED
        BY <3>1, <3>2, <3>3, <3>4
    <2> HIDE DEF t, d
    <2> QED
      BY <2>1, <2>2, <2>3
  <1> QED
    BY <1>3, <1>4 DEF Legal

LEMMA LegalConcat ==
  ASSUME NEW S, NEW x \in Seq(S), NEW y \in Seq(S), NEW k, NEW done,
         Legal(k, x, done), Legal(k, y, done \cup Range(x))
  PROVE  Legal(k, x \o y, done)
  <1> DEFINE z == x \o y
  <1>1. /\ z \in Seq(S) /\ Len(z) = Len(x) + Len(y) /\ Len(x) \in Nat /\ Len(y) \in Nat
        /\ \A j \in 1..(Len(x) + Len(y)) : z[j] = IF j <= Len(x) THEN x[j] ELSE y[j - Len(x)]
    BY Concatenated
  <1> HIDE DEF z
  <1>2. ASSUME NEW i \in 1..Len(z) PROVE Ready(k, z[i], done \cup {z[j] : j \in 1..(i - 1)})
    <2>1. CASE i <= Len(x)
      <3>1. i \in 1..Len(x) /\ z[i] = x[i]
        BY <1>1, <2>1
      <3>2. {z[j] : j \in 1..(i - 1)} = {x[j] : j \in 1..(i - 1)}
        <4>1. \A j \in 1..(i - 1) : z[j] = x[j]
          BY <1>1, <2>1
        <4> QED
          BY <4>1
      <3>3. Ready(k, x[i], done \cup {x[j] : j \in 1..(i - 1)})
        BY <3>1 DEF Legal
      <3> QED
        BY <3>1, <3>2, <3>3
    <2>2. CASE ~(i <= Len(x))
      <3> DEFINE m == i - Len(x)
      <3>1. m \in 1..Len(y) /\ z[i] = y[m] /\ i = Len(x) + m
        BY <1>1, <2>2
      <3> HIDE DEF m
      <3>2. {z[j] : j \in 1..(i - 1)} = Range(x) \cup {y[j] : j \in 1..(m - 1)}
        <4>1. ASSUME NEW j \in 1..(i - 1) PROVE z[j] \in Range(x) \cup {y[n] : n \in 1..(m - 1)}
          <5>1. CASE j <= Len(x)
            BY <1>1, <5>1 DEF Range
          <5>2. CASE ~(j <= Len(x))
            <6>1. z[j] = y[j - Len(x)] /\ j - Len(x) \in 1..(m - 1)
              BY <1>1, <3>1, <5>2
            <6> QED
              BY <6>1
          <5> QED
            BY <5>1, <5>2
        <4>2. ASSUME NEW j \in 1..Len(x) PROVE x[j] \in {z[n] : n \in 1..(i - 1)}
          <5>1. j \in 1..(i - 1) /\ z[j] = x[j]
            BY <1>1, <3>1
          <5> QED
            BY <5>1
        <4>3. ASSUME NEW j \in 1..(m - 1) PROVE y[j] \in {z[n] : n \in 1..(i - 1)}
          <5> DEFINE n == Len(x) + j
          <5>1. n \in 1..(i - 1) /\ n \in 1..(Len(x) + Len(y)) /\ ~(n <= Len(x)) /\ n - Len(x) = j
            BY <1>1, <3>1
          <5>2. z[n] = y[j]
            BY <1>1, <5>1
          <5> HIDE DEF n
          <5> QED
            BY <5>1, <5>2
        <4>4. Range(x) \subseteq {z[n] : n \in 1..(i - 1)}
          BY <1>1, <4>2 DEF Range
        <4> QED
          BY <4>1, <4>3, <4>4
      <3>3. Ready(k, y[m], (done \cup Range(x)) \cup {y[j] : j \in 1..(m - 1)})
        BY <3>1 DEF Legal
      <3>4. done \cup {z[j] : j \in 1..(i - 1)} = (done \cup Range(x)) \cup {y[j] : j \in 1..(m - 1)}
        BY <3>2
      <3> QED
        BY <3>1, <3>3, <3>4
    <2> QED
      BY <2>1, <2>2
  <1> QED
    BY <1>2 DEF Legal, z

LEMMA LegalOne ==
  ASSUME NEW k, NEW s, NEW done, Ready(k, s, done)
  PROVE  Legal(k, <<s>>, done) /\ Range(<<s>>) = {s}
  <1>1. Len(<<s>>) = 1 /\ <<s>>[1] = s /\ DOMAIN <<s>> = 1..1
    OBVIOUS
  <1>2. ASSUME NEW i \in 1..Len(<<s>>) PROVE Ready(k, <<s>>[i], done \cup {<<s>>[j] : j \in 1..(i - 1)})
    <2>1. i = 1
      BY <1>1
    <2>2. done \cup {<<s>>[j] : j \in 1..(i - 1)} = done
      BY <2>1
    <2> QED
      BY <1>1, <2>1, <2>2
  <1>3. Range(<<s>>) = {s}
    BY <1>1 DEF Range
  <1> QED
    BY <1>2, <1>3 DEF Legal

LEMMA LegalNone ==
  ASSUME NEW k, NEW done
  PROVE  Legal(k, <<>>, done) /\ Range(<<>>) = {}
  BY DEF Legal, Range

\* A legal sequence of stages that consists of those in r.
Planned(k, q, done, r) == q \in Seq(AllStages) /\ Legal(k, q, done) /\ Range(q) = r

LEMMA PlannedMore ==
  ASSUME NEW k, NEW done, NEW x, NEW r, Planned(k, x, done, r),
         NEW y, NEW t, Planned(k, y, done \cup r, t)
  PROVE  Planned(k, x \o y, done, r \cup t)
  <1>1. x \in Seq(AllStages) /\ y \in Seq(AllStages) /\ Range(x) = r /\ Range(y) = t
    BY DEF Planned
  <1>2. x \o y \in Seq(AllStages) /\ Range(x \o y) = r \cup t
    BY <1>1, RangeConcat
  <1>3. Legal(k, x, done) /\ Legal(k, y, done \cup Range(x))
    BY <1>1 DEF Planned
  <1>4. Legal(k, x \o y, done)
    BY <1>1, <1>3, LegalConcat
  <1> QED
    BY <1>2, <1>4 DEF Planned

LEMMA PlannedOne ==
  ASSUME NEW k, NEW done, NEW s \in AllStages, Ready(k, s, done)
  PROVE  Planned(k, <<s>>, done, {s})
  <1>1. <<s>> \in Seq(AllStages)
    OBVIOUS
  <1> QED
    BY <1>1, LegalOne DEF Planned

LEMMA PlannedNext ==
  ASSUME NEW k, NEW done, NEW x, NEW r, Planned(k, x, done, r), NEW s \in AllStages,
         Ready(k, s, done \cup r), NEW t, t = r \cup {s}
  PROVE  Planned(k, x \o <<s>>, done, t)
  BY PlannedOne, PlannedMore

\* The same for a piece of a plan that is there on a condition only.
LEMMA PlannedIf ==
  ASSUME NEW k, NEW done, NEW x, NEW r, Planned(k, x, done, r), NEW s \in AllStages,
         NEW b, b => Ready(k, s, done \cup r)
  PROVE  Planned(k, x \o If(b, <<s>>), done, r \cup IF b THEN {s} ELSE {})
  <1>1. CASE b
    BY <1>1, PlannedNext DEF If
  <1>2. CASE ~b
    <2>1. Planned(k, <<>>, done \cup r, {})
      BY LegalNone DEF Planned
    <2>2. Planned(k, x \o <<>>, done, r \cup {})
      BY <2>1, PlannedMore
    <2> QED
      BY <1>2, <2>2 DEF If
  <1> QED
    BY <1>1, <1>2

\* The pieces of the plans.
LEMMA UpdatingLegal ==
  ASSUME NEW k, NEW done, {"commit", "save", "runtime"} \cap done = {},
         k \in Documented => "draft" \in done, k = "script" => "script" \in done, k # "core"
  PROVE  Planned(k, Updating, done, {"enhance", "generate", "check", "write", "put"})
  <1> DEFINE x1 == <<"enhance">>
             x2 == x1 \o <<"generate">>
             x3 == x2 \o <<"check">>
             x4 == x3 \o <<"write">>
             x5 == x4 \o <<"put">>
  <1>1. Updating = x5
    BY DEF Updating
  <1>2. {"enhance", "generate", "check", "write", "put"} \subseteq AllStages
    BY DEF AllStages, CoreStages
  <1>3. Planned(k, x1, done, {"enhance"})
    <2>1. Ready(k, "enhance", done)
      BY DEF Ready, Needs, Timely, Documented, Redone, Patches, CoreStages
    <2> QED
      BY <1>2, <2>1, PlannedOne
  <1> HIDE DEF x1
  <1>4. Planned(k, x2, done, {"enhance", "generate"})
    <2>1. Ready(k, "generate", done \cup {"enhance"})
      BY DEF Ready, Needs, Timely, Documented, Redone, Patches, CoreStages
    <2> QED
      BY <1>2, <1>3, <2>1, PlannedNext
  <1> HIDE DEF x2
  <1>5. Planned(k, x3, done, {"enhance", "generate", "check"})
    <2>1. Ready(k, "check", done \cup {"enhance", "generate"})
      BY DEF Ready, Needs, Timely, Documented, Redone, Patches, CoreStages
    <2> QED
      BY <1>2, <1>4, <2>1, PlannedNext
  <1> HIDE DEF x3
  <1>6. Planned(k, x4, done, {"enhance", "generate", "check", "write"})
    <2>1. Ready(k, "write", done \cup {"enhance", "generate", "check"})
      BY DEF Ready, Needs, Timely, Documented, Redone, Patches, CoreStages
    <2> QED
      BY <1>2, <1>5, <2>1, PlannedNext
  <1> HIDE DEF x4
  <1>7. Planned(k, x5, done, {"enhance", "generate", "check", "write", "put"})
    <2>1. Ready(k, "put", done \cup {"enhance", "generate", "check", "write"})
      BY DEF Ready, Needs, Timely, Documented, Redone, Patches, CoreStages
    <2> QED
      BY <1>2, <1>6, <2>1, PlannedNext
  <1> QED
    BY <1>1, <1>7

LEMMA RestartingLegal ==
  ASSUME NEW k \in Patches, NEW done, {"commit", "save", "runtime"} \cap done = {}, "draft" \in done
  PROVE  Planned(k, Restarting, done, {"enhance", "generate", "restart"})
  <1> DEFINE x1 == <<"enhance">>
             x2 == x1 \o <<"generate">>
             x3 == x2 \o <<"restart">>
  <1>1. Restarting = x3
    BY DEF Restarting
  <1>2. {"enhance", "generate", "restart"} \subseteq AllStages
    BY DEF AllStages, CoreStages
  <1>3. Planned(k, x1, done, {"enhance"})
    <2>1. Ready(k, "enhance", done)
      BY DEF Ready, Needs, Timely, Documented, Redone, Patches, CoreStages
    <2> QED
      BY <1>2, <2>1, PlannedOne
  <1> HIDE DEF x1
  <1>4. Planned(k, x2, done, {"enhance", "generate"})
    <2>1. Ready(k, "generate", done \cup {"enhance"})
      BY DEF Ready, Needs, Timely, Documented, Redone, Patches, CoreStages
    <2> QED
      BY <1>2, <1>3, <2>1, PlannedNext
  <1> HIDE DEF x2
  <1>5. Planned(k, x3, done, {"enhance", "generate", "restart"})
    <2>1. Ready(k, "restart", done \cup {"enhance", "generate"})
      BY DEF Ready, Needs, Timely, Documented, Redone, Patches, CoreStages
    <2> QED
      BY <1>2, <1>4, <2>1, PlannedNext
  <1> QED
    BY <1>1, <1>5

\* The document is saved, then committed.
LEMMA EndLegal ==
  ASSUME NEW k \in Documented, NEW done, {"commit", "save"} \cap done = {}, "draft" \in done
  PROVE  Planned(k, <<"save", "commit">>, done, {"save", "commit"})
  <1> DEFINE x1 == <<"save">>
             x2 == x1 \o <<"commit">>
  <1>1. <<"save", "commit">> = x2
    OBVIOUS
  <1>2. {"save", "commit"} \subseteq AllStages
    BY DEF AllStages
  <1>3. Planned(k, x1, done, {"save"})
    <2>1. Ready(k, "save", done)
      BY DEF Ready, Needs, Timely, Documented, Redone, Patches, CoreStages
    <2> QED
      BY <1>2, <2>1, PlannedOne
  <1> HIDE DEF x1
  <1>4. Planned(k, x2, done, {"save", "commit"})
    <2>1. Ready(k, "commit", done \cup {"save"})
      BY DEF Ready, Needs, Timely, Documented, Redone, Patches, CoreStages
    <2> QED
      BY <1>2, <1>3, <2>1, PlannedNext
  <1> QED
    BY <1>1, <1>4

\* What the stages of a plan have between them, done or still to do.
Whole(k, all) ==
    /\ k \in Documented => {"save", "commit"} \subseteq all
    /\ k = "core" => "restart" \in all
    /\ k # "core" /\ "check" \in all => "put" \in all
    /\ k = "switch" => "put" \in all
    /\ k = "script" => {"script", "put"} \subseteq all

LEMMA VergeLegal ==
  ASSUME NEW a
  PROVE  \E r : Planned("verge", VergePlan(a), {}, r) /\ Whole("verge", r)
  <1> DEFINE has(k) == k \in DOMAIN a
             k == "verge"
             x == IF has("service") THEN Restarting ELSE If(has("tun"), Updating)
             r1 == <<"validate", "draft">>
             r2 == r1 \o x
             r3 == r2 \o If(has("launch"), <<"launch">>)
             r4 == r3 \o If(has("proxy") \/ has("port"), <<"proxy">>)
             r5 == r4 \o If(has("hotkeys"), <<"hotkeys">>)
             r6 == r5 \o If(has("proxy") \/ has("tun"), <<"tray">>)
             r7 == r6 \o <<"save", "commit">>
  <1>0. VergePlan(a) = r7
    BY DEF VergePlan
  <1>1. {"validate", "draft", "launch", "proxy", "hotkeys", "tray"} \subseteq AllStages
    BY DEF AllStages
  <1>2. Planned(k, r1, {}, {"validate", "draft"})
    <2>1. Planned(k, <<"validate">>, {}, {"validate"})
      <3>1. Ready(k, "validate", {})
        BY DEF Ready, Needs, Timely, Documented, Redone, Patches, CoreStages
      <3> QED
        BY <1>1, <3>1, PlannedOne
    <2>2. Ready(k, "draft", {} \cup {"validate"})
      BY DEF Ready, Needs, Timely, Documented, Redone, Patches, CoreStages
    <2>3. Planned(k, <<"validate">> \o <<"draft">>, {}, {"validate", "draft"})
      BY <1>1, <2>1, <2>2, PlannedNext
    <2>4. r1 = <<"validate">> \o <<"draft">>
      OBVIOUS
    <2> HIDE DEF r1
    <2> QED
      BY <2>3, <2>4
  <1> HIDE DEF r1
  <1>3. PICK u : /\ Planned(k, x, {"validate", "draft"}, u) /\ ("check" \in u => "put" \in u)
                 /\ u \subseteq CoreStages
    <2>1. CASE has("service")
      <3>1. Planned(k, Restarting, {"validate", "draft"}, {"enhance", "generate", "restart"})
        BY RestartingLegal DEF Patches
      <3> QED
        BY <2>1, <3>1 DEF CoreStages
    <2>2. CASE ~has("service") /\ has("tun")
      <3>1. Planned(k, Updating, {"validate", "draft"}, {"enhance", "generate", "check", "write", "put"})
        BY UpdatingLegal
      <3> QED
        BY <2>2, <3>1 DEF CoreStages, If
    <2>3. CASE ~has("service") /\ ~has("tun")
      <3>1. Planned(k, <<>>, {"validate", "draft"}, {})
        BY LegalNone DEF Planned
      <3> QED
        BY <2>3, <3>1 DEF If
    <2> QED
      BY <2>1, <2>2, <2>3
  <1> HIDE DEF x
  <1> DEFINE v2 == {"validate", "draft"} \cup u
             v3 == v2 \cup IF has("launch") THEN {"launch"} ELSE {}
             v4 == v3 \cup IF has("proxy") \/ has("port") THEN {"proxy"} ELSE {}
             v5 == v4 \cup IF has("hotkeys") THEN {"hotkeys"} ELSE {}
             v6 == v5 \cup IF has("proxy") \/ has("tun") THEN {"tray"} ELSE {}
             v7 == v6 \cup {"save", "commit"}
  <1>4. Planned(k, r2, {}, v2)
    <2>1. {} \cup {"validate", "draft"} = {"validate", "draft"}
      OBVIOUS
    <2>2. Planned(k, x, {} \cup {"validate", "draft"}, u)
      BY <1>3, <2>1
    <2> DEFINE w == {"validate", "draft"}
    <2>3. Planned(k, r1, {}, w) /\ Planned(k, x, {} \cup w, u)
      BY <1>2, <2>2
    <2> HIDE DEF w
    <2>4. Planned(k, r1 \o x, {}, w \cup u)
      BY <2>3, PlannedMore
    <2> QED
      BY <2>4 DEF w
  <1> HIDE DEF r2
  <1>5. "draft" \in v2 /\ {"save", "commit"} \cap v2 = {}
    BY <1>3 DEF CoreStages
  <1> HIDE DEF v2
  <1>6. \A s \in {"launch", "proxy", "hotkeys", "tray"} : \A d :
           "draft" \in d /\ {"save", "commit"} \cap d = {} => Ready(k, s, {} \cup d)
    BY DEF Ready, Needs, Timely, Documented, Redone, Patches, CoreStages
  <1>7. Planned(k, r3, {}, v3) /\ "draft" \in v3 /\ {"save", "commit"} \cap v3 = {}
    BY <1>1, <1>4, <1>5, <1>6, PlannedIf
  <1> HIDE DEF r3, v3
  <1>8. Planned(k, r4, {}, v4) /\ "draft" \in v4 /\ {"save", "commit"} \cap v4 = {}
    BY <1>1, <1>7, <1>6, PlannedIf
  <1> HIDE DEF r4, v4
  <1>9. Planned(k, r5, {}, v5) /\ "draft" \in v5 /\ {"save", "commit"} \cap v5 = {}
    BY <1>1, <1>8, <1>6, PlannedIf
  <1> HIDE DEF r5, v5
  <1>10. Planned(k, r6, {}, v6) /\ "draft" \in v6 /\ {"save", "commit"} \cap v6 = {}
    BY <1>1, <1>9, <1>6, PlannedIf
  <1> HIDE DEF r6, v6
  <1>11. Planned(k, r7, {}, v7)
    <2>1. Planned(k, <<"save", "commit">>, {} \cup v6, {"save", "commit"})
      BY <1>10, EndLegal DEF Documented
    <2> QED
      BY <1>10, <2>1, PlannedMore
  <1>12. Whole(k, v7)
    <2>1. "check" \in v7 => "put" \in v7
      BY <1>3 DEF v7, v6, v5, v4, v3, v2
    <2> QED
      BY <2>1 DEF Whole
  <1> QED
    BY <1>0, <1>11, <1>12

LEMMA ClashLegal ==
  ASSUME NEW a
  PROVE  \E r : Planned("clash", ClashPlan(a), {}, r) /\ Whole("clash", r)
  <1> DEFINE has(k) == k \in DOMAIN a
             k == "clash"
             x1 == If(has("port") \/ has("lan"), Restarting)
             x2 == If(has("stack"), Updating)
             r1 == If(has("lan"), <<"firewall">>)
             r2 == r1 \o <<"draft">>
             r3 == r2 \o If(has("port"), <<"port">>)
             r4 == r3 \o x1
             r5 == r4 \o If(has("port"), <<"proxy">>)
             r6 == r5 \o x2
             r7 == r6 \o <<"runtime">>
             r8 == r7 \o If(has("lan") \/ has("log"), <<"write">>)
             r9 == r8 \o <<"save", "commit">>
             v1 == IF has("lan") THEN {"firewall"} ELSE {}
             v2 == v1 \cup {"draft"}
             v3 == v2 \cup IF has("port") THEN {"port"} ELSE {}
             Mid(v) == "draft" \in v /\ {"save", "commit", "runtime"} \cap v = {}
  <1>0. ClashPlan(a) = r9
    BY DEF ClashPlan
  <1>1. {"firewall", "draft", "port", "proxy", "runtime", "write"} \subseteq AllStages
    BY DEF AllStages, CoreStages
  <1>2. Planned(k, r1, {}, v1)
    <2>1. Ready(k, "firewall", {})
      BY DEF Ready, Needs, Timely, Documented, Redone, Patches, CoreStages
    <2>2. CASE has("lan")
      BY <1>1, <2>1, <2>2, PlannedOne DEF If
    <2>3. CASE ~has("lan")
      BY <2>3, LegalNone DEF If, Planned
    <2> QED
      BY <2>2, <2>3
  <1> HIDE DEF r1
  <1>3. Planned(k, r2, {}, v2)
    <2>1. Ready(k, "draft", {} \cup v1)
      BY DEF Ready, Needs, Timely, Documented, Redone, Patches, CoreStages
    <2> QED
      BY <1>1, <1>2, <2>1, PlannedNext
  <1> HIDE DEF r2
  <1>4. Planned(k, r3, {}, v3) /\ Mid(v3)
    <2>1. Ready(k, "port", {} \cup v2)
      BY DEF Ready, Needs, Timely, Documented, Redone, Patches, CoreStages
    <2> HIDE DEF v2
    <2>2. Planned(k, r3, {}, v3)
      BY <1>1, <1>3, <2>1, PlannedIf
    <2> QED
      BY <2>2 DEF v2
  <1> HIDE DEF r3, v3
  <1>5. PICK v4 : Planned(k, r4, {}, v4) /\ Mid(v4) /\ ("check" \in v4 => "check" \in v3) /\ v3 \subseteq v4
    <2>1. CASE has("port") \/ has("lan")
      <3>1. Planned(k, Restarting, {} \cup v3, {"enhance", "generate", "restart"})
        BY <1>4, RestartingLegal DEF Patches
      <3>2. Planned(k, r4, {}, v3 \cup {"enhance", "generate", "restart"})
        BY <1>4, <2>1, <3>1, PlannedMore DEF If
      <3> QED
        BY <1>4, <3>2
    <2>2. CASE ~(has("port") \/ has("lan"))
      <3>1. Planned(k, <<>>, {} \cup v3, {})
        BY LegalNone DEF Planned
      <3>2. Planned(k, r4, {}, v3 \cup {})
        BY <1>4, <2>2, <3>1, PlannedMore DEF If
      <3> QED
        BY <1>4, <3>2
    <2> QED
      BY <2>1, <2>2
  <1> HIDE DEF r4
  <1>6. PICK v5 : Planned(k, r5, {}, v5) /\ Mid(v5) /\ ("check" \in v5 => "check" \in v4)
    <2>1. Ready(k, "proxy", {} \cup v4)
      BY <1>5 DEF Ready, Needs, Timely, Documented, Redone, Patches, CoreStages
    <2> DEFINE v5 == v4 \cup IF has("port") THEN {"proxy"} ELSE {}
    <2>2. Planned(k, r5, {}, v5)
      BY <1>1, <1>5, <2>1, PlannedIf
    <2> QED
      BY <1>5, <2>2
  <1> HIDE DEF r5
  <1>7. PICK v6 : Planned(k, r6, {}, v6) /\ Mid(v6) /\ ("check" \in v6 => "put" \in v6)
    <2>0. "check" \notin v5
      BY <1>5, <1>6 DEF v3, v2, v1
    <2>1. CASE has("stack")
      <3>1. Planned(k, Updating, {} \cup v5, {"enhance", "generate", "check", "write", "put"})
        BY <1>6, UpdatingLegal
      <3>2. Planned(k, r6, {}, v5 \cup {"enhance", "generate", "check", "write", "put"})
        BY <1>6, <2>1, <3>1, PlannedMore DEF If
      <3> QED
        BY <1>6, <3>2
    <2>2. CASE ~has("stack")
      <3>1. Planned(k, <<>>, {} \cup v5, {})
        BY LegalNone DEF Planned
      <3>2. Planned(k, r6, {}, v5 \cup {})
        BY <1>6, <2>2, <3>1, PlannedMore DEF If
      <3> QED
        BY <1>6, <2>0, <3>2
    <2> QED
      BY <2>1, <2>2
  <1> HIDE DEF r6
  <1> DEFINE v7 == v6 \cup {"runtime"}
             v8 == v7 \cup IF has("lan") \/ has("log") THEN {"write"} ELSE {}
             v9 == v8 \cup {"save", "commit"}
  <1>8. Planned(k, r7, {}, v7)
    <2>1. Ready(k, "runtime", {} \cup v6)
      BY <1>7 DEF Ready, Needs, Timely, Documented, Redone, Patches, CoreStages
    <2> QED
      BY <1>1, <1>7, <2>1, PlannedNext
  <1> HIDE DEF r7
  <1>9. Planned(k, r8, {}, v8)
    <2>1. Ready(k, "write", {} \cup v7)
      BY <1>7 DEF Ready, Needs, Timely, Documented, Redone, Patches, CoreStages
    <2> HIDE DEF v7
    <2> QED
      BY <1>1, <1>8, <2>1, PlannedIf
  <1> HIDE DEF r8
  <1>10. Planned(k, r9, {}, v9)
    <2>1. "draft" \in v8 /\ {"save", "commit"} \cap v8 = {}
      BY <1>7
    <2> HIDE DEF v8
    <2>2. Planned(k, <<"save", "commit">>, {} \cup v8, {"save", "commit"})
      BY <2>1, EndLegal DEF Documented
    <2> QED
      BY <1>9, <2>2, PlannedMore
  <1>11. Whole(k, v9)
    BY <1>7 DEF Whole, Documented
  <1> QED
    BY <1>0, <1>10, <1>11

LEMMA CoreLegal == \E r : Planned("core", CorePlan, {}, r) /\ Whole("core", r)
  <1> DEFINE k == "core"
             x1 == <<"draft">>
             x2 == x1 \o <<"enhance">>
             x3 == x2 \o <<"generate">>
             x4 == x3 \o <<"check">>
             x5 == x4 \o <<"restart">>
             x6 == x5 \o <<"save", "commit">>
             v5 == {"draft", "enhance", "generate", "check", "restart"}
  <1>0. CorePlan = x6
    BY DEF CorePlan
  <1>1. {"draft", "enhance", "generate", "check", "restart"} \subseteq AllStages
    BY DEF AllStages, CoreStages
  <1>2. Planned(k, x1, {}, {"draft"})
    <2>1. Ready(k, "draft", {})
      BY DEF Ready, Needs, Timely, Documented, Redone, Patches, CoreStages
    <2> QED
      BY <1>1, <2>1, PlannedOne
  <1> HIDE DEF x1
  <1>3. Planned(k, x2, {}, {"draft", "enhance"})
    <2>1. Ready(k, "enhance", {} \cup {"draft"})
      BY DEF Ready, Needs, Timely, Documented, Redone, Patches, CoreStages
    <2> QED
      BY <1>1, <1>2, <2>1, PlannedNext
  <1> HIDE DEF x2
  <1>4. Planned(k, x3, {}, {"draft", "enhance", "generate"})
    <2>1. Ready(k, "generate", {} \cup {"draft", "enhance"})
      BY DEF Ready, Needs, Timely, Documented, Redone, Patches, CoreStages
    <2> QED
      BY <1>1, <1>3, <2>1, PlannedNext
  <1> HIDE DEF x3
  <1>5. Planned(k, x4, {}, {"draft", "enhance", "generate", "check"})
    <2>1. Ready(k, "check", {} \cup {"draft", "enhance", "generate"})
      BY DEF Ready, Needs, Timely, Documented, Redone, Patches, CoreStages
    <2> QED
      BY <1>1, <1>4, <2>1, PlannedNext
  <1> HIDE DEF x4
  <1>6. Planned(k, x5, {}, v5)
    <2>1. Ready(k, "restart", {} \cup {"draft", "enhance", "generate", "check"})
      BY DEF Ready, Needs, Timely, Documented, Redone, Patches, CoreStages
    <2> QED
      BY <1>1, <1>5, <2>1, PlannedNext
  <1> HIDE DEF x5
  <1>7. Planned(k, <<"save", "commit">>, {} \cup v5, {"save", "commit"})
    BY EndLegal DEF Documented
  <1>8. Whole(k, v5 \cup {"save", "commit"})
    BY DEF Whole, Documented
  <1> HIDE DEF v5
  <1>9. Planned(k, x6, {}, v5 \cup {"save", "commit"})
    BY <1>6, <1>7, PlannedMore
  <1> QED
    BY <1>0, <1>8, <1>9

LEMMA SwitchLegal == \E r : Planned("switch", SwitchPlan, {}, r) /\ Whole("switch", r)
  <1> DEFINE k == "switch"
             x1 == <<"draft">>
             x2 == x1 \o Updating
             x3 == x2 \o <<"save", "commit">>
             v1 == {"draft"}
             v2 == v1 \cup {"enhance", "generate", "check", "write", "put"}
             v3 == v2 \cup {"save", "commit"}
  <1>0. SwitchPlan = x3
    BY DEF SwitchPlan
  <1>1. Planned(k, x1, {}, v1)
    <2>1. Ready(k, "draft", {}) /\ "draft" \in AllStages
      BY DEF Ready, Needs, Timely, Documented, Redone, Patches, CoreStages, AllStages
    <2> QED
      BY <2>1, PlannedOne
  <1>2. Planned(k, Updating, {} \cup v1, {"enhance", "generate", "check", "write", "put"})
    BY UpdatingLegal
  <1>3. Planned(k, <<"save", "commit">>, {} \cup v2, {"save", "commit"})
    BY EndLegal DEF Documented
  <1>4. Whole(k, v3)
    BY DEF Whole, Documented
  <1> HIDE DEF x1, v1
  <1>5. Planned(k, x2, {}, v2)
    BY <1>1, <1>2, PlannedMore
  <1> HIDE DEF x2, v2
  <1>6. Planned(k, x3, {}, v3)
    BY <1>3, <1>5, PlannedMore
  <1> QED
    BY <1>0, <1>4, <1>6

LEMMA ScriptLegal ==
  \E r : Planned("script", <<"script">> \o Updating, {}, r) /\ Whole("script", r)
  <1> DEFINE k == "script"
             x1 == <<"script">>
             v1 == {"script"}
             v2 == v1 \cup {"enhance", "generate", "check", "write", "put"}
  <1>1. Planned(k, x1, {}, v1)
    <2>1. Ready(k, "script", {}) /\ "script" \in AllStages
      BY DEF Ready, Needs, Timely, Documented, Redone, Patches, CoreStages, AllStages
    <2> QED
      BY <2>1, PlannedOne
  <1>2. Planned(k, Updating, {} \cup v1, {"enhance", "generate", "check", "write", "put"})
    BY UpdatingLegal DEF Documented
  <1>3. Whole(k, v2)
    BY DEF Whole, Documented
  <1> HIDE DEF x1, v1
  <1>4. Planned(k, x1 \o Updating, {}, v2)
    BY <1>1, <1>2, PlannedMore
  <1> QED
    BY <1>3, <1>4 DEF x1

LEMMA EditLegal ==
  ASSUME NEW a
  PROVE  \E r : Planned("edit", EditPlan(a), {}, r) /\ Whole("edit", r)
  <1> DEFINE k == "edit"
             x1 == If(a.op \in Downloads, <<"fetch">>)
             x2 == x1 \o <<"edit">>
             v1 == IF a.op \in Downloads THEN {"fetch"} ELSE {}
             v2 == v1 \cup {"edit"}
  <1>0. EditPlan(a) = x2
    BY DEF EditPlan
  <1>1. "fetch" \in AllStages /\ "edit" \in AllStages
    BY DEF AllStages
  <1>2. Planned(k, x1, {}, v1)
    <2>1. Ready(k, "fetch", {})
      BY DEF Ready, Needs, Timely, Documented, Redone, Patches, CoreStages
    <2>2. CASE a.op \in Downloads
      BY <1>1, <2>1, <2>2, PlannedOne DEF If
    <2>3. CASE a.op \notin Downloads
      BY <2>3, LegalNone DEF If, Planned
    <2> QED
      BY <2>2, <2>3
  <1>3. Whole(k, v2)
    BY DEF Whole, Documented
  <1> HIDE DEF x1
  <1>4. Planned(k, x2, {}, v2)
    <2>1. Ready(k, "edit", {} \cup v1)
      BY DEF Ready, Needs, Timely, Documented, Redone, Patches, CoreStages
    <2> HIDE DEF v1
    <2> QED
      BY <1>1, <1>2, <2>1, PlannedNext
  <1> QED
    BY <1>0, <1>3, <1>4

\* Every plan is legal and whole.
LEMMA PlanLegal ==
  ASSUME NEW k \in Kinds, NEW a
  PROVE  \E r : Planned(k, Plan(k, a), {}, r) /\ Whole(k, r)
  <1>1. CASE k = "verge"
    BY <1>1, VergeLegal DEF Plan
  <1>2. CASE k = "clash"
    BY <1>2, ClashLegal DEF Plan
  <1>3. CASE k = "core"
    BY <1>3, CoreLegal DEF Plan
  <1>4. CASE k = "switch"
    BY <1>4, SwitchLegal DEF Plan
  <1>5. CASE k = "script"
    BY <1>5, ScriptLegal DEF Plan
  <1>6. CASE k = "edit"
    BY <1>6, EditLegal DEF Plan
  <1>7. CASE k = "enhance"
    <2> DEFINE v == {"enhance", "generate", "check", "write", "put"}
    <2>1. Planned(k, Updating, {}, v)
      BY <1>7, UpdatingLegal DEF Documented
    <2>2. Whole(k, v)
      BY <1>7 DEF Whole, Documented
    <2>3. Plan(k, a) = Updating
      BY <1>7 DEF Plan
    <2> QED
      BY <2>1, <2>2, <2>3
  <1> QED
    BY <1>1, <1>2, <1>3, <1>4, <1>5, <1>6, <1>7 DEF Kinds

-----------------------------------------------------------------------------
(* Rollbacks.                                                              *)

\* What must still come after s in a rollback, and must not.
Then(s, rest) ==
    /\ s \notin rest /\ {"discard", "restore"} \cap rest = {}
    /\ s \in {"discard", "restore"} /\ rest \cap (Generating \cup {"generate"}) # {}
         => {"enhance", "generate"} \subseteq rest
    /\ s \in {"discard", "restore"} /\ "put" \in rest => "write" \in rest
    /\ s = "generate" => "enhance" \notin rest
    /\ s \in Generating => {"enhance", "generate"} \cap rest = {}
    /\ s = "put" => "write" \notin rest

Undoing(q) == \A i \in 1..Len(q) : Then(q[i], {q[j] : j \in (i + 1)..Len(q)})

\* A sequence that consists of s and a rollback q.
LEMMA UndoingMore ==
  ASSUME NEW S, NEW q \in Seq(S), Undoing(q), NEW s \in S, Then(s, Range(q))
  PROVE  Undoing(<<s>> \o q)
  <1> DEFINE z == <<s>> \o q
             x == <<s>>
  <1>0. x \in Seq(S) /\ Len(x) = 1 /\ x[1] = s
    OBVIOUS
  <1> HIDE DEF x
  <1>1. /\ z \in Seq(S) /\ Len(z) = Len(q) + 1 /\ Len(q) \in Nat
        /\ z[1] = s /\ \A j \in 1..Len(q) : z[j + 1] = q[j]
    <2>0. /\ x \o q \in Seq(S) /\ Len(x \o q) = Len(x) + Len(q) /\ Len(q) \in Nat
          /\ \A j \in 1..(Len(x) + Len(q)) :
               (x \o q)[j] = IF j <= Len(x) THEN x[j] ELSE q[j - Len(x)]
      <3>1. x \in Seq(S) /\ q \in Seq(S) /\ Len(q) \in Nat
        BY <1>0
      <3> QED
        BY <3>1, Concatenated
    <2>1. /\ x \o q \in Seq(S) /\ Len(x \o q) = 1 + Len(q) /\ Len(q) \in Nat
          /\ \A j \in 1..(1 + Len(q)) : (x \o q)[j] = IF j <= 1 THEN x[j] ELSE q[j - 1]
      BY <1>0, <2>0
    <2>2. ASSUME NEW j \in 1..Len(q) PROVE (x \o q)[j + 1] = q[j]
      <3>1. j + 1 \in 1..(1 + Len(q)) /\ ~(j + 1 <= 1) /\ (j + 1) - 1 = j
        BY <2>1
      <3> QED
        BY <2>1, <3>1
    <2>3. (x \o q)[1] = s
      BY <1>0, <2>1
    <2> QED
      BY <2>1, <2>2, <2>3 DEF x
  <1> HIDE DEF z
  <1>2. ASSUME NEW i \in 1..Len(z) PROVE Then(z[i], {z[j] : j \in (i + 1)..Len(z)})
    <2>1. CASE i = 1
      <3>1. {z[j] : j \in (i + 1)..Len(z)} = Range(q)
        <4>1. Range(q) = {q[j] : j \in 1..Len(q)}
          BY DEF Range
        <4>2. ASSUME NEW j \in 2..Len(z) PROVE z[j] \in Range(q)
          <5> DEFINE m == j - 1
          <5>1. m \in 1..Len(q) /\ m + 1 = j
            BY <1>1
          <5> HIDE DEF m
          <5> QED
            BY <1>1, <4>1, <5>1
        <4>3. ASSUME NEW j \in 1..Len(q) PROVE q[j] \in {z[m] : m \in 2..Len(z)}
          <5>1. j + 1 \in 2..Len(z)
            BY <1>1
          <5> QED
            BY <1>1, <5>1
        <4> QED
          BY <2>1, <4>1, <4>2, <4>3
      <3> QED
        BY <1>1, <2>1, <3>1
    <2>2. CASE i # 1
      <3> DEFINE n == i - 1
      <3>1. n \in 1..Len(q) /\ n + 1 = i
        BY <1>1, <2>2
      <3> HIDE DEF n
      <3>2. Then(q[n], {q[j] : j \in (n + 1)..Len(q)}) /\ z[i] = q[n]
        BY <1>1, <3>1 DEF Undoing
      <3>3. {z[j] : j \in (i + 1)..Len(z)} = {q[j] : j \in (n + 1)..Len(q)}
        <4>1. ASSUME NEW j \in (i + 1)..Len(z) PROVE z[j] \in {q[m] : m \in (n + 1)..Len(q)}
          <5> DEFINE m == j - 1
          <5>1. m \in 1..Len(q) /\ m + 1 = j /\ m \in (n + 1)..Len(q)
            BY <1>1, <3>1
          <5> HIDE DEF m
          <5> QED
            BY <1>1, <5>1
        <4>2. ASSUME NEW j \in (n + 1)..Len(q) PROVE q[j] \in {z[m] : m \in (i + 1)..Len(z)}
          <5>1. j + 1 \in (i + 1)..Len(z) /\ j \in 1..Len(q)
            BY <1>1, <3>1
          <5> QED
            BY <1>1, <5>1
        <4> QED
          BY <4>1, <4>2
      <3> QED
        BY <3>2, <3>3
    <2> QED
      BY <2>1, <2>2
  <1> QED
    BY <1>2 DEF Undoing, z

\* What remains of a rollback after a stage.
LEMMA UndoingTail ==
  ASSUME NEW S, NEW q \in Seq(S), q # <<>>, Undoing(q)
  PROVE  Then(Head(q), Range(Tail(q))) /\ Undoing(Tail(q)) /\ Range(q) = {Head(q)} \cup Range(Tail(q))
  <1> DEFINE t == Tail(q)
  <1>1. Len(q) \in Nat /\ Len(q) >= 1 /\ Head(q) = q[1]
    OBVIOUS
  <1>2. t \in Seq(S) /\ Len(t) = Len(q) - 1 /\ \A j \in 1..(Len(q) - 1) : t[j] = q[j + 1]
    OBVIOUS
  <1> HIDE DEF t
  <1>3. ASSUME NEW i \in 0..Len(t)
        PROVE  {q[j] : j \in (i + 2)..Len(q)} = {t[j] : j \in (i + 1)..Len(t)}
    <2>1. ASSUME NEW j \in (i + 2)..Len(q) PROVE q[j] \in {t[m] : m \in (i + 1)..Len(t)}
      <3> DEFINE m == j - 1
      <3>1. m \in (i + 1)..Len(t) /\ m \in 1..(Len(q) - 1) /\ m + 1 = j
        BY <1>1, <1>2
      <3> HIDE DEF m
      <3> QED
        BY <1>2, <3>1
    <2>2. ASSUME NEW j \in (i + 1)..Len(t) PROVE t[j] \in {q[m] : m \in (i + 2)..Len(q)}
      <3>1. j + 1 \in (i + 2)..Len(q) /\ j \in 1..(Len(q) - 1)
        BY <1>1, <1>2
      <3> QED
        BY <1>2, <3>1
    <2> QED
      BY <2>1, <2>2
  <1>4. Then(q[1], {q[j] : j \in 2..Len(q)})
    <2>1. 1 \in 1..Len(q) /\ 1 + 1 = 2
      BY <1>1
    <2>2. Then(q[1], {q[j] : j \in (1 + 1)..Len(q)})
      BY <2>1, Zenon DEF Undoing
    <2> QED
      BY <2>1, <2>2
  <1>5. {q[j] : j \in 2..Len(q)} = Range(t)
    <2>1. 0 \in 0..Len(t) /\ 0 + 2 = 2 /\ 0 + 1 = 1
      BY <1>1, <1>2
    <2>2. {q[j] : j \in (0 + 2)..Len(q)} = {t[j] : j \in (0 + 1)..Len(t)}
      BY <1>3, <2>1, Zenon
    <2>3. Range(t) = {t[j] : j \in 1..Len(t)}
      BY <1>2 DEF Range
    <2> QED
      BY <2>1, <2>2, <2>3
  <1>6. ASSUME NEW i \in 1..Len(t) PROVE Then(t[i], {t[j] : j \in (i + 1)..Len(t)})
    <2> DEFINE n == i + 1
    <2>1. n \in 1..Len(q) /\ t[i] = q[n] /\ n + 1 = i + 2 /\ i \in 0..Len(t)
      BY <1>1, <1>2
    <2>2. Then(q[n], {q[j] : j \in (n + 1)..Len(q)})
      <3> HIDE DEF n
      <3> QED
        BY <2>1 DEF Undoing
    <2>3. {q[j] : j \in (i + 2)..Len(q)} = {t[j] : j \in (i + 1)..Len(t)}
      BY <1>3, <2>1
    <2> HIDE DEF n
    <2> QED
      BY <2>1, <2>2, <2>3
  <1>7. Range(q) = {Head(q)} \cup Range(t)
    BY TailRange DEF t
  <1> QED
    BY <1>1, <1>4, <1>5, <1>6, <1>7 DEF Undoing, t

\* A rollback that consists of the stages in r.
Undone(q, r) == q \in Seq(AllStages) /\ Undoing(q) /\ Range(q) = r

LEMMA UndoneNone == Undone(<<>>, {})
  BY DEF Undone, Undoing, Range

LEMMA UndoneMore ==
  ASSUME NEW q, NEW r, Undone(q, r), NEW s \in AllStages, Then(s, r), NEW t, t = r \cup {s}
  PROVE  Undone(<<s>> \o q, t)
  <1> DEFINE S == AllStages
             x == <<s>>
  <1>1. q \in Seq(S) /\ Undoing(q) /\ Range(q) = r /\ x \in Seq(S) /\ s \in S
    BY DEF Undone
  <1>2. Range(x) = {s}
    BY DEF Range
  <1> HIDE DEF S
  <1>3. Undoing(x \o q)
    BY <1>1, UndoingMore
  <1> HIDE DEF x
  <1>4. x \o q \in Seq(S) /\ Range(x \o q) = {s} \cup r
    BY <1>1, <1>2, RangeConcat
  <1> QED
    BY <1>3, <1>4 DEF Undone, x, S

\* An effect may be taken back after anything else.
LEMMA UndoneAgain ==
  ASSUME NEW q, NEW r, Undone(q, r), NEW s \in Redone, s \notin r, NEW a
  PROVE  Undone(q \o Again(a, s), r \cup (a.tried \cap {s}))
  <1>1. q \in Seq(AllStages) /\ Undoing(q) /\ Range(q) = r /\ s \in AllStages
    BY DEF Undone, Redone, AllStages
  <1>2. CASE s \notin a.tried
    <2>1. Again(a, s) = <<>>
      BY <1>2 DEF Again, If
    <2>2. q \o <<>> = q
      BY <1>1
    <2> QED
      BY <1>2, <2>1, <2>2
  <1>3. CASE s \in a.tried
    <2> DEFINE S == AllStages
               y == <<s>>
               z == q \o y
    <2>1. Again(a, s) = y
      BY <1>3 DEF Again, If
    <2>2. /\ y \in Seq(S) /\ Len(y) = 1 /\ y[1] = s /\ Range(y) = {s}
          /\ q \in Seq(S) /\ Range(q) = r
      BY <1>1 DEF Range
    <2> HIDE DEF y, S
    <2>3. /\ z \in Seq(S) /\ Len(z) = Len(q) + Len(y) /\ Len(q) \in Nat
          /\ \A j \in 1..(Len(q) + Len(y)) : z[j] = IF j <= Len(q) THEN q[j] ELSE y[j - Len(q)]
      <3>1. y \in Seq(S) /\ q \in Seq(S) /\ Len(q) \in Nat
        BY <2>2
      <3> QED
        BY <3>1, Concatenated
    <2>4. Range(z) = r \cup {s}
      BY <2>2, RangeConcat
    <2> HIDE DEF z
    <2>5. Len(z) = Len(q) + 1 /\ z[Len(q) + 1] = s /\ \A j \in 1..Len(q) : z[j] = q[j]
      BY <2>2, <2>3
    <2>6. ASSUME NEW i \in 1..Len(z) PROVE Then(z[i], {z[j] : j \in (i + 1)..Len(z)})
      <3>1. CASE i = Len(q) + 1
        <4>1. {z[j] : j \in (i + 1)..Len(z)} = {}
          BY <2>3, <2>5, <3>1
        <4> QED
          BY <2>5, <3>1, <4>1 DEF Then, Redone, Generating
      <3>2. CASE i # Len(q) + 1
        <4> DEFINE rest == {q[j] : j \in (i + 1)..Len(q)}
        <4>1. i \in 1..Len(q) /\ z[i] = q[i]
          BY <2>3, <2>5, <3>2
        <4>2. Then(q[i], rest)
          BY <1>1, <4>1 DEF Undoing
        <4>6. q[i] \in r
          <5>1. DOMAIN q = 1..Len(q)
            BY <2>2
          <5> QED
            BY <1>1, <4>1, <5>1 DEF Range
        <4>3. {z[j] : j \in (i + 1)..Len(z)} = rest \cup {s}
          <5>1. ASSUME NEW j \in (i + 1)..Len(z) PROVE z[j] \in rest \cup {s}
            <6>1. CASE j = Len(q) + 1
              BY <2>5, <6>1
            <6>2. CASE j # Len(q) + 1
              <7>1. j \in (i + 1)..Len(q) /\ j \in 1..Len(q)
                BY <2>3, <2>5, <6>2
              <7> QED
                BY <2>5, <7>1
            <6> QED
              BY <6>1, <6>2
          <5>2. ASSUME NEW j \in (i + 1)..Len(q) PROVE q[j] \in {z[m] : m \in (i + 1)..Len(z)}
            <6>1. j \in 1..Len(q) /\ j \in (i + 1)..Len(z)
              BY <2>3, <2>5
            <6> QED
              BY <2>5, <6>1
          <5>3. Len(q) + 1 \in (i + 1)..Len(z)
            BY <2>3, <2>5, <4>1
          <5>4. s \in {z[m] : m \in (i + 1)..Len(z)}
            BY <2>5, <5>3
          <5> QED
            BY <5>1, <5>2, <5>4
        <4> HIDE DEF rest
        <4>4. q[i] # s
          BY <4>6
        <4>5. Then(q[i], rest \cup {s})
          BY <4>2, <4>4 DEF Then, Redone, Generating
        <4> QED
          BY <4>1, <4>3, <4>5
      <3> QED
        BY <3>1, <3>2
    <2>7. Undoing(z)
      BY <2>6 DEF Undoing
    <2>8. r \cup (a.tried \cap {s}) = r \cup {s}
      BY <1>3
    <2> QED
      BY <2>1, <2>3, <2>4, <2>7, <2>8 DEF Undone, z, S
  <1> QED
    BY <1>2, <1>3

\* The stages that bring the core back, and all of a rollback's.
UndoCore(k, done) ==
    IF "restart" \in done THEN {"enhance", "generate", "restart", "keep"}
    ELSE IF "check" \in done /\ k # "core" THEN {"enhance", "generate", "check", "write", "put", "keep"}
    ELSE IF "write" \in done THEN {"enhance", "generate", "write", "keep"} ELSE {}

Undo(k, done) ==
    IF k = "switch" THEN {"discard"}
    ELSE IF k = "script" THEN IF done = {"script"} THEN {}
                              ELSE {"restore", "enhance", "generate", "check", "write", "put"}
    ELSE IF "draft" \in done THEN {"discard"} \cup UndoCore(k, done) \cup (done \cap Redone) ELSE {}

LEMMA UndoneOne ==
  ASSUME NEW s \in AllStages
  PROVE  Undone(<<s>>, {s})
  <1> DEFINE x == <<s>>
  <1>1. x \in Seq(AllStages) /\ Len(x) = 1 /\ Range(x) = {s}
    BY DEF Range
  <1>2. Then(x[1], {x[j] : j \in (1 + 1)..Len(x)})
    <2>1. {x[j] : j \in (1 + 1)..Len(x)} = {}
      BY <1>1
    <2> HIDE DEF x
    <2> QED
      BY <2>1 DEF Then, Generating
  <1> HIDE DEF x
  <1>3. Undoing(x)
    BY <1>1, <1>2 DEF Undoing
  <1> QED
    BY <1>1, <1>3 DEF Undone, x

LEMMA UpdatingUndone ==
  /\ Undone(Updating, {"enhance", "generate", "check", "write", "put"})
  /\ Undone(Updating \o <<"keep">>, {"enhance", "generate", "check", "write", "put", "keep"})
  <1> DEFINE e == {"enhance", "generate", "check", "write"}
  <1>0. e \cup {"put", "keep"} \subseteq AllStages
    BY DEF AllStages, CoreStages
  <1>1. ASSUME NEW q, NEW r, Undone(q, r), r \subseteq {"put", "keep"}
        PROVE  Undone(<<"enhance">> \o (<<"generate">> \o (<<"check">> \o (<<"write">> \o q))), r \cup e)
    <2> DEFINE q2 == <<"write">> \o q
               q3 == <<"check">> \o q2
               q4 == <<"generate">> \o q3
               q5 == <<"enhance">> \o q4
               r2 == r \cup {"write"}
               r3 == r2 \cup {"check"}
               r4 == r3 \cup {"generate"}
               r5 == r4 \cup {"enhance"}
    <2>1. Then("write", r) /\ Then("check", r2) /\ Then("generate", r3) /\ Then("enhance", r4)
      BY <1>1 DEF Then, Generating
    <2>2. r5 = r \cup e
      OBVIOUS
    <2> HIDE DEF r2, r3, r4, r5
    <2>4. Undone(q2, r2)
      BY <1>0, <1>1, <2>1, UndoneMore DEF r2
    <2> HIDE DEF q2
    <2>5. Undone(q3, r3)
      BY <1>0, <2>1, <2>4, UndoneMore DEF r3
    <2> HIDE DEF q3
    <2>6. Undone(q4, r4)
      BY <1>0, <2>1, <2>5, UndoneMore DEF r4
    <2> HIDE DEF q4
    <2>7. Undone(q5, r5)
      BY <1>0, <2>1, <2>6, UndoneMore DEF r5
    <2> HIDE DEF q5, e
    <2>8. Undone(q5, r \cup e)
      BY <2>2, <2>7
    <2> QED
      BY <2>8, Zenon DEF q5, q4, q3, q2
  <1>2. Undone(<<"put">>, {"put"})
    BY <1>0, UndoneOne
  <1>3. Undone(<<"put">> \o <<"keep">>, {"put", "keep"})
    <2>1. Then("put", {"keep"}) /\ {"put", "keep"} = {"keep"} \cup {"put"}
      BY DEF Then, Generating
    <2> QED
      BY <1>0, <2>1, UndoneOne, UndoneMore
  <1>5. Undone(<<"enhance">> \o (<<"generate">> \o (<<"check">> \o (<<"write">> \o <<"put">>))), {"put"} \cup e)
    <2> HIDE DEF e
    <2> QED
      BY <1>1, <1>2
  <1>6. Undone(<<"enhance">> \o (<<"generate">> \o (<<"check">> \o (<<"write">> \o (<<"put">> \o <<"keep">>)))), {"put", "keep"} \cup e)
    <2> HIDE DEF e
    <2> QED
      BY <1>1, <1>3
  <1>7. Updating = <<"enhance">> \o (<<"generate">> \o (<<"check">> \o (<<"write">> \o <<"put">>)))
    BY DEF Updating
  <1>8. <<"enhance">> \o (<<"generate">> \o (<<"check">> \o (<<"write">> \o (<<"put">> \o <<"keep">>)))) = Updating \o <<"keep">>
    BY DEF Updating
  <1>9. /\ {"put", "keep"} \cup e = {"enhance", "generate", "check", "write", "put", "keep"}
        /\ {"put"} \cup e = {"enhance", "generate", "check", "write", "put"}
    OBVIOUS
  <1> QED
    BY <1>5, <1>6, <1>7, <1>8, <1>9

LEMMA RestartingUndone ==
  /\ Undone(Restarting \o <<"keep">>, {"enhance", "generate", "restart", "keep"})
  /\ Undone(<<"enhance", "generate", "write", "keep">>, {"enhance", "generate", "write", "keep"})
  <1>0. {"enhance", "generate", "write", "restart", "keep"} \subseteq AllStages
    BY DEF AllStages, CoreStages
  <1>1. Undone(<<"keep">>, {"keep"})
    BY <1>0, UndoneOne
  <1>2. ASSUME NEW s \in {"write", "restart"}
        PROVE  Undone(<<"enhance">> \o (<<"generate">> \o (<<s>> \o <<"keep">>)), {"enhance", "generate", s, "keep"})
    <2> DEFINE q1 == <<s>> \o <<"keep">>
               q2 == <<"generate">> \o q1
               q3 == <<"enhance">> \o q2
               r1 == {s, "keep"}
               r2 == {"generate", s, "keep"}
               r3 == {"enhance", "generate", s, "keep"}
    <2>1. /\ Then(s, {"keep"}) /\ Then("generate", r1) /\ Then("enhance", r2)
          /\ r1 = {"keep"} \cup {s} /\ r2 = r1 \cup {"generate"} /\ r3 = r2 \cup {"enhance"}
      BY DEF Then, Generating
    <2> HIDE DEF r1, r2, r3
    <2>2. Undone(q1, r1)
      BY <1>0, <1>1, <2>1, UndoneMore
    <2> HIDE DEF q1
    <2>3. Undone(q2, r2)
      BY <1>0, <2>1, <2>2, UndoneMore
    <2> HIDE DEF q2
    <2>4. Undone(q3, r3)
      BY <1>0, <2>1, <2>3, UndoneMore
    <2> QED
      BY <2>4 DEF q3, q2, q1, r3
  <1>3. <<"enhance">> \o (<<"generate">> \o (<<"restart">> \o <<"keep">>)) = Restarting \o <<"keep">>
    BY DEF Restarting
  <1>4. <<"enhance", "generate", "write", "keep">> = <<"enhance">> \o (<<"generate">> \o (<<"write">> \o <<"keep">>))
    OBVIOUS
  <1>5. Undone(Restarting \o <<"keep">>, {"enhance", "generate", "restart", "keep"})
    <2>1. "restart" \in {"write", "restart"}
      OBVIOUS
    <2> QED
      BY <1>2, <1>3, <2>1
  <1>6. Undone(<<"enhance", "generate", "write", "keep">>, {"enhance", "generate", "write", "keep"})
    <2>1. "write" \in {"write", "restart"}
      OBVIOUS
    <2> QED
      BY <1>2, <1>4, <2>1
  <1> QED
    BY <1>5, <1>6

\* What a rollback consists of.
LEMMA RollbackUndoes ==
  ASSUME NEW a, a.kind \in Kinds
  PROVE  Undone(Rollback(a), Undo(a.kind, a.tried))
  <1>0. {"discard", "restore"} \subseteq AllStages
    BY DEF AllStages
  <1>1. CASE a.kind = "switch"
    <2>2. Undone(<<"discard">>, {"discard"})
      BY <1>0, UndoneOne
    <2>3. Rollback(a) = <<"discard">> /\ Undo(a.kind, a.tried) = {"discard"}
      BY <1>1 DEF Rollback, Undo
    <2> QED
      BY <2>2, <2>3
  <1>2. CASE a.kind = "script"
    <2>1. CASE a.tried = {"script"}
      BY <1>2, <2>1, UndoneNone DEF Rollback, Undo, If
    <2>2. CASE a.tried # {"script"}
      <3> DEFINE e == {"enhance", "generate", "check", "write", "put"}
                 f == {"restore", "enhance", "generate", "check", "write", "put"}
      <3>1. Then("restore", e) /\ f = e \cup {"restore"}
        BY DEF Then, Generating
      <3>2. Rollback(a) = <<"restore">> \o Updating /\ Undo(a.kind, a.tried) = f
        BY <1>2, <2>2 DEF Rollback, Undo, If
      <3>3. Undone(Updating, e)
        BY UpdatingUndone
      <3> HIDE DEF e, f
      <3> QED
        BY <1>0, <3>1, <3>2, <3>3, UndoneMore
    <2> QED
      BY <2>1, <2>2
  <1>3. CASE a.kind \notin {"switch", "script"} /\ "draft" \notin a.tried
    BY <1>3, UndoneNone DEF Rollback, Undo
  <1>4. CASE a.kind \notin {"switch", "script"} /\ "draft" \in a.tried
    <2> DEFINE C == UndoCore(a.kind, a.tried)
               q1 == <<"discard">> \o CoreRollback(a)
               q2 == q1 \o Again(a, "proxy")
               q3 == q2 \o Again(a, "launch")
               q4 == q3 \o Again(a, "hotkeys")
               q5 == q4 \o Again(a, "tray")
               q6 == q5 \o Again(a, "firewall")
               r1 == C \cup {"discard"}
               r2 == r1 \cup (a.tried \cap {"proxy"})
               r3 == r2 \cup (a.tried \cap {"launch"})
               r4 == r3 \cup (a.tried \cap {"hotkeys"})
               r5 == r4 \cup (a.tried \cap {"tray"})
               r6 == r5 \cup (a.tried \cap {"firewall"})
    <2>1. Rollback(a) = q6
      BY <1>4 DEF Rollback
    <2>2. Undo(a.kind, a.tried) = r6
      BY <1>4 DEF Undo, Redone
    <2>3. Undone(CoreRollback(a), C)
      BY UpdatingUndone, RestartingUndone, UndoneNone DEF CoreRollback, UndoCore, If
    <2>4. Then("discard", C) /\ C \subseteq CoreStages
      BY DEF Then, Generating, UndoCore, CoreStages
    <2> HIDE DEF C
    <2>5. Undone(q1, r1)
      BY <1>0, <2>3, <2>4, UndoneMore
    <2>6. "proxy" \notin r1 /\ "launch" \notin r2 /\ "hotkeys" \notin r3 /\ "tray" \notin r4 /\ "firewall" \notin r5
      BY <2>4 DEF CoreStages
    <2> HIDE DEF q1, r1
    <2>7. Undone(q2, r2)
      BY <2>5, <2>6, UndoneAgain DEF Redone
    <2> HIDE DEF q2, r2
    <2>8. Undone(q3, r3)
      BY <2>6, <2>7, UndoneAgain DEF Redone
    <2> HIDE DEF q3, r3
    <2>9. Undone(q4, r4)
      BY <2>6, <2>8, UndoneAgain DEF Redone
    <2> HIDE DEF q4, r4
    <2>10. Undone(q5, r5)
      BY <2>6, <2>9, UndoneAgain DEF Redone
    <2> HIDE DEF q5, r5
    <2>11. Undone(q6, r6)
      BY <2>6, <2>10, UndoneAgain DEF Redone
    <2> QED
      BY <2>1, <2>2, <2>11
  <1> QED
    BY <1>1, <1>2, <1>3, <1>4

\* The first stage of a rollback drops the draft.
LEMMA DraftsDropped ==
  ASSUME NEW a, a.kind \in Documented, "draft" \in a.tried
  PROVE  Rollback(a) # <<>> /\ Head(Rollback(a)) = "discard"
  <1>1. CASE a.kind = "switch"
    BY <1>1 DEF Rollback
  <1>2. CASE a.kind # "switch"
    BY <1>2, RollbackDiscards DEF Documented
  <1> QED
    BY <1>1, <1>2

-----------------------------------------------------------------------------
(* What a stage does to its command and to what the commands share.        *)

Stays(c, d) ==
    DOMAIN d = Fields /\ d.kind = c.kind /\ d.arg = c.arg /\ d.before = c.before /\ d.alone = c.alone
Notes(c, d) == d.local = c.local /\ d.previous = c.previous /\ d.swallowed = c.swallowed

Passing(c, d) ==
    /\ Stays(c, d) /\ d.rolling = c.rolling /\ d.whole = c.whole
    /\ d.todo = Tail(c.todo) /\ d.tried = Tries(c)

Turning(c, d) ==
    /\ Stays(c, d) /\ Notes(c, d) /\ ~c.rolling /\ d.rolling = TRUE /\ d.whole = c.whole
    /\ d.tried = Tries(c)
    /\ \E a : a.kind = c.kind /\ a.tried = d.tried /\ d.todo = Rollback(a)

Skipping(c, d) ==
    /\ Stays(c, d) /\ c.rolling /\ d.rolling = TRUE /\ d.whole = FALSE /\ d.tried = c.tried
    /\ \E i \in 2..(Len(c.todo) + 1) : d.todo = SubSeq(c.todo, i, Len(c.todo))

Reloading(c, d) ==
    /\ Stays(c, d) /\ d.rolling = c.rolling /\ d.whole = c.whole
    /\ d.todo \in {<<>>, Updating} /\ d.tried = Tries(c)

LEMMA AttemptStays ==
  ASSUME NEW p, DOMAIN cmd[p] = Fields
  PROVE  /\ Stays(cmd[p], Attempt(p)) /\ Notes(cmd[p], Attempt(p))
         /\ Attempt(p).rolling = cmd[p].rolling /\ Attempt(p).whole = cmd[p].whole
         /\ Attempt(p).todo = cmd[p].todo /\ Attempt(p).tried = Tries(cmd[p])
  <1> DEFINE c == cmd[p]
             a == [c EXCEPT !.tried = @ \cup {Head(c.todo)}]
  <1>1. CASE c.rolling
    BY <1>1 DEF Attempt, Tries, Stays, Notes
  <1>2. CASE ~c.rolling
    <2>1. Attempt(p) = a
      BY <1>2 DEF Attempt
    <2>2. /\ Stays(c, a) /\ Notes(c, a) /\ a.rolling = c.rolling /\ a.whole = c.whole
          /\ a.todo = c.todo /\ a.tried = c.tried \cup {Head(c.todo)}
      BY DEF Stays, Notes, Fields
    <2> HIDE DEF a
    <2> QED
      BY <1>2, <2>1, <2>2 DEF Tries
  <1> QED
    BY <1>1, <1>2

LEMMA PassedStays ==
  ASSUME NEW p, DOMAIN cmd[p] = Fields
  PROVE  Passing(cmd[p], Passed(p)) /\ Notes(cmd[p], Passed(p))
  <1> DEFINE a == Attempt(p)
             d == [a EXCEPT !.todo = Tail(@)]
  <1>1. /\ Stays(cmd[p], a) /\ Notes(cmd[p], a) /\ a.rolling = cmd[p].rolling
        /\ a.whole = cmd[p].whole /\ a.todo = cmd[p].todo /\ a.tried = Tries(cmd[p])
    BY AttemptStays
  <1>2. Passed(p) = d
    BY DEF Passed
  <1> HIDE DEF a
  <1>3. DOMAIN a = Fields
    BY <1>1 DEF Stays
  <1>4. /\ Stays(a, d) /\ Notes(a, d) /\ d.rolling = a.rolling /\ d.whole = a.whole
        /\ d.todo = Tail(a.todo) /\ d.tried = a.tried
    BY <1>3 DEF Stays, Notes, Fields
  <1> HIDE DEF d
  <1> QED
    BY <1>1, <1>2, <1>4 DEF Passing, Stays, Notes

LEMMA FailedStays ==
  ASSUME NEW p, DOMAIN cmd[p] = Fields, Fails(p)
  PROVE  \E d : Goes(p, d) /\ (Turning(cmd[p], d) \/ Skipping(cmd[p], d))
  <1> DEFINE c == cmd[p]
             a == Attempt(p)
  <1>1. /\ Stays(c, a) /\ Notes(c, a) /\ a.rolling = c.rolling
        /\ a.whole = c.whole /\ a.todo = c.todo /\ a.tried = Tries(c)
    BY AttemptStays
  <1>2. DOMAIN a = Fields
    BY <1>1 DEF Stays
  <1>3. CASE ~c.rolling /\ Goes(p, [RollsBack(a) EXCEPT !.todo = Rollback(a)])
    <2> DEFINE b == RollsBack(a)
               r == Rollback(a)
               d == [b EXCEPT !.todo = r]
    <2>1. /\ Stays(a, b) /\ Notes(a, b) /\ b.rolling = TRUE /\ b.whole = a.whole /\ b.tried = a.tried
      BY <1>2 DEF Stays, Notes, Fields, RollsBack
    <2>2. Goes(p, d)
      BY <1>3
    <2>3. a.kind = c.kind /\ r = Rollback(a)
      BY <1>1 DEF Stays
    <2> HIDE DEF b, r
    <2>4. DOMAIN b = Fields
      BY <2>1 DEF Stays
    <2>5. /\ Stays(b, d) /\ Notes(b, d) /\ d.rolling = b.rolling /\ d.whole = b.whole
          /\ d.tried = b.tried /\ d.todo = r
      BY <2>4 DEF Stays, Notes, Fields
    <2> HIDE DEF d, a
    <2>6. Turning(c, d)
      BY <1>1, <1>3, <2>1, <2>3, <2>5 DEF Turning, Stays, Notes
    <2> QED
      BY <2>2, <2>6
  <1>4. CASE /\ c.rolling
             /\ \E i \in 2..(Len(a.todo) + 1) :
                  Goes(p, [Incomplete(a) EXCEPT !.todo = SubSeq(@, i, Len(@))])
    <2> PICK i \in 2..(Len(a.todo) + 1) :
               Goes(p, [Incomplete(a) EXCEPT !.todo = SubSeq(@, i, Len(@))])
      BY <1>4
    <2> DEFINE b == Incomplete(a)
               r == SubSeq(b.todo, i, Len(b.todo))
               d == [b EXCEPT !.todo = r]
    <2>1. Stays(a, b) /\ b.rolling = a.rolling /\ b.whole = FALSE /\ b.tried = a.tried /\ b.todo = a.todo
      BY <1>2 DEF Stays, Fields, Incomplete
    <2>2. Goes(p, d)
      OBVIOUS
    <2> HIDE DEF b
    <2>3. r = SubSeq(c.todo, i, Len(c.todo)) /\ i \in 2..(Len(c.todo) + 1)
      BY <1>1, <2>1
    <2> HIDE DEF r
    <2>4. DOMAIN b = Fields
      BY <2>1 DEF Stays
    <2>5. Stays(b, d) /\ d.rolling = b.rolling /\ d.whole = b.whole /\ d.tried = b.tried /\ d.todo = r
      BY <2>4 DEF Stays, Fields
    <2>7. Tries(c) = c.tried
      BY <1>4 DEF Tries
    <2> HIDE DEF d, a
    <2>6. Skipping(c, d)
      BY <1>1, <1>4, <2>1, <2>3, <2>5, <2>7 DEF Skipping, Stays
    <2> QED
      BY <2>2, <2>6
  <1> QED
    BY <1>3, <1>4 DEF Fails

\* The changes of the documents, the saved files and the world by a stage that
\* passes, and those by one that fails.
NewConfig(c) ==
    LET s == Head(c.todo) f == Document(c.kind) IN
    /\ s = "draft" => config' = Drafted(f, Patched(f, c.arg))
    /\ s = "generate" => config' = Drafted("runtime", c.local)
    /\ s = "runtime" => config' = config \/ \E x : config' = Drafted("runtime", x)
    /\ s \in {"commit", "discard"} =>
         config' = [g \in Documents |->
                      IF g \in {f} \cup IF c.kind = "switch" THEN {} ELSE {"runtime"}
                      THEN IF s = "commit" THEN Applied(g) ELSE Discarded(g) ELSE config[g]]
    /\ s = "keep" => config' = [config EXCEPT !["runtime"] = Applied("runtime")]
    /\ s \notin {"draft", "generate", "runtime", "commit", "discard", "keep"} => config' = config

NewDisk(c) ==
    LET s == Head(c.todo) f == Document(c.kind) IN
    /\ s \in {"write", "restart"} =>
         Latest("runtime") # None /\ disk' = [disk EXCEPT !.run = Latest("runtime")]
    /\ s = "save" => disk' = [disk EXCEPT ![f] = Latest(f)]
    /\ s \in {"script", "restore"} =>
         disk' = [disk EXCEPT !.script = IF c.rolling THEN c.previous ELSE c.arg.script]
    /\ s \notin {"write", "restart", "save", "script", "restore"} => disk' = disk

NewWorld(c, d) ==
    LET s == Head(c.todo) v == Latest("verge") IN
    /\ s = "put" => core # None /\ core' = [core EXCEPT !.config = disk.run]
    /\ s = "restart" => core' = Started
    /\ s \notin {"put", "restart"} => core' = core
    /\ s = "launch" => d.swallowed \/ IF v.launch THEN launch'.task = "ours" ELSE ~Owned(launch')
    /\ s # "launch" => launch' = launch
    /\ proxy' = IF s = "proxy" THEN WantedProxy(v) ELSE proxy
    /\ hotkeys' = IF s = "hotkeys" THEN IF c.rolling THEN Data("verge").hotkeys ELSE c.arg.hotkeys
                  ELSE hotkeys
    /\ firewall' = IF s = "firewall" THEN RulesFor(IF c.rolling THEN c.previous ELSE c.arg.lan)
                   ELSE firewall

NewNotes(c, d) ==
    LET s == Head(c.todo) IN
    /\ d.local = IF s = "enhance" THEN Enhanced ELSE c.local
    /\ d.previous = IF c.rolling THEN c.previous ELSE IF s = "firewall" THEN Latest("clash").lan
                    ELSE IF s \in {"script", "restore"} THEN disk.script ELSE c.previous
    /\ s # "launch" => d.swallowed = c.swallowed

Result(c, d) == Passing(c, d) /\ NewConfig(c) /\ NewDisk(c) /\ NewWorld(c, d) /\ NewNotes(c, d)

Harm(c) ==
    LET s == Head(c.todo) IN
    /\ s \notin {"draft", "enhance", "generate", "runtime", "commit", "discard", "keep", "hotkeys"}
    /\ config' = config
    /\ disk' = disk \/ (s = "restart" /\ \E r : disk' = [disk EXCEPT !.run = r])
    /\ s \notin {"put", "restart"} => core' = core
    /\ s # "launch" => launch' = launch
    /\ s # "firewall" => firewall' = firewall
    /\ proxy' = proxy /\ hotkeys' = hotkeys

Outcome(p) ==
    \E d : /\ Goes(p, d)
           /\ Result(cmd[p], d) \/ ((Turning(cmd[p], d) \/ Skipping(cmd[p], d)) /\ Harm(cmd[p]))

LEMMA PassOutcome ==
  ASSUME NEW p, DOMAIN cmd[p] = Fields, Passes(p), Head(cmd[p].todo) \notin {"enhance", "launch"},
         Head(cmd[p].todo) \in {"firewall", "script", "restore"} => cmd[p].rolling,
         NewConfig(cmd[p]), NewDisk(cmd[p]), NewWorld(cmd[p], Passed(p))
  PROVE  Outcome(p)
  <1> DEFINE c == cmd[p]
             d == Passed(p)
  <1>1. Passing(c, d) /\ Notes(c, d)
    BY PassedStays
  <1>2. Goes(p, d)
    BY DEF Passes
  <1> HIDE DEF c, d
  <1>3. NewNotes(c, d)
    BY <1>1 DEF NewNotes, Notes, c
  <1>4. NewConfig(c) /\ NewDisk(c) /\ NewWorld(c, d)
    BY DEF c, d
  <1> QED
    BY <1>1, <1>2, <1>3, <1>4 DEF Outcome, Result, c

LEMMA FailOutcome ==
  ASSUME NEW p, DOMAIN cmd[p] = Fields, Breaks(p) \/ Refuses(p), Harm(cmd[p])
  PROVE  Outcome(p)
  BY FailedStays DEF Outcome, Breaks, Refuses

\* The stages that change nothing but their command.
LEMMA PlainOutcome ==
  ASSUME TInv, NEW p \in Procs, Validate(p) \/ Port(p) \/ Check(p) \/ Tray(p) \/ Fetch(p)
  PROVE  Outcome(p)
  <1> DEFINE s == Head(cmd[p].todo)
  <1>1. s \in {"validate", "port", "check", "tray", "fetch"} /\ At(p, s)
    BY DEF Validate, Port, Check, Tray, Fetch, At
  <1>2. DOMAIN cmd[p] = Fields
    BY <1>1, AtStage DEF CmdOK, TInv
  <1>3. UNCHANGED <<config, disk, effects>>
    BY DEF Validate, Port, Check, Tray, Fetch
  <1>4. Passes(p) \/ Breaks(p) \/ Refuses(p)
    BY DEF Validate, Port, Check, Tray, Fetch
  <1>5. Harm(cmd[p])
    BY <1>1, <1>3 DEF Harm, effects
  <1>6. NewConfig(cmd[p]) /\ NewDisk(cmd[p]) /\ NewWorld(cmd[p], Passed(p))
    BY <1>1, <1>3 DEF NewConfig, NewDisk, NewWorld, effects
  <1> QED
    BY <1>1, <1>2, <1>4, <1>5, <1>6, PassOutcome, FailOutcome

\* The stages that change documents.
LEMMA ConfigOutcome ==
  ASSUME TInv, NEW p \in Procs, Draft(p) \/ Generate(p) \/ PatchRuntime(p) \/ Commit(p) \/ Discard(p) \/ Keep(p)
  PROVE  Outcome(p)
  <1> DEFINE s == Head(cmd[p].todo)
             c == cmd[p]
  <1>1. s \in {"draft", "generate", "runtime", "commit", "discard", "keep"} /\ At(p, s)
    BY DEF Draft, Generate, PatchRuntime, Commit, Discard, Ends, Keep, At
  <1>2. DOMAIN cmd[p] = Fields
    BY <1>1, AtStage DEF CmdOK, TInv
  <1>3. UNCHANGED <<disk, effects>> /\ Passes(p)
    BY DEF Draft, Generate, PatchRuntime, Commit, Discard, Ends, Keep
  <1>4. NewDisk(c) /\ NewWorld(c, Passed(p))
    BY <1>1, <1>3 DEF NewDisk, NewWorld, effects
  <1>5. NewConfig(c)
    <2>1. CASE Draft(p)
      BY <2>1 DEF NewConfig, Draft, At
    <2>2. CASE Generate(p)
      BY <2>2 DEF NewConfig, Generate, At
    <2>3. CASE PatchRuntime(p)
      BY <2>3 DEF NewConfig, PatchRuntime, At
    <2>4. CASE Keep(p)
      BY <2>4 DEF NewConfig, Keep, At
    <2>5. CASE Commit(p)
      <3>1. s = "commit"
        BY <2>5 DEF Commit, Ends, At
      <3>2. config' = [g \in Documents |->
                      IF g \in {Document(c.kind)} \cup IF c.kind = "switch" THEN {} ELSE {"runtime"}
                      THEN Applied(g) ELSE config[g]]
        BY <2>5 DEF Commit, Ends
      <3> QED
        BY <3>1, <3>2 DEF NewConfig
    <2>6. CASE Discard(p)
      <3>1. s = "discard"
        BY <2>6 DEF Discard, Ends, At
      <3>2. config' = [g \in Documents |->
                      IF g \in {Document(c.kind)} \cup IF c.kind = "switch" THEN {} ELSE {"runtime"}
                      THEN Discarded(g) ELSE config[g]]
        BY <2>6 DEF Discard, Ends
      <3> QED
        BY <3>1, <3>2 DEF NewConfig
    <2> QED
      BY <2>1, <2>2, <2>3, <2>4, <2>5, <2>6
  <1> QED
    BY <1>1, <1>2, <1>3, <1>4, <1>5, PassOutcome

\* The stages that change the files or the core.
LEMMA FileOutcome ==
  ASSUME TInv, NEW p \in Procs, Write(p) \/ Put(p) \/ Restart(p) \/ Save(p)
  PROVE  Outcome(p)
  <1> DEFINE s == Head(cmd[p].todo)
             c == cmd[p]
  <1>1. s \in {"write", "put", "restart", "save"} /\ At(p, s)
    BY DEF Write, Put, Restart, Save, At
  <1>2. DOMAIN cmd[p] = Fields
    BY <1>1, AtStage DEF CmdOK, TInv
  <1>3. UNCHANGED <<config, launch, proxy, hotkeys, firewall>> /\ NewConfig(c)
    BY <1>1 DEF Write, Put, Restart, Save, effects, NewConfig
  <1>4. \/ Passes(p) /\ NewDisk(c) /\ NewWorld(c, Passed(p))
        \/ (Breaks(p) \/ Refuses(p)) /\ Harm(c)
    <2>1. CASE Write(p)
      BY <1>3, <2>1 DEF Write, At, NewDisk, NewWorld, Harm, effects
    <2>2. CASE Put(p)
      BY <1>3, <2>2 DEF Put, At, NewDisk, NewWorld, Harm
    <2>3. CASE Restart(p)
      BY <1>3, <2>3 DEF Restart, At, NewDisk, NewWorld, Harm
    <2>4. CASE Save(p)
      BY <1>3, <2>4 DEF Save, At, NewDisk, NewWorld, Harm, effects
    <2> QED
      BY <2>1, <2>2, <2>3, <2>4
  <1> QED
    BY <1>1, <1>2, <1>3, <1>4, PassOutcome, FailOutcome

\* The stages that change the proxy, the hotkeys and the logon task.
LEMMA LaunchDone ==
  ASSUME NEW l, NEW on, NEW r \in IF on THEN EnableResults(l) ELSE DisableResults(l), r[2],
         l \in LaunchStates
  PROVE  IF on THEN r[1].task = "ours" ELSE ~Owned(r[1])
  <1>1. CASE on
    <2> DEFINE made == [l EXCEPT !.task = "ours"]
    <2>1. made.task = "ours" /\ made \in LaunchStates
      BY DEF LaunchStates
    <2>2. r = <<WithoutLegacy(made), TRUE>>
      <3>1. r \in {<<WithoutLegacy(made), TRUE>>, <<made, FALSE>>, <<l, FALSE>>}
        BY <1>1 DEF EnableResults
      <3> HIDE DEF made
      <3>2. ASSUME NEW x, r = <<x, FALSE>> PROVE FALSE
        <4>1. r[2] = FALSE
          BY <3>2
        <4> QED
          BY <4>1
      <3> QED
        BY <3>1, <3>2
    <2> HIDE DEF made
    <2>3. WithoutLegacy(made).task = "ours"
      BY <2>1 DEF WithoutLegacy, LaunchStates
    <2> QED
      BY <1>1, <2>2, <2>3
  <1>2. CASE ~on
    <2> DEFINE gone == IF Owned(l) THEN [l EXCEPT !.task = "none"] ELSE l
    <2>1. gone \in LaunchStates /\ ~Owned(gone)
      BY DEF LaunchStates, Owned
    <2>2. r = <<WithoutLegacy(gone), TRUE>>
      <3>1. r \in {<<WithoutLegacy(gone), TRUE>>, <<gone, FALSE>>, <<l, FALSE>>}
        BY <1>2 DEF DisableResults
      <3> HIDE DEF gone
      <3>2. ASSUME NEW x, r = <<x, FALSE>> PROVE FALSE
        <4>1. r[2] = FALSE
          BY <3>2
        <4> QED
          BY <4>1
      <3> QED
        BY <3>1, <3>2
    <2> HIDE DEF gone
    <2>3. ~Owned(WithoutLegacy(gone))
      BY <2>1 DEF WithoutLegacy, LaunchStates, Owned
    <2> QED
      BY <1>2, <2>2, <2>3
  <1> QED
    BY <1>1, <1>2

LEMMA EffectOutcome ==
  ASSUME TInv, NEW p \in Procs, SetProxy(p) \/ SetHotkeys(p) \/ Launch(p)
  PROVE  Outcome(p)
  <1> DEFINE s == Head(cmd[p].todo)
             c == cmd[p]
             on == Latest("verge").launch
  <1>1. s \in {"proxy", "hotkeys", "launch"} /\ At(p, s)
    BY DEF SetProxy, SetHotkeys, Launch, At
  <1>2. DOMAIN cmd[p] = Fields
    BY <1>1, AtStage DEF CmdOK, TInv
  <1>3. UNCHANGED <<config, disk, core, firewall>> /\ NewConfig(c) /\ NewDisk(c)
    BY <1>1 DEF SetProxy, SetHotkeys, Launch, NewConfig, NewDisk
  <1>4. CASE SetProxy(p) \/ SetHotkeys(p)
    <2>1. /\ s \in {"proxy", "hotkeys"}
          /\ \/ Passes(p) /\ NewWorld(c, Passed(p))
             \/ Breaks(p) /\ Harm(c)
      BY <1>3, <1>4 DEF SetProxy, SetHotkeys, At, NewWorld, Harm
    <2> QED
      BY <1>2, <1>3, <2>1, PassOutcome, FailOutcome
  <1>5. CASE Launch(p)
    <2>1. s = "launch" /\ UNCHANGED <<proxy, hotkeys>>
      BY <1>5 DEF Launch, At
    <2>2. PICK r \in IF on THEN EnableResults(launch) ELSE DisableResults(launch) :
                 /\ launch' = r[1]
                 /\ CASE r[2] -> Passes(p)
                      [] ~r[2] /\ on -> IF launch.task = "foreign" THEN Refuses(p) ELSE Breaks(p)
                      [] OTHER -> /\ faults < MaxFaults /\ faults' = faults + 1
                                  /\ Goes(p, [Passed(p) EXCEPT !.swallowed = TRUE])
      BY <1>5 DEF Launch
    <2>3. CASE r[2]
      <3>1. IF on THEN launch'.task = "ours" ELSE ~Owned(launch')
        BY <2>2, <2>3, LaunchDone DEF TInv, EffectsOK
      <3>2. Goes(p, Passed(p))
        BY <2>2, <2>3 DEF Passes
      <3> DEFINE d == Passed(p)
      <3>3. Passing(c, d) /\ Notes(c, d)
        BY <1>2, PassedStays
      <3> HIDE DEF d
      <3>4. NewWorld(c, d) /\ NewNotes(c, d)
        BY <1>3, <2>1, <3>1, <3>3 DEF NewWorld, NewNotes, Notes
      <3> QED
        BY <1>3, <3>2, <3>3, <3>4 DEF Outcome, Result, d
    <2>4. CASE ~r[2] /\ on
      <3>1. Breaks(p) \/ Refuses(p)
        BY <2>2, <2>4
      <3>2. Harm(c)
        BY <1>3, <2>1 DEF Harm
      <3> QED
        BY <1>2, <3>1, <3>2, FailOutcome
    <2>5. CASE ~r[2] /\ ~on
      <3> DEFINE b == Passed(p)
                 d == [b EXCEPT !.swallowed = TRUE]
      <3>1. Goes(p, d)
        BY <2>2, <2>5
      <3>2. Passing(c, b) /\ Notes(c, b)
        BY <1>2, PassedStays
      <3> HIDE DEF b
      <3>3. DOMAIN b = Fields
        BY <3>2 DEF Passing, Stays
      <3>4. /\ DOMAIN d = Fields /\ d.kind = b.kind /\ d.arg = b.arg /\ d.before = b.before
            /\ d.alone = b.alone /\ d.rolling = b.rolling /\ d.whole = b.whole /\ d.todo = b.todo
            /\ d.tried = b.tried /\ d.local = b.local /\ d.previous = b.previous /\ d.swallowed = TRUE
        BY <3>3 DEF Fields
      <3> HIDE DEF d
      <3>5. Passing(c, d) /\ NewNotes(c, d)
        BY <2>1, <3>2, <3>4 DEF Passing, Stays, Notes, NewNotes
      <3>6. NewWorld(c, d)
        BY <1>3, <2>1, <3>4 DEF NewWorld
      <3> QED
        BY <1>3, <3>1, <3>5, <3>6 DEF Outcome, Result
    <2> QED
      BY <2>3, <2>4, <2>5
  <1> QED
    BY <1>4, <1>5

\* The stages that remember what they replace, and the one that computes.
LEMMA NoteOutcome ==
  ASSUME TInv, NEW p \in Procs, Enhance(p) \/ SetFirewall(p) \/ SaveScript(p)
  PROVE  Outcome(p)
  <1> DEFINE s == Head(cmd[p].todo)
             c == cmd[p]
             b == Passed(p)
             d(x) == [b EXCEPT !.previous = x]
             e == [b EXCEPT !.local = Enhanced]
  <1>1. s \in {"enhance", "firewall", "script", "restore"} /\ At(p, s)
    BY DEF Enhance, SetFirewall, SaveScript, At
  <1>2. DOMAIN cmd[p] = Fields
    BY <1>1, AtStage DEF CmdOK, TInv
  <1>3. Passing(c, b) /\ Notes(c, b)
    BY <1>2, PassedStays
  <1>4. DOMAIN b = Fields
    BY <1>3 DEF Passing, Stays
  <1>5. ASSUME NEW x PROVE Passing(c, d(x)) /\ d(x).local = c.local /\ d(x).swallowed = c.swallowed /\ d(x).previous = x
    <2> HIDE DEF b
    <2>1. /\ DOMAIN d(x) = Fields /\ d(x).kind = b.kind /\ d(x).arg = b.arg /\ d(x).before = b.before
          /\ d(x).alone = b.alone /\ d(x).rolling = b.rolling /\ d(x).whole = b.whole /\ d(x).todo = b.todo
          /\ d(x).tried = b.tried /\ d(x).local = b.local /\ d(x).previous = x /\ d(x).swallowed = b.swallowed
      BY <1>4 DEF Fields
    <2> HIDE DEF d
    <2> QED
      BY <1>3, <2>1 DEF Passing, Stays, Notes
  <1>6. Passing(c, e) /\ e.local = Enhanced /\ e.swallowed = c.swallowed /\ e.previous = c.previous
    <2> HIDE DEF b
    <2>1. /\ DOMAIN e = Fields /\ e.kind = b.kind /\ e.arg = b.arg /\ e.before = b.before
          /\ e.alone = b.alone /\ e.rolling = b.rolling /\ e.whole = b.whole /\ e.todo = b.todo
          /\ e.tried = b.tried /\ e.local = Enhanced /\ e.previous = b.previous /\ e.swallowed = b.swallowed
      BY <1>4 DEF Fields
    <2> HIDE DEF e
    <2> QED
      BY <1>3, <2>1 DEF Passing, Stays, Notes
  <1>7. CASE Enhance(p)
    <2>1. s = "enhance" /\ Goes(p, e) /\ UNCHANGED <<config, disk, effects>>
      BY <1>7 DEF Enhance, At
    <2> HIDE DEF e, b
    <2>2. NewConfig(c) /\ NewDisk(c) /\ NewWorld(c, e) /\ NewNotes(c, e)
      BY <1>6, <2>1 DEF NewConfig, NewDisk, NewWorld, NewNotes, effects
    <2> QED
      BY <1>6, <2>1, <2>2 DEF Outcome, Result
  <1>8. ASSUME NEW x, Remembers(p, x), s \in {"firewall", "script", "restore"},
               x = IF s = "firewall" THEN Latest("clash").lan ELSE disk.script,
               NewConfig(c), NewDisk(c), UNCHANGED <<core, launch, proxy, hotkeys>>,
               firewall' = IF s = "firewall" THEN RulesFor(IF c.rolling THEN c.previous ELSE c.arg.lan)
                           ELSE firewall
        PROVE  Outcome(p)
    <2>1. CASE c.rolling
      <3>1. Passes(p)
        BY <1>8, <2>1 DEF Remembers, Passes
      <3>2. NewWorld(c, b)
        BY <1>8 DEF NewWorld
      <3> QED
        BY <1>2, <1>8, <2>1, <3>1, <3>2, PassOutcome
    <2>2. CASE ~c.rolling
      <3>1. Goes(p, d(x))
        BY <1>8, <2>2 DEF Remembers
      <3> HIDE DEF d, b
      <3>2. NewWorld(c, d(x)) /\ NewNotes(c, d(x))
        BY <1>5, <1>8, <2>2 DEF NewWorld, NewNotes
      <3> QED
        BY <1>5, <1>8, <3>1, <3>2 DEF Outcome, Result
    <2> QED
      BY <2>1, <2>2
  <1>9. CASE SetFirewall(p)
    <2> DEFINE lan == IF c.rolling THEN c.previous ELSE c.arg.lan
    <2>1. s = "firewall" /\ UNCHANGED <<config, disk, core, launch, proxy, hotkeys>>
      BY <1>9 DEF SetFirewall, At
    <2>2. NewConfig(c) /\ NewDisk(c) /\ Harm(c)
      BY <2>1 DEF NewConfig, NewDisk, Harm
    <2>3. PICK r \in RuleResults(lan, firewall) :
                 /\ firewall' = r[1]
                 /\ IF r[2] THEN Remembers(p, Latest("clash").lan) ELSE Breaks(p)
      BY <1>9 DEF SetFirewall
    <2>4. CASE r[2]
      <3>1. r[1] = RulesFor(lan)
        <4> DEFINE X == IF lan THEN SUBSET Cores ELSE {firewall, firewall \ {"mihomo"}}
        <4>1. r = <<RulesFor(lan), TRUE>> \/ \E x \in X : r = <<x, FALSE>>
          BY <2>3 DEF RuleResults
        <4> HIDE DEF X
        <4>2. ASSUME NEW x, r = <<x, FALSE>> PROVE FALSE
          <5>1. r[2] = FALSE
            BY <4>2
          <5> QED
            BY <2>4, <5>1
        <4>3. r = <<RulesFor(lan), TRUE>>
          BY <4>1, <4>2
        <4> QED
          BY <4>3
      <3> QED
        BY <1>8, <2>1, <2>2, <2>3, <2>4, <3>1
    <2>5. CASE ~r[2]
      BY <1>2, <2>2, <2>3, <2>5, FailOutcome
    <2> QED
      BY <2>4, <2>5
  <1>10. CASE SaveScript(p)
    <2>1. s \in {"script", "restore"} /\ UNCHANGED <<config, effects>>
      BY <1>10 DEF SaveScript, At
    <2>2. NewConfig(c)
      BY <2>1 DEF NewConfig
    <2>3. \/ Remembers(p, disk.script) /\ NewDisk(c)
          \/ Breaks(p) /\ Harm(c)
      BY <1>10, <2>1 DEF SaveScript, NewDisk, Harm, effects
    <2> QED
      BY <1>2, <1>8, <2>1, <2>2, <2>3, FailOutcome DEF effects
  <1> QED
    BY <1>7, <1>9, <1>10

\* What any stage but an edit of the list does.
LEMMA StageOutcome ==
  ASSUME TInv, NEW p \in Procs, Stage(p), Head(cmd[p].todo) # "edit"
  PROVE  Outcome(p)
  <1>1. ~Edit(p)
    BY DEF Edit, At
  <1> QED
    BY <1>1, PlainOutcome, ConfigOutcome, FileOutcome, EffectOutcome, NoteOutcome DEF Stage

LEMMA EditOutcome ==
  ASSUME TInv, NEW p \in Procs, Edit(p)
  PROVE  /\ \E d : /\ Goes(p, d)
                   /\ \/ Passing(cmd[p], d) \/ Turning(cmd[p], d) \/ Skipping(cmd[p], d)
                      \/ Reloading(cmd[p], d)
         /\ config' = config \/ \E x : config' = WithData("profiles", x)
         /\ disk' = disk \/ \E x : disk' = [disk EXCEPT !.profiles = x]
         /\ UNCHANGED effects
  <1> DEFINE c == cmd[p]
  <1>1. At(p, "edit")
    BY DEF Edit
  <1>2. DOMAIN c = Fields
    BY <1>1, AtStage DEF CmdOK, TInv
  <1>3. Passing(c, Passed(p))
    BY <1>2, PassedStays
  <1>4. ASSUME NEW b, Goes(p, [Attempt(p) EXCEPT !.todo = If(b, Updating)])
        PROVE  \E d : Goes(p, d) /\ Reloading(c, d)
    <2> DEFINE a == Attempt(p)
               d == [a EXCEPT !.todo = If(b, Updating)]
    <2>1. /\ Stays(c, a) /\ a.rolling = c.rolling /\ a.whole = c.whole /\ a.tried = Tries(c)
      BY <1>2, AttemptStays
    <2>2. Goes(p, d)
      BY <1>4
    <2> HIDE DEF a, c
    <2>3. /\ DOMAIN d = Fields /\ d.kind = a.kind /\ d.arg = a.arg /\ d.before = a.before
          /\ d.alone = a.alone /\ d.rolling = a.rolling /\ d.whole = a.whole /\ d.tried = a.tried
          /\ d.todo = If(b, Updating)
      BY <2>1 DEF Fields, Stays
    <2> HIDE DEF d
    <2> QED
      BY <2>1, <2>2, <2>3 DEF Reloading, Stays, If
  <1>5. ASSUME Breaks(p) \/ Refuses(p) PROVE \E d : Goes(p, d) /\ (Turning(c, d) \/ Skipping(c, d))
    BY <1>2, <1>5, FailedStays DEF Breaks, Refuses
  <1>6. ASSUME NEW x, NEW b, Saves(p, x, b)
        PROVE  /\ \E d : Goes(p, d) /\ (Turning(c, d) \/ Skipping(c, d) \/ Reloading(c, d))
               /\ disk' = disk \/ \E y : disk' = [disk EXCEPT !.profiles = y]
    <2>1. CASE Goes(p, [Attempt(p) EXCEPT !.todo = If(b, Updating)])
      BY <1>4, <1>6, <2>1 DEF Saves
    <2>2. CASE Breaks(p) \/ Refuses(p)
      BY <1>5, <1>6, <2>2 DEF Saves
    <2> QED
      BY <1>6, <2>1, <2>2 DEF Saves
  <1>7. CASE EditList(p)
    <2>1. \E x, b : Saves(p, x, b) /\ config' = WithData("profiles", x)
      BY <1>7 DEF EditList
    <2> QED
      BY <1>6, <2>1 DEF Edit
  <1>8. CASE UpdateItem(p)
    <2>1. config' = config /\ ((UNCHANGED disk /\ Refuses(p)) \/ \E x, b : Saves(p, x, b))
      BY <1>8 DEF UpdateItem
    <2> QED
      BY <1>5, <1>6, <2>1 DEF Edit
  <1>9. CASE Misplace(p)
    <2>1. UNCHANGED disk /\ (config' = config \/ \E x : config' = WithData("profiles", x))
      BY <1>9 DEF Misplace
    <2>2. Passes(p) \/ Refuses(p)
      BY <1>9 DEF Misplace
    <2> QED
      BY <1>3, <1>5, <2>1, <2>2 DEF Edit, Passes
  <1> QED
    BY <1>7, <1>8, <1>9 DEF Edit

\* How any stage moves its command on.
Moving(c, d) ==
    LET s == Head(c.todo) IN
    \/ Passing(c, d)
    \/ (Turning(c, d) \/ Skipping(c, d))
       /\ s \notin {"draft", "enhance", "generate", "commit", "discard"}
    \/ Reloading(c, d) /\ s = "edit" /\ c.kind = "edit"

LEMMA StageMoves ==
  ASSUME TInv, NEW p \in Procs, Stage(p)
  PROVE  /\ At(p, Head(cmd[p].todo)) /\ CmdOK(cmd[p]) /\ Fits(cmd[p], Head(cmd[p].todo))
         /\ cmd[p] # None /\ cmd[p].todo # <<>>
         /\ \E d : Goes(p, d) /\ Moving(cmd[p], d)
  <1>1. At(p, Head(cmd[p].todo)) /\ CmdOK(cmd[p]) /\ Fits(cmd[p], Head(cmd[p].todo))
    BY StagesContinue
  <1>2. CASE Edit(p)
    <2>1. Head(cmd[p].todo) = "edit" /\ cmd[p].kind = "edit"
      BY <1>1, <1>2 DEF Edit, At, Fits
    <2> QED
      BY <1>1, <1>2, <2>1, EditOutcome DEF Moving, At
  <1>3. CASE ~Edit(p)
    <2>1. Head(cmd[p].todo) # "edit"
      BY <1>3 DEF Stage, Validate, Draft, Port, Enhance, Generate, Check, Write, Put,
         Restart, Launch, SetProxy, SetHotkeys, Tray, SetFirewall, PatchRuntime, Save, Commit,
         Discard, Ends, Keep, SaveScript, Fetch, At
    <2>2. PICK d : /\ Goes(p, d)
                   /\ Result(cmd[p], d) \/ ((Turning(cmd[p], d) \/ Skipping(cmd[p], d)) /\ Harm(cmd[p]))
      BY <2>1, StageOutcome DEF Outcome
    <2>3. Moving(cmd[p], d)
      BY <2>2 DEF Result, Harm, Moving
    <2> QED
      BY <1>1, <2>2, <2>3 DEF At
  <1> QED
    BY <1>2, <1>3

-----------------------------------------------------------------------------
(* Where a command stands.                                                 *)

\* What is done was ready to be done.
Grounded(c) == \A s \in c.tried : Needs(c.kind, s, c.tried)

\* A rollback that has skipped nothing so far.
Retracing(c) ==
    /\ Undoing(c.todo)
    /\ Todo(c) \subseteq Undo(c.kind, c.tried)
    /\ {"discard", "restore"} \cap Todo(c) # {} => Todo(c) = Undo(c.kind, c.tried)
    /\ {"generate", "put"} \subseteq Todo(c) => "write" \in Todo(c)
    /\ "put" \in Todo(c) => "check" \in c.tried

Track(c) ==
    /\ Grounded(c)
    /\ ~c.rolling => Legal(c.kind, c.todo, c.tried) /\ Whole(c.kind, c.tried \cup Todo(c))
    /\ c.rolling => /\ "commit" \notin c.tried
                    /\ ({"discard"} \cup Redone) \cap Todo(c) # {} => "draft" \in c.tried
                    /\ c.whole => Retracing(c)

\* What a command knows about its next stage.
LEMMA AtHead ==
  ASSUME NEW c, CmdOK(c), c.todo # <<>>, Track(c)
  PROVE  LET s == Head(c.todo) rest == Range(Tail(c.todo)) IN
         /\ Todo(c) = {s} \cup rest
         /\ ~c.rolling => Ready(c.kind, s, c.tried) /\ Legal(c.kind, Tail(c.todo), c.tried \cup {s})
         /\ c.rolling /\ c.whole => Then(s, rest) /\ Undoing(Tail(c.todo))
  <1>1. c.todo \in Seq(Stages(c))
    BY DEF CmdOK
  <1>2. Todo(c) = {Head(c.todo)} \cup Range(Tail(c.todo))
    BY <1>1, TailRange DEF Todo
  <1>3. CASE ~c.rolling
    <2>1. Legal(c.kind, c.todo, c.tried)
      BY <1>3 DEF Track
    <2>2. Ready(c.kind, Head(c.todo), c.tried) /\ Legal(c.kind, Tail(c.todo), c.tried \cup {Head(c.todo)})
      BY <1>1, <2>1, LegalTail
    <2> QED
      BY <1>2, <1>3, <2>2
  <1>4. CASE c.rolling
    <2>1. ASSUME c.whole
          PROVE  Then(Head(c.todo), Range(Tail(c.todo))) /\ Undoing(Tail(c.todo))
      <3>1. Undoing(c.todo)
        BY <1>4, <2>1 DEF Track, Retracing
      <3> QED
        BY <1>1, <3>1, UndoingTail
    <2> QED
      BY <1>2, <1>4, <2>1
  <1> QED
    BY <1>3, <1>4

LEMMA GroundedMore ==
  ASSUME NEW c, Grounded(c), NEW d, d.kind = c.kind, NEW s, Needs(c.kind, s, c.tried),
         d.tried = c.tried \cup {s}
  PROVE  Grounded(d)
  BY DEF Grounded, Needs

LEMMA TrackKept ==
  ASSUME NEW c, CmdOK(c), c.todo # <<>>, Track(c), NEW d, Moving(c, d)
  PROVE  Track(d)
  <1> DEFINE s == Head(c.todo)
             rest == Range(Tail(c.todo))
  <1>1. /\ Todo(c) = {s} \cup rest
        /\ ~c.rolling => Ready(c.kind, s, c.tried) /\ Legal(c.kind, Tail(c.todo), c.tried \cup {s})
        /\ c.rolling /\ c.whole => Then(s, rest) /\ Undoing(Tail(c.todo))
    BY AtHead
  <1>2. d.kind = c.kind /\ d.tried = Tries(c)
    BY DEF Moving, Passing, Turning, Skipping, Reloading, Stays, Tries
  <1>3. Grounded(d)
    <2>1. CASE c.rolling
      BY <1>2, <2>1 DEF Track, Tries, Grounded
    <2>2. CASE ~c.rolling
      BY <1>1, <1>2, <2>2, GroundedMore DEF Ready, Track, Tries
    <2> QED
      BY <2>1, <2>2
  <1> HIDE DEF s, rest
  <1>4. CASE Passing(c, d)
    <2>1. Todo(d) = rest /\ d.rolling = c.rolling /\ d.whole = c.whole /\ d.todo = Tail(c.todo)
      BY <1>4 DEF Passing, Todo, rest
    <2>2. CASE ~c.rolling
      <3>1. d.tried = c.tried \cup {s} /\ d.tried \cup Todo(d) = c.tried \cup Todo(c)
        BY <1>1, <1>2, <2>1, <2>2 DEF Tries, s
      <3> QED
        BY <1>1, <1>2, <1>3, <2>1, <2>2, <3>1 DEF Track
    <2>3. CASE c.rolling
      <3>1. d.tried = c.tried
        BY <1>2, <2>3 DEF Tries
      <3>2. ASSUME c.whole PROVE Retracing(d)
        <4>1. Retracing(c) /\ Then(s, rest) /\ Undoing(d.todo)
          BY <1>1, <2>1, <2>3, <3>2 DEF Track
        <4> QED
          BY <1>1, <1>2, <2>1, <3>1, <4>1 DEF Retracing, Then, Generating
      <3> QED
        BY <1>1, <1>2, <1>3, <2>1, <2>3, <3>1, <3>2 DEF Track
    <2> QED
      BY <2>2, <2>3
  <1>5. CASE Turning(c, d) /\ s \notin {"draft", "enhance", "generate", "commit", "discard"}
    <2>1. PICK a : a.kind = c.kind /\ a.tried = d.tried /\ d.todo = Rollback(a)
      BY <1>5 DEF Turning
    <2>2. Undone(Rollback(a), Undo(d.kind, d.tried))
      BY <1>2, <2>1, RollbackUndoes DEF CmdOK, IsCommand
    <2>3. Todo(d) = Undo(d.kind, d.tried) /\ Undoing(d.todo)
      BY <2>1, <2>2 DEF Undone, Todo
    <2>4. ~c.rolling /\ d.rolling
      BY <1>5 DEF Turning
    <2>5. "commit" \notin d.tried
      BY <1>1, <1>2, <1>5, <2>4 DEF Ready, Timely, Tries, s
    <2>6. d.kind = "switch" => "draft" \in d.tried
      BY <1>1, <1>2, <1>5, <2>4 DEF Ready, Needs, Tries, s
    <2>7. ({"discard"} \cup Redone) \cap Todo(d) # {} => "draft" \in d.tried
      BY <2>3, <2>6 DEF Undo, Redone
    <2>8. {"generate", "put"} \subseteq Todo(d) => "write" \in Todo(d)
      BY <2>3 DEF Undo, UndoCore, Redone
    <2>9. "put" \in Todo(d) => "check" \in d.tried
      <3>1. CASE d.kind = "script" /\ d.tried # {"script"}
        <4>1. s \in {"check", "write", "put"} \/ (s = "script" /\ c.tried = {})
          BY <1>1, <1>2, <1>5, <2>4, <3>1 DEF Ready, Needs, Timely
        <4>2. d.tried = c.tried \cup {s}
          BY <1>2, <2>4 DEF Tries, s
        <4>3. "runtime" \notin c.tried
          <5>1. "runtime" \in c.tried => "draft" \in c.tried
            BY DEF Track, Grounded, Needs
          <5>2. "draft" \notin c.tried
            BY <1>2, <3>1 DEF Track, Grounded, Needs, Documented
          <5> QED
            BY <5>1, <5>2
        <4>4. s # "script"
          BY <3>1, <4>1, <4>2
        <4> QED
          BY <1>1, <2>4, <4>1, <4>2, <4>3, <4>4 DEF Ready, Needs
      <3>2. CASE ~(d.kind = "script" /\ d.tried # {"script"})
        BY <2>3, <3>2 DEF Undo, UndoCore, Redone
      <3> QED
        BY <3>1, <3>2
    <2> QED
      BY <1>3, <2>3, <2>4, <2>5, <2>7, <2>8, <2>9 DEF Track, Retracing
  <1>6. CASE Skipping(c, d)
    <2>1. c.rolling /\ d.rolling /\ ~d.whole /\ d.tried = c.tried
      BY <1>6 DEF Skipping
    <2>2. PICK i \in 2..(Len(c.todo) + 1) : d.todo = SubSeq(c.todo, i, Len(c.todo))
      BY <1>6 DEF Skipping
    <2>3. Todo(d) \subseteq Todo(c)
      <3>1. c.todo \in Seq(Stages(c))
        BY DEF CmdOK
      <3> DEFINE q == c.todo
                 r == d.todo
      <3>2. q \in Seq(Stages(c)) /\ Len(q) \in Nat /\ r = SubSeq(q, i, Len(q))
        BY <2>2, <3>1
      <3> HIDE DEF q, r
      <3>3. DOMAIN r = 1..(Len(q) - i + 1) /\ \A j \in 1..(Len(q) - i + 1) : r[j] = q[i + j - 1]
        BY <2>2, <3>2
      <3>4. ASSUME NEW j \in DOMAIN r PROVE r[j] \in Range(q)
        <4>1. i + j - 1 \in 1..Len(q) /\ r[j] = q[i + j - 1]
          BY <2>2, <3>2, <3>3
        <4> QED
          BY <3>2, <4>1 DEF Range
      <3>5. Range(r) \subseteq Range(q)
        BY <3>4 DEF Range
      <3> QED
        BY <3>5 DEF Todo, q, r
    <2> QED
      BY <1>3, <2>1, <2>3 DEF Track
  <1>7. CASE Reloading(c, d) /\ s = "edit" /\ c.kind = "edit"
    <2> DEFINE u == {"enhance", "generate", "check", "write", "put"}
    <2>1. Todo(d) \in {{}, u}
      <3>1. Range(Updating) = u
        BY UpdatingUndone DEF Undone
      <3>2. Range(<<>>) = {}
        BY LegalNone
      <3>3. d.todo = <<>> \/ d.todo = Updating
        BY <1>7 DEF Reloading
      <3> HIDE DEF u
      <3> QED
        BY <3>1, <3>2, <3>3 DEF Todo
    <2>2. d.rolling = c.rolling /\ d.whole = c.whole /\ d.todo \in {<<>>, Updating}
      BY <1>7 DEF Reloading
    <2>3. CASE ~c.rolling
      <3>1. c.tried \subseteq {"fetch"} /\ d.tried = c.tried \cup {"edit"}
        BY <1>1, <1>2, <1>7, <2>3 DEF Ready, Timely, Tries, s
      <3>2. Planned("edit", Updating, d.tried, u)
        BY <3>1, UpdatingLegal DEF Documented
      <3>3. Legal("edit", d.todo, d.tried)
        BY <2>2, <3>2, LegalNone DEF Planned
      <3>4. Whole("edit", d.tried \cup Todo(d))
        BY <2>1, <3>1 DEF Whole, Documented
      <3> QED
        BY <1>2, <1>3, <1>7, <2>2, <2>3, <3>3, <3>4 DEF Track
    <2>4. CASE c.rolling
      <3>1. ~c.whole
        <4>1. "edit" \notin Undo("edit", c.tried)
          BY DEF Undo, UndoCore, Redone
        <4> QED
          BY <1>1, <1>7, <2>4, <4>1 DEF Track, Retracing
      <3>2. ({"discard"} \cup Redone) \cap Todo(d) = {}
        BY <2>1 DEF Redone
      <3>3. d.tried = c.tried
        BY <1>2, <2>4 DEF Tries
      <3> QED
        BY <1>3, <2>2, <2>4, <3>1, <3>2, <3>3 DEF Track
    <2> QED
      BY <2>3, <2>4
  <1> QED
    BY <1>4, <1>5, <1>6, <1>7 DEF Moving, s

-----------------------------------------------------------------------------
(* How the documents move.                                                 *)

\* What is missing is no document, no configuration and no core.
NoneIsNoDocument ==
    None \notin Verges \cup Clashes \cup Profiles \cup Runs \cup [config : Runs, service : BOOLEAN]

\* The documents that commands patch.
Settable == {"verge", "clash", "profiles"}

\* A stage that passes, seen from the documents.
LEMMA DocumentsMove ==
  ASSUME TInv, NoneIsNoDocument, NEW c, CmdOK(c), Fits(c, Head(c.todo)), NewConfig(c)
  PROVE  LET s == Head(c.todo) f == Document(c.kind) IN
         /\ \A g \in Settable :
              /\ s \notin {"draft", "commit", "discard"} \/ g # f => config'[g] = config[g]
              /\ s \in {"commit", "discard"} /\ g = f =>
                   config'[g] = [data |-> IF s = "commit" THEN Latest(g) ELSE Data(g), draft |-> None]
         /\ s = "draft" =>
              /\ f \in Settable /\ Patched(f, c.arg) # None
              /\ config'[f] = [data |-> Data(f), draft |-> Patched(f, c.arg)]
         /\ s \notin {"generate", "runtime", "discard"} => Latest("runtime")' = Latest("runtime")
         /\ s = "generate" /\ c.local # None => Latest("runtime")' = c.local
  <1> DEFINE s == Head(c.todo)
             f == Document(c.kind)
  <1>1. /\ DOMAIN config = Documents /\ Settable \subseteq Documents /\ "runtime" \in Documents \ Settable
        /\ \A g \in Documents : DOMAIN config[g] = {"data", "draft"}
    BY DEF TInv, ConfigOK, Settled, Documents, Settable
  <1>2. ASSUME NEW g \in Documents, NEW x, config' = Drafted(g, x)
        PROVE  /\ config'[g] = [data |-> Data(g), draft |-> x]
               /\ \A h \in Documents \ {g} : config'[h] = config[h]
    BY <1>1, <1>2 DEF Drafted, Data
  <1>3. CASE s = "draft"
    <2>1. c.kind \in Documented
      BY <1>3 DEF Fits
    <2>2. f \in Settable /\ config' = Drafted(f, Patched(f, c.arg))
      BY <1>3, <2>1 DEF NewConfig, Document, Documented, Settable
    <2>3. Patched(f, c.arg) # None
      BY <2>1, PatchedIs DEF TInv, CmdOK, NoneIsNoDocument, Document, Documented
    <2>4. config'[f] = [data |-> Data(f), draft |-> Patched(f, c.arg)]
      BY <1>1, <1>2, <2>2
    <2>5. \A h \in Documents \ {f} : config'[h] = config[h]
      <3> DEFINE x == Patched(f, c.arg)
      <3>1. f \in Documents /\ config' = Drafted(f, x)
        BY <1>1, <2>2
      <3> HIDE DEF f, x
      <3> QED
        BY <1>2, <3>1
    <2>6. Latest("runtime")' = Latest("runtime")
      BY <1>1, <2>2, <2>5 DEF Latest
    <2> HIDE DEF f
    <2> QED
      BY <1>1, <1>3, <2>2, <2>3, <2>4, <2>5, <2>6 DEF f
  <1>4. CASE s = "generate"
    <2>1. config' = Drafted("runtime", c.local)
      BY <1>4 DEF NewConfig
    <2>2. /\ config'["runtime"] = [data |-> Data("runtime"), draft |-> c.local]
          /\ \A h \in Settable : config'[h] = config[h]
      BY <1>1, <1>2, <2>1
    <2>3. c.local # None => Latest("runtime")' = c.local
      BY <2>2 DEF Latest
    <2> QED
      BY <1>4, <2>2, <2>3
  <1>5. CASE s = "runtime"
    <2>1. config' = config \/ \E x : config' = Drafted("runtime", x)
      BY <1>5 DEF NewConfig
    <2>2. \A h \in Settable : config'[h] = config[h]
      <3>1. ASSUME NEW x, config' = Drafted("runtime", x), NEW h \in Settable PROVE config'[h] = config[h]
        BY <1>1, <1>2, <3>1
      <3> QED
        BY <2>1, <3>1
    <2> QED
      BY <1>5, <2>2
  <1>6. CASE s \in {"commit", "discard"}
    <2> DEFINE own == {f} \cup IF c.kind = "switch" THEN {} ELSE {"runtime"}
    <2>1. config' = [g \in Documents |-> IF g \in own THEN IF s = "commit" THEN Applied(g) ELSE Discarded(g)
                                         ELSE config[g]]
      BY <1>6 DEF NewConfig
    <2>2. \A g \in Documents : config'[g] = IF g \in own THEN IF s = "commit" THEN Applied(g) ELSE Discarded(g)
                                            ELSE config[g]
      BY <2>1
    <2>3. \A g \in Settable : g \in own <=> g = f
      BY <1>1
    <2>4. \A g \in Documents : Applied(g) = [data |-> Latest(g), draft |-> None]
      BY DEF Applied
    <2>5. \A g \in Documents : Discarded(g) = [data |-> Data(g), draft |-> None]
      BY <1>1 DEF Discarded, Data
    <2> HIDE DEF own, f
    <2>6. \A g \in Settable : g # f => config'[g] = config[g]
      BY <1>1, <2>2, <2>3
    <2>7. f \in Settable =>
            config'[f] = [data |-> IF s = "commit" THEN Latest(f) ELSE Data(f), draft |-> None]
      BY <1>1, <1>6, <2>2, <2>3, <2>4, <2>5
    <2>8. s = "commit" => Latest("runtime")' = Latest("runtime")
      <3>1. s = "commit" => config'["runtime"] \in {Applied("runtime"), config["runtime"]}
        BY <1>1, <2>2
      <3> QED
        BY <3>1 DEF Applied, Latest
    <2> QED
      BY <1>6, <2>6, <2>7, <2>8 DEF f
  <1>7. CASE s = "keep"
    <2>1. config' = [config EXCEPT !["runtime"] = Applied("runtime")]
      BY <1>7 DEF NewConfig
    <2>2. config'["runtime"] = Applied("runtime") /\ \A h \in Settable : config'[h] = config[h]
      BY <1>1, <2>1
    <2>3. Latest("runtime")' = Latest("runtime")
      BY <2>2 DEF Applied, Latest
    <2> QED
      BY <1>7, <2>2, <2>3
  <1>8. CASE s \notin {"draft", "generate", "runtime", "commit", "discard", "keep"}
    <2>1. config' = config
      BY <1>8 DEF NewConfig
    <2> QED
      BY <1>8, <2>1 DEF Latest
  <1> QED
    BY <1>3, <1>4, <1>5, <1>6, <1>7, <1>8

\* What that means for what is in force and what is committed.
LEMMA LatestMoves ==
  ASSUME TInv, NoneIsNoDocument, NEW c, CmdOK(c), Fits(c, Head(c.todo)), NewConfig(c)
  PROVE  LET s == Head(c.todo) f == Document(c.kind) IN
         /\ \A g \in Settable :
              /\ s \notin {"draft", "discard"} \/ g # f => Latest(g)' = Latest(g)
              /\ s # "commit" \/ g # f => Data(g)' = Data(g)
         /\ s = "draft" => Latest(f)' = Patched(f, c.arg)
         /\ s \notin {"draft", "discard", "script", "restore"} /\ NewDisk(c) => Enhanced' = Enhanced
  <1> DEFINE s == Head(c.todo)
             f == Document(c.kind)
  <1>1. /\ \A g \in Settable :
             /\ s \notin {"draft", "commit", "discard"} \/ g # f => config'[g] = config[g]
             /\ s \in {"commit", "discard"} /\ g = f =>
                  config'[g] = [data |-> IF s = "commit" THEN Latest(g) ELSE Data(g), draft |-> None]
        /\ s = "draft" =>
             /\ f \in Settable /\ Patched(f, c.arg) # None
             /\ config'[f] = [data |-> Data(f), draft |-> Patched(f, c.arg)]
    BY DocumentsMove
  <1> HIDE DEF s, f
  <1>2. ASSUME NEW g \in Settable, s \notin {"draft", "discard"} \/ g # f PROVE Latest(g)' = Latest(g)
    <2>1. CASE config'[g] = config[g]
      BY <2>1 DEF Latest
    <2>2. CASE s = "commit" /\ g = f
      <3>1. config'[g] = [data |-> Latest(g), draft |-> None]
        BY <1>1, <2>2
      <3> QED
        BY <3>1 DEF Latest
    <2> QED
      BY <1>1, <1>2, <2>1, <2>2
  <1>3. ASSUME NEW g \in Settable, s # "commit" \/ g # f PROVE Data(g)' = Data(g)
    <2>1. CASE config'[g] = config[g]
      BY <2>1 DEF Data
    <2>2. CASE s = "draft" /\ g = f
      <3>1. config'[g] = [data |-> Data(g), draft |-> Patched(f, c.arg)]
        BY <1>1, <2>2
      <3> QED
        BY <3>1 DEF Data
    <2>3. CASE s = "discard" /\ g = f
      <3>1. config'[g] = [data |-> Data(g), draft |-> None]
        BY <1>1, <2>3
      <3> QED
        BY <3>1 DEF Data
    <2> QED
      BY <1>1, <1>3, <2>1, <2>2, <2>3
  <1>4. s = "draft" => Latest(f)' = Patched(f, c.arg)
    BY <1>1 DEF Latest
  <1>5. ASSUME s \notin {"draft", "discard", "script", "restore"}, NewDisk(c) PROVE Enhanced' = Enhanced
    <2>1. disk'.script = disk.script
      <3>0. DOMAIN disk = {"verge", "clash", "profiles", "script", "run"}
        BY DEF TInv, DiskOK
      <3>1. CASE s \in {"write", "restart"}
        <4>1. disk' = [disk EXCEPT !.run = Latest("runtime")]
          BY <1>5, <3>1 DEF NewDisk, s
        <4> QED
          BY <3>0, <4>1
      <3>2. CASE s = "save"
        <4>1. disk' = [disk EXCEPT ![f] = Latest(f)] /\ f \in Settable
          BY <1>5, <3>2 DEF NewDisk, s, f, Fits, Document, Documented, Settable
        <4> QED
          BY <3>0, <4>1 DEF Settable
      <3>3. CASE s \notin {"write", "restart", "save"}
        BY <1>5, <3>3 DEF NewDisk, s
      <3> QED
        BY <3>1, <3>2, <3>3
    <2>2. Latest("verge")' = Latest("verge") /\ Latest("clash")' = Latest("clash") /\ Latest("profiles")' = Latest("profiles")
      BY <1>2, <1>5 DEF Settable
    <2> QED
      BY <2>1, <2>2 DEF Enhanced
  <1> QED
    BY <1>2, <1>3, <1>4, <1>5 DEF s, f

-----------------------------------------------------------------------------
(* Drafts and the commands they belong to.                                 *)

\* A command that made a draft of f and neither committed nor dropped it.
Open(c, f) ==
    /\ c.kind \in Documented /\ Document(c.kind) = f
    /\ IF c.rolling THEN c.todo # <<>> /\ Head(c.todo) = "discard"
       ELSE "draft" \in c.tried /\ "commit" \notin c.tried

Tracked == \A p \in Procs : cmd[p] # None => Track(cmd[p])

\* A draft belongs to a command.
DraftsOpen ==
    \A f \in Settable : config[f].draft # None => \E p \in Procs : cmd[p] # None /\ Open(cmd[p], f)

\* While a command is alone no other one has changed what settings follow from.
Clean ==
    \A p \in Procs : \A q \in Procs \ {p} :
        cmd[p] # None /\ cmd[q] # None /\ cmd[p].alone => {"draft", "script"} \cap cmd[q].tried = {}

AInv == Tracked /\ DraftsOpen /\ Clean

\* The draft of a document is that of the command that is alone.
LEMMA Closed ==
  ASSUME TInv, AInv, NEW p \in Procs, cmd[p] # None, cmd[p].alone,
         NEW f \in Settable, config[f].draft # None
  PROVE  Open(cmd[p], f)
  <1>1. PICK q \in Procs : cmd[q] # None /\ Open(cmd[q], f)
    BY DEF AInv, DraftsOpen
  <1> DEFINE c == cmd[q]
  <1>2. CmdOK(c) /\ Track(c)
    BY <1>1 DEF TInv, CmdsOK, AInv, Tracked
  <1>3. Open(c, f)
    BY <1>1
  <1>4. q # p => "draft" \notin c.tried
    BY <1>1 DEF AInv, Clean
  <1> HIDE DEF c
  <1>5. "draft" \in c.tried
    <2>1. CASE c.rolling
      <3>1. "discard" \in Todo(c)
        <4>1. c.todo \in Seq(Stages(c)) /\ c.todo # <<>> /\ Head(c.todo) = "discard"
          BY <1>2, <1>3, <2>1 DEF CmdOK, Open
        <4>2. Range(c.todo) = {Head(c.todo)} \cup Range(Tail(c.todo))
          BY <4>1, TailRange
        <4> QED
          BY <4>1, <4>2 DEF Todo
      <3> QED
        BY <1>2, <2>1, <3>1 DEF Track
    <2> QED
      BY <1>3, <2>1 DEF Open
  <1> QED
    BY <1>3, <1>4, <1>5 DEF c

\* What a stage leaves of the commands of the other processes.
LEMMA OthersStay ==
  ASSUME CmdsOK, NEW p \in Procs, NEW d, Goes(p, d), NEW q \in Procs \ {p}, cmd'[q] # None
  PROVE  /\ cmd[q] # None
         /\ Stays(cmd[q], [cmd'[q] EXCEPT !.alone = cmd[q].alone])
         /\ LET c == cmd[q] e == cmd'[q] IN
              /\ e.kind = c.kind /\ e.rolling = c.rolling /\ e.whole = c.whole /\ e.todo = c.todo
              /\ e.tried = c.tried
              /\ e.alone => e = c /\ ~Shared(p, q)
  <1> DEFINE c == cmd[q]
             e == cmd'[q]
  <1>1. CASE c # None /\ Shared(p, q)
    <2>1. e = Disturbed(c) /\ DOMAIN c = Fields
      BY <1>1 DEF Goes, CmdsOK, CmdOK
    <2> HIDE DEF c, e
    <2> QED
      BY <1>1, <2>1 DEF Disturbed, Fields, Stays, c, e
  <1>2. CASE ~(c # None /\ Shared(p, q))
    <2>1. e = c
      BY <1>2 DEF Goes
    <2>2. c # None /\ DOMAIN c = Fields
      BY <2>1 DEF CmdsOK, CmdOK
    <2> HIDE DEF c, e
    <2>3. Stays(c, [e EXCEPT !.alone = c.alone])
      BY <2>1, <2>2 DEF Stays, Fields
    <2> QED
      BY <1>2, <2>1, <2>2, <2>3 DEF c, e
  <1> QED
    BY <1>1, <1>2

\* Where drafts come from.
LEMMA DraftsMove ==
  ASSUME TInv, NoneIsNoDocument, NEW p \in Procs, Stage(p), NEW f \in Settable, config'[f].draft # None
  PROVE  LET s == Head(cmd[p].todo) mine == f = Document(cmd[p].kind) IN
         \/ s = "draft" /\ mine
         \/ config[f].draft # None /\ ~(s \in {"commit", "discard"} /\ mine)
  <1> DEFINE c == cmd[p]
             s == Head(c.todo)
             mine == f = Document(c.kind)
  <1>1. CmdOK(c) /\ Fits(c, s)
    BY StagesContinue
  <1>2. CASE s = "edit"
    <2>1. Edit(p)
      BY <1>2 DEF Stage, Validate, Draft, Port, Enhance, Generate, Check, Write, Put,
         Restart, Launch, SetProxy, SetHotkeys, Tray, SetFirewall, PatchRuntime, Save, Commit,
         Discard, Ends, Keep, SaveScript, Fetch, At
    <2>2. config' = config \/ \E x : config' = WithData("profiles", x)
      BY <2>1, EditOutcome
    <2>3. ASSUME NEW x, config' = WithData("profiles", x) PROVE config'[f].draft = config[f].draft
      <3>1. DOMAIN config = Documents /\ f \in Documents
        BY DEF TInv, ConfigOK, Settable, Documents
      <3> QED
        BY <2>3, <3>1 DEF WithData
    <2> QED
      BY <1>2, <2>2, <2>3
  <1>3. CASE s # "edit"
    <2>1. NewConfig(c) \/ (config' = config /\ s \notin {"commit", "discard"})
      BY <1>3, StageOutcome DEF Outcome, Result, Harm
    <2>2. ASSUME NewConfig(c)
          PROVE  \/ s = "draft" /\ mine
                 \/ config[f].draft # None /\ ~(s \in {"commit", "discard"} /\ mine)
      <3>1. /\ s \notin {"draft", "commit", "discard"} \/ f # Document(c.kind) => config'[f] = config[f]
            /\ s \in {"commit", "discard"} /\ f = Document(c.kind) =>
                   config'[f] = [data |-> IF s = "commit" THEN Latest(f) ELSE Data(f), draft |-> None]
        BY <1>1, <2>2, DocumentsMove
      <3> QED
        BY <3>1
    <2> QED
      BY <2>1, <2>2
  <1> QED
    BY <1>2, <1>3

LEMMA DraftsStage ==
  ASSUME TInv, NoneIsNoCommand, NoneIsNoDocument, AInv, NEW p \in Procs, Stage(p)
  PROVE  DraftsOpen'
  <1> DEFINE c == cmd[p]
             s == Head(c.todo)
  <1>1. CmdOK(c) /\ Fits(c, s) /\ c # None /\ c.todo # <<>> /\ \E d : Goes(p, d) /\ Moving(c, d)
    BY StageMoves
  <1>2. PICK d : Goes(p, d) /\ Moving(c, d)
    BY <1>1
  <1>3. cmd'[p] = d
    BY <1>2 DEF Goes
  <1>4. DOMAIN d = Fields /\ d.kind = c.kind
    BY <1>2 DEF Moving, Passing, Turning, Skipping, Reloading, Stays
  <1>5. d # None
    BY <1>4 DEF NoneIsNoCommand
  <1>6. Track(c)
    BY <1>1 DEF AInv, Tracked
  <1>7. ~c.rolling => Ready(c.kind, s, c.tried)
    BY <1>1, <1>6, AtHead
  <1> SUFFICES ASSUME NEW f \in Settable, config'[f].draft # None
               PROVE  \E q \in Procs : cmd'[q] # None /\ Open(cmd'[q], f)
    BY DEF DraftsOpen
  <1>8. CASE s = "draft" /\ f = Document(c.kind)
    <2>1. ~c.rolling /\ c.kind \in Documented
      BY <1>1, <1>8 DEF Fits
    <2>2. ~d.rolling /\ d.tried = c.tried \cup {"draft"}
      BY <1>2, <1>8, <2>1 DEF Moving, Passing, Reloading, Tries
    <2>3. Open(d, f)
      BY <1>4, <1>7, <1>8, <2>1, <2>2 DEF Open, Ready, Timely
    <2> QED
      BY <1>3, <1>5, <2>3
  <1>9. CASE config[f].draft # None /\ ~(s \in {"commit", "discard"} /\ f = Document(c.kind))
    <2>1. PICK q \in Procs : cmd[q] # None /\ Open(cmd[q], f)
      BY <1>9 DEF AInv, DraftsOpen
    <2>2. CASE q # p
      <3>1. cmd'[q] \in {cmd[q], Disturbed(cmd[q])} /\ DOMAIN cmd[q] = Fields
        BY <1>2, <2>1, <2>2 DEF Goes, TInv, CmdsOK, CmdOK
      <3>2. Left(cmd[q], Disturbed(cmd[q]), cmd[q].todo, cmd[q].tried) /\ Disturbed(cmd[q]).rolling = cmd[q].rolling
        BY <3>1, FieldsChange
      <3>3. DOMAIN cmd'[q] = Fields
        BY <3>1, <3>2 DEF Left, Same
      <3>4. cmd'[q] # None
        BY <3>3 DEF NoneIsNoCommand
      <3>5. Open(cmd'[q], f)
        BY <2>1, <3>1, <3>2 DEF Open, Left, Same
      <3> QED
        BY <3>4, <3>5
    <2>3. CASE q = p
      <3>1. c.kind \in Documented /\ Document(c.kind) = f
        BY <2>1, <2>3 DEF Open
      <3>2. s \notin {"commit", "discard"}
        BY <1>9, <3>1
      <3>3. ~c.rolling /\ "draft" \in c.tried /\ "commit" \notin c.tried
        BY <2>1, <2>3, <3>2 DEF Open
      <3>4. d.tried = c.tried \cup {s}
        BY <1>2, <3>3 DEF Moving, Passing, Turning, Skipping, Reloading, Tries
      <3>5. CASE d.rolling
        <4>1. PICK a : a.kind = c.kind /\ a.tried = d.tried /\ d.todo = Rollback(a)
          BY <1>2, <3>3, <3>5 DEF Moving, Passing, Turning, Skipping, Reloading
        <4>2. d.todo # <<>> /\ Head(d.todo) = "discard"
          BY <3>1, <3>3, <3>4, <4>1, DraftsDropped
        <4> QED
          BY <1>3, <1>4, <1>5, <3>1, <3>5, <4>2 DEF Open
      <3>6. CASE ~d.rolling
        BY <1>3, <1>4, <1>5, <3>1, <3>2, <3>3, <3>4, <3>6 DEF Open
      <3> QED
        BY <3>5, <3>6
    <2> QED
      BY <2>2, <2>3
  <1> QED
    BY <1>8, <1>9, DraftsMove

LEMMA CleanStage ==
  ASSUME TInv, NoneIsNoCommand, AInv, NEW p \in Procs, Stage(p)
  PROVE  Tracked' /\ Clean'
  <1> DEFINE c == cmd[p]
             s == Head(c.todo)
  <1>1. CmdOK(c) /\ Fits(c, s) /\ c # None /\ c.todo # <<>> /\ \E d : Goes(p, d) /\ Moving(c, d)
    BY StageMoves
  <1>2. PICK d : Goes(p, d) /\ Moving(c, d)
    BY <1>1
  <1>3. cmd'[p] = d
    BY <1>2 DEF Goes
  <1>4. d.alone = c.alone /\ d.tried \subseteq c.tried \cup {s}
    BY <1>2 DEF Moving, Passing, Turning, Skipping, Reloading, Stays, Tries
  <1>5. Track(d)
    BY <1>1, <1>2, TrackKept DEF AInv, Tracked
  <1>6. ASSUME NEW q \in Procs \ {p}, cmd'[q] # None
        PROVE  /\ cmd[q] # None /\ cmd'[q].kind = cmd[q].kind /\ cmd'[q].todo = cmd[q].todo
               /\ cmd'[q].tried = cmd[q].tried /\ cmd'[q].rolling = cmd[q].rolling
               /\ cmd'[q].whole = cmd[q].whole
               /\ cmd'[q].alone => cmd[q].alone /\ ~Shared(p, q)
    BY <1>2, <1>6, OthersStay DEF TInv
  <1>7. ASSUME NEW q \in Procs \ {p}, cmd'[q] # None PROVE Track(cmd'[q])
    <2>1. Track(cmd[q])
      BY <1>6, <1>7 DEF AInv, Tracked
    <2> DEFINE b == cmd[q]
               e == cmd'[q]
    <2>2. e.kind = b.kind /\ e.todo = b.todo /\ e.tried = b.tried /\ e.rolling = b.rolling /\ e.whole = b.whole
      BY <1>6, <1>7
    <2> HIDE DEF b, e
    <2>3. Track(e)
      BY <2>1, <2>2 DEF b, Track, Retracing, Grounded, Todo
    <2> QED
      BY <2>3 DEF e
  <1>8. Tracked'
    BY <1>3, <1>5, <1>7 DEF Tracked
  <1>9. ASSUME NEW q \in Procs, NEW r \in Procs \ {q}, cmd'[q] # None, cmd'[r] # None, cmd'[q].alone
        PROVE  {"draft", "script"} \cap cmd'[r].tried = {}
    <2>1. CASE q = p
      BY <1>1, <1>3, <1>4, <1>6, <1>9, <2>1 DEF AInv, Clean
    <2>2. CASE q # p /\ r = p
      <3>1. {"draft", "script"} \cap c.tried = {} /\ ~Shared(p, q)
        BY <1>1, <1>6, <1>9, <2>2 DEF AInv, Clean
      <3>2. s \notin {"draft", "script"}
        BY <3>1 DEF Shared
      <3> QED
        BY <1>3, <1>4, <2>2, <3>1, <3>2
    <2>3. CASE q # p /\ r # p
      BY <1>6, <1>9, <2>3 DEF AInv, Clean
    <2> QED
      BY <2>1, <2>2, <2>3
  <1>10. Clean'
    BY <1>9 DEF Clean
  <1> QED
    BY <1>8, <1>10

LEMMA AInit ==
  ASSUME Init
  PROVE  AInv
  <1>1. \A p \in Procs : cmd[p] = None
    BY DEF Init
  <1>2. \A f \in Settable : config[f].draft = None
    BY DEF Init, Settable, Documents
  <1> QED
    BY <1>1, <1>2 DEF AInv, Tracked, DraftsOpen, Clean

\* The command that begins.
Fresh(d) ==
    /\ DOMAIN d = Fields /\ d.kind \in Kinds /\ d.todo = Plan(d.kind, d.arg) /\ d.tried = {}
    /\ d.rolling = FALSE /\ d.whole = TRUE /\ d.swallowed = FALSE
    /\ d.before = [config |-> config, disk |-> disk, core |-> core, proxy |-> proxy,
                   launch |-> launch, hotkeys |-> hotkeys, firewall |-> firewall]

LEMMA BeginIs ==
  ASSUME TInv, NEW p \in Procs, Begin(p)
  PROVE  /\ cmd[p] = None /\ Fresh(cmd'[p]) /\ cmd'[p].alone = (\A q \in Procs \ {p} : cmd[q] = None)
         /\ \A q \in Procs \ {p} : cmd'[q] = cmd[q]
         /\ UNCHANGED <<config, disk, effects>>
  <1> PICK c \in Commands[p] :
        cmd' = [cmd EXCEPT ![p] =
              [kind |-> c.kind, arg |-> c.arg, todo |-> Plan(c.kind, c.arg), tried |-> {},
               local |-> None, previous |-> None, rolling |-> FALSE, whole |-> TRUE,
               swallowed |-> FALSE, alone |-> \A q \in Procs \ {p} : cmd[q] = None,
               before |-> [config |-> config, disk |-> disk, core |-> core, proxy |-> proxy,
                           launch |-> launch, hotkeys |-> hotkeys, firewall |-> firewall]]]
    BY DEF Begin
  <1>1. DOMAIN cmd = Procs /\ cmd[p] = None
    BY DEF TInv, CmdsOK, Begin
  <1>2. c.kind \in Kinds
    BY SettingsAssumption DEF IsCommand
  <1> DEFINE b == [config |-> config, disk |-> disk, core |-> core, proxy |-> proxy,
                   launch |-> launch, hotkeys |-> hotkeys, firewall |-> firewall]
             l == \A q \in Procs \ {p} : cmd[q] = None
             t == Plan(c.kind, c.arg)
             d == [kind |-> c.kind, arg |-> c.arg, todo |-> t, tried |-> {},
                   local |-> None, previous |-> None, rolling |-> FALSE, whole |-> TRUE,
                   swallowed |-> FALSE, alone |-> l, before |-> b]
  <1>3. cmd' = [cmd EXCEPT ![p] = d]
    OBVIOUS
  <1> HIDE DEF b, l, t
  <1>4. /\ DOMAIN d = Fields /\ d.kind = c.kind /\ d.arg = c.arg /\ d.todo = t /\ d.tried = {}
        /\ d.rolling = FALSE /\ d.whole = TRUE /\ d.swallowed = FALSE /\ d.alone = l /\ d.before = b
    BY DEF Fields
  <1> HIDE DEF d
  <1>5. cmd'[p] = d /\ \A q \in Procs \ {p} : cmd'[q] = cmd[q]
    BY <1>1, <1>3
  <1>6. Fresh(d)
    BY <1>2, <1>4 DEF Fresh, t, b
  <1>7. UNCHANGED <<config, disk, effects>>
    BY DEF Begin
  <1> QED
    BY <1>1, <1>4, <1>5, <1>6, <1>7 DEF l

LEMMA FreshTracked ==
  ASSUME NEW d, Fresh(d)
  PROVE  Track(d)
  <1>1. PICK r : Planned(d.kind, Plan(d.kind, d.arg), {}, r) /\ Whole(d.kind, r)
    BY PlanLegal DEF Fresh
  <1>2. Legal(d.kind, d.todo, d.tried) /\ Todo(d) = r
    BY <1>1 DEF Fresh, Planned, Todo
  <1>3. d.tried \cup Todo(d) = r
    BY <1>2 DEF Fresh
  <1>4. Whole(d.kind, d.tried \cup Todo(d))
    BY <1>1, <1>3
  <1>5. ~d.rolling /\ Grounded(d)
    BY DEF Fresh, Grounded
  <1> QED
    BY <1>2, <1>4, <1>5 DEF Track

LEMMA ABegin ==
  ASSUME TInv, AInv, NEW p \in Procs, Begin(p)
  PROVE  AInv'
  <1> DEFINE d == cmd'[p]
  <1>1. /\ cmd[p] = None /\ Fresh(d) /\ d.alone = (\A q \in Procs \ {p} : cmd[q] = None)
        /\ \A q \in Procs \ {p} : cmd'[q] = cmd[q]
        /\ UNCHANGED <<config, disk, effects>>
    BY BeginIs
  <1>2. Track(d) /\ d.tried = {}
    BY <1>1, FreshTracked DEF Fresh
  <1> HIDE DEF d
  <1>3. Tracked'
    BY <1>1, <1>2 DEF AInv, Tracked, d
  <1>4. DraftsOpen'
    <2> SUFFICES ASSUME NEW f \in Settable, config'[f].draft # None
                 PROVE  \E q \in Procs : cmd'[q] # None /\ Open(cmd'[q], f)
      BY DEF DraftsOpen
    <2>1. PICK q \in Procs : cmd[q] # None /\ Open(cmd[q], f)
      BY <1>1 DEF AInv, DraftsOpen
    <2>2. cmd'[q] = cmd[q]
      BY <1>1, <2>1
    <2> QED
      BY <2>1, <2>2
  <1>5. Clean'
    <2> SUFFICES ASSUME NEW q \in Procs, NEW r \in Procs \ {q}, cmd'[q] # None, cmd'[r] # None, cmd'[q].alone
                 PROVE  {"draft", "script"} \cap cmd'[r].tried = {}
      BY DEF Clean
    <2>1. CASE q = p
      BY <1>1, <2>1 DEF d
    <2>2. CASE r = p
      BY <1>2, <2>2 DEF d
    <2>3. CASE q # p /\ r # p
      BY <1>1, <2>3 DEF AInv, Clean
    <2> QED
      BY <2>1, <2>2, <2>3
  <1> QED
    BY <1>3, <1>4, <1>5 DEF AInv

LEMMA AFinish ==
  ASSUME TInv, AInv, NEW p \in Procs, Finish(p)
  PROVE  AInv'
  <1>1. DOMAIN cmd = Procs
    BY DEF TInv, CmdsOK
  <1>2. cmd[p] # None /\ cmd[p].todo = <<>> /\ cmd'[p] = None /\ \A q \in Procs \ {p} : cmd'[q] = cmd[q]
    BY <1>1 DEF Finish
  <1>3. UNCHANGED <<config, disk>>
    BY DEF Finish
  <1>4. Tracked'
    BY <1>2 DEF AInv, Tracked
  <1>5. Clean'
    BY <1>2 DEF AInv, Clean
  <1>6. DraftsOpen'
    <2> SUFFICES ASSUME NEW f \in Settable, config'[f].draft # None
                 PROVE  \E q \in Procs : cmd'[q] # None /\ Open(cmd'[q], f)
      BY DEF DraftsOpen
    <2>1. PICK q \in Procs : cmd[q] # None /\ Open(cmd[q], f)
      BY <1>3 DEF AInv, DraftsOpen
    <2>2. q # p
      <3> SUFFICES ASSUME q = p PROVE FALSE
        OBVIOUS
      <3> DEFINE c == cmd[p]
      <3>1. Open(c, f) /\ Track(c) /\ c.todo = <<>>
        BY <1>2, <2>1 DEF AInv, Tracked
      <3> HIDE DEF c
      <3>2. Todo(c) = {}
        BY <3>1, LegalNone DEF Todo
      <3>3. ~c.rolling /\ "commit" \notin c.tried /\ c.kind \in Documented
        BY <3>1 DEF Open
      <3> QED
        BY <3>1, <3>2, <3>3 DEF Track, Whole
    <2>3. cmd'[q] = cmd[q]
      BY <1>2, <2>2
    <2> QED
      BY <2>1, <2>3
  <1> QED
    BY <1>4, <1>5, <1>6 DEF AInv

LEMMA ANext ==
  ASSUME TInv, NoneIsNoCommand, NoneIsNoDocument, AInv, [Next]_vars
  PROVE  AInv'
  <1>1. CASE UNCHANGED vars \/ Recover
    <2>1. UNCHANGED <<config, cmd>>
      BY <1>1 DEF vars, Recover
    <2> QED
      BY <2>1 DEF AInv, Tracked, DraftsOpen, Clean
  <1>2. ASSUME NEW p \in Procs, Stage(p) PROVE AInv'
    BY <1>2, DraftsStage, CleanStage DEF AInv
  <1>3. CASE Next
    <2>1. Recover \/ \E p \in Procs : Begin(p) \/ Finish(p) \/ Stage(p)
      BY <1>3 DEF Next, Stage
    <2> QED
      BY <1>1, <1>2, <2>1, ABegin, AFinish
  <1> QED
    BY <1>1, <1>3

-----------------------------------------------------------------------------
(* What a command that is alone, and whose rollback skipped nothing, has   *)
(* done to its document, the script, the core and the other effects.       *)

\* The saved document is the old one until the new one is saved for good.
FineDocument(c) ==
    LET f == Document(c.kind) IN
    c.kind \in Documented =>
        /\ c.before.config[f].draft = None
        /\ "commit" \notin c.tried => Data(f) = c.before.config[f].data
        /\ disk[f] = IF "save" \in c.tried /\ ~c.rolling THEN Latest(f) ELSE c.before.disk[f]

FineScript(c) ==
    c.kind = "script" =>
        /\ IF c.rolling THEN "restore" \notin Todo(c) => disk.script = c.before.disk.script
           ELSE disk.script = IF "script" \in c.tried THEN c.arg.script ELSE c.before.disk.script
        /\ (IF c.rolling THEN "restore" \in Todo(c) ELSE "script" \in c.tried)
             => c.previous = c.before.disk.script

Running == [config |-> Enhanced, service |-> Latest("verge").service]
Loading == core # None /\ core.config = Enhanced
Untouched(c) == c.before.core # None => core = c.before.core

\* The way forward: generated, stored, written, taken by the core.
CoreForward(c) ==
    /\ "enhance" \in c.tried => c.local = Enhanced
    /\ "generate" \in c.tried /\ "runtime" \notin c.tried => Latest("runtime") = Enhanced
    /\ "write" \in c.tried /\ "runtime" \notin c.tried => disk.run = Enhanced
    /\ "put" \in c.tried => Loading
    /\ "restart" \in c.tried => core = Running
    /\ {"put", "restart"} \cap c.tried = {} => Untouched(c)

\* The same on the way back, for what is no longer to do.
CoreBack(c) ==
    /\ "enhance" \notin Todo(c) /\ "generate" \in Todo(c) => c.local = Enhanced
    /\ "generate" \notin Todo(c) /\ Todo(c) \cap Generating # {} => Latest("runtime") = Enhanced
    /\ "put" \in Todo(c) /\ "write" \notin Todo(c) => disk.run = Enhanced
    /\ "restart" \in c.tried /\ "restart" \notin Todo(c) => core = Running
    /\ "restart" \notin c.tried /\ "check" \in c.tried /\ c.kind # "core" /\ "put" \notin Todo(c) => Loading
    /\ "restart" \notin c.tried /\ ("check" \notin c.tried \/ c.kind = "core") => Untouched(c)

FineCore(c) ==
    c.kind \in Documented \cup {"script"} =>
        /\ ~c.rolling => CoreForward(c)
        /\ c.rolling /\ c.kind # "switch" => CoreBack(c)

\* An effect that was carried out, and carried out again on the way back.
Carried(c, s) == s \in c.tried /\ (c.rolling => s \notin Todo(c))

Launched(v, l) == IF v.launch THEN l.task = "ours" ELSE ~Owned(l)

FineSwitches(c) ==
    LET v == Latest("verge") IN
    c.kind \in Patches =>
        /\ "proxy" \notin c.tried => proxy = c.before.proxy
        /\ Carried(c, "proxy") => proxy = WantedProxy(v)
        /\ "launch" \notin c.tried => launch = c.before.launch
        /\ Carried(c, "launch") => c.swallowed \/ Launched(v, launch)
        /\ "hotkeys" \notin c.tried => hotkeys = c.before.hotkeys
        /\ Carried(c, "hotkeys") => hotkeys = v.hotkeys
        /\ ~c.rolling /\ "draft" \in c.tried /\ c.kind = "verge" /\ "hotkeys" \in DOMAIN c.arg
             => v.hotkeys = c.arg.hotkeys

FineRules(c) ==
    LET old == c.before.config["clash"].data.lan IN
    c.kind \in Patches =>
        /\ "firewall" \notin c.tried => firewall = c.before.firewall
        /\ "firewall" \in c.tried /\ (c.rolling => "draft" \in c.tried) => c.previous = old
        /\ "firewall" \in c.tried /\ ~c.rolling => "lan" \in DOMAIN c.arg /\ firewall = RulesFor(c.arg.lan)
        /\ Carried(c, "firewall") /\ c.rolling /\ "draft" \in c.tried => firewall = RulesFor(old)
        /\ ~c.rolling /\ "draft" \in c.tried /\ c.kind = "clash" /\ "lan" \in DOMAIN c.arg
             => Latest("clash").lan = c.arg.lan

Fine(c) == FineDocument(c) /\ FineScript(c) /\ FineCore(c) /\ FineSwitches(c) /\ FineRules(c)

\* A command at a stage of its own, when the drafts there are are its own.
Alone(c) == \A f \in Settable : config[f].draft # None => Open(c, f)
Stepping(c) ==
    /\ CmdOK(c) /\ c.todo # <<>> /\ Fits(c, Head(c.todo))
    /\ Track(c) /\ c.whole /\ Alone(c)

\* What a command at a stage knows of it.
LEMMA Knows ==
  ASSUME NEW c, Stepping(c)
  PROVE  LET s == Head(c.todo) rest == Range(Tail(c.todo)) u == Undo(c.kind, c.tried) IN
         /\ ~c.rolling => Needs(c.kind, s, c.tried) /\ Timely(s, c.tried)
         /\ c.rolling => /\ s \in u /\ rest \subseteq u /\ Then(s, rest) /\ "commit" \notin c.tried
                         /\ s \in {"discard", "restore"} => u = {s} \cup rest
                         /\ {"generate", "put"} \subseteq Todo(c) => "write" \in Todo(c)
                         /\ "put" \in Todo(c) => "check" \in c.tried
         /\ Todo(c) = {s} \cup rest
         /\ c.rolling \in BOOLEAN /\ c.kind \in Kinds
         /\ Grounded(c)
  <1> DEFINE s == Head(c.todo)
             rest == Range(Tail(c.todo))
             u == Undo(c.kind, c.tried)
  <1>1. CmdOK(c) /\ c.todo # <<>> /\ Track(c) /\ c.whole
    BY DEF Stepping
  <1>2. /\ Todo(c) = {s} \cup rest
        /\ ~c.rolling => Ready(c.kind, s, c.tried)
        /\ c.rolling /\ c.whole => Then(s, rest)
    BY <1>1, AtHead
  <1>3. c.rolling \in BOOLEAN /\ c.kind \in Kinds
    BY <1>1 DEF CmdOK, IsCommand
  <1> HIDE DEF s, rest, u
  <1>4. c.rolling => Retracing(c) /\ "commit" \notin c.tried
    BY <1>1 DEF Track
  <1>5. c.rolling => /\ s \in u /\ rest \subseteq u
                     /\ s \in {"discard", "restore"} => u = {s} \cup rest
    BY <1>2, <1>4 DEF Retracing, u
  <1>6. Grounded(c)
    BY <1>1 DEF Track
  <1> QED
    BY <1>1, <1>2, <1>3, <1>4, <1>5, <1>6 DEF Ready, Retracing, s, rest, u

\* The stages of a rollback.
LEMMA UndoIs ==
  ASSUME NEW k, NEW done
  PROVE  Undo(k, done) \subseteq {"discard", "restore", "enhance", "generate", "check", "write", "put",
                                  "restart", "keep"} \cup Redone
  BY DEF Undo, UndoCore

\* What a stage that passes leaves on disk.
LEMMA DiskMoves ==
  ASSUME TInv, NEW c, CmdOK(c), Fits(c, Head(c.todo)), NewDisk(c)
  PROVE  LET s == Head(c.todo) f == Document(c.kind) IN
         /\ \A g \in Settable : disk'[g] = IF s = "save" /\ g = f THEN Latest(g) ELSE disk[g]
         /\ disk'.script = IF s \in {"script", "restore"}
                           THEN IF c.rolling THEN c.previous ELSE c.arg.script ELSE disk.script
         /\ disk'.run = IF s \in {"write", "restart"} THEN Latest("runtime") ELSE disk.run
  <1> DEFINE s == Head(c.todo)
             f == Document(c.kind)
  <1>0. DOMAIN disk = {"verge", "clash", "profiles", "script", "run"}
    BY DEF TInv, DiskOK
  <1>1. CASE s \in {"write", "restart"}
    <2>1. disk' = [disk EXCEPT !.run = Latest("runtime")]
      BY <1>1 DEF NewDisk
    <2> QED
      BY <1>0, <1>1, <2>1 DEF Settable
  <1>2. CASE s = "save"
    <2>1. disk' = [disk EXCEPT ![f] = Latest(f)] /\ f \in Settable
      BY <1>2 DEF NewDisk, Fits, Document, Documented, Settable
    <2> HIDE DEF f
    <2>2. disk'[f] = Latest(f) /\ \A x \in DOMAIN disk : x # f => disk'[x] = disk[x]
      BY <1>0, <2>1 DEF Settable
    <2>3. disk'.script = disk.script /\ disk'.run = disk.run
      BY <1>0, <2>1, <2>2 DEF Settable
    <2> QED
      BY <1>0, <1>2, <2>2, <2>3 DEF Settable, f
  <1>3. CASE s \in {"script", "restore"}
    <2> DEFINE x == IF c.rolling THEN c.previous ELSE c.arg.script
    <2>1. disk' = [disk EXCEPT !.script = x]
      BY <1>3 DEF NewDisk
    <2> HIDE DEF x
    <2>2. disk'.script = x /\ disk'.run = disk.run /\ \A g \in Settable : disk'[g] = disk[g]
      BY <1>0, <2>1 DEF Settable
    <2> QED
      BY <1>3, <2>2 DEF x
  <1>4. CASE s \notin {"write", "restart", "save", "script", "restore"}
    BY <1>4 DEF NewDisk
  <1> QED
    BY <1>1, <1>2, <1>3, <1>4

LEMMA DocumentPassed ==
  ASSUME TInv, NoneIsNoDocument, NEW c, NEW d, Stepping(c), FineDocument(c), Result(c, d)
  PROVE  FineDocument(d)'
  <1> DEFINE s == Head(c.todo)
             f == Document(c.kind)
             old == c.before.config[f]
  <1> SUFFICES ASSUME c.kind \in Documented PROVE FineDocument(d)'
    BY DEF FineDocument, Result, Passing, Stays
  <1>1. /\ d.kind = c.kind /\ d.before = c.before /\ d.rolling = c.rolling /\ d.tried = Tries(c)
        /\ NewConfig(c) /\ NewDisk(c)
    BY DEF Result, Passing, Stays
  <1>2. CmdOK(c) /\ Fits(c, s) /\ f \in Settable
    BY DEF Stepping, Document, Documented, Settable
  <1>3. /\ s # "draft" /\ s # "discard" => Latest(f)' = Latest(f)
        /\ s # "commit" => Data(f)' = Data(f)
    BY <1>1, <1>2, LatestMoves
  <1>4. disk'[f] = IF s = "save" THEN Latest(f) ELSE disk[f]
    BY <1>1, <1>2, DiskMoves
  <1>5. /\ ~c.rolling => Timely(s, c.tried) /\ d.tried = c.tried \cup {s}
        /\ c.rolling => s # "commit" /\ s # "save" /\ d.tried = c.tried
    BY <1>1, Knows, UndoIs DEF Tries, Redone
  <1>6. /\ old.draft = None
        /\ "commit" \notin c.tried => Data(f) = old.data
        /\ disk[f] = IF "save" \in c.tried /\ ~c.rolling THEN Latest(f) ELSE c.before.disk[f]
    BY DEF FineDocument
  <1> HIDE DEF s, f
  <1>7. "commit" \notin d.tried => Data(f)' = old.data
    BY <1>3, <1>5, <1>6
  <1>8. disk'[f] = IF "save" \in d.tried /\ ~d.rolling THEN Latest(f)' ELSE c.before.disk[f]
    <2>1. CASE c.rolling
      BY <1>1, <1>4, <1>5, <1>6, <2>1
    <2>2. CASE ~c.rolling /\ s = "save"
      BY <1>1, <1>3, <1>4, <1>5, <2>2
    <2>3. CASE ~c.rolling /\ s # "save"
      <3>1. "save" \in c.tried => s = "commit"
        BY <1>5, <2>3 DEF Timely
      <3> QED
        BY <1>1, <1>3, <1>4, <1>5, <1>6, <2>3, <3>1
    <2> QED
      BY <2>1, <2>2, <2>3
  <1> QED
    BY <1>1, <1>6, <1>7, <1>8 DEF FineDocument, f

LEMMA DocumentTurned ==
  ASSUME TInv, NEW c, NEW d, Stepping(c), FineDocument(c), Turning(c, d), Harm(c)
  PROVE  FineDocument(d)'
  <1> DEFINE s == Head(c.todo)
             f == Document(c.kind)
  <1> SUFFICES ASSUME c.kind \in Documented PROVE FineDocument(d)'
    BY DEF FineDocument, Turning, Stays
  <1>1. d.kind = c.kind /\ d.before = c.before /\ ~c.rolling /\ d.rolling /\ d.tried = c.tried \cup {s}
    BY DEF Turning, Stays, Tries
  <1>2. f \in Settable /\ config' = config
    BY DEF Document, Documented, Settable, Harm
  <1>3. disk'[f] = disk[f]
    <2>1. disk' = disk \/ \E r : disk' = [disk EXCEPT !.run = r]
      BY DEF Harm
    <2>2. DOMAIN disk = {"verge", "clash", "profiles", "script", "run"}
      BY DEF TInv, DiskOK
    <2> HIDE DEF f
    <2>3. ASSUME NEW r, disk' = [disk EXCEPT !.run = r] PROVE disk'[f] = disk[f]
      BY <1>2, <2>2, <2>3 DEF Settable
    <2> QED
      BY <2>1, <2>3
  <1>4. "save" \notin c.tried
    BY <1>1, Knows DEF Timely, Harm
  <1> HIDE DEF s
  <1>5. Data(f)' = Data(f)
    BY <1>2 DEF Data
  <1> HIDE DEF f
  <1> QED
    BY <1>1, <1>3, <1>4, <1>5 DEF FineDocument, f

LEMMA ScriptPassed ==
  ASSUME TInv, NEW c, NEW d, Stepping(c), FineScript(c), Result(c, d)
  PROVE  FineScript(d)'
  <1> DEFINE s == Head(c.todo)
             rest == Range(Tail(c.todo))
             old == c.before.disk.script
  <1> SUFFICES ASSUME c.kind = "script" PROVE FineScript(d)'
    BY DEF FineScript, Result, Passing, Stays
  <1>1. /\ d.kind = c.kind /\ d.before = c.before /\ d.arg = c.arg /\ d.rolling = c.rolling
        /\ d.tried = Tries(c) /\ Todo(d) = rest /\ NewDisk(c) /\ NewNotes(c, d)
    BY DEF Result, Passing, Stays, Todo
  <1>2. CmdOK(c) /\ Fits(c, s)
    BY DEF Stepping
  <1>3. disk'.script = IF s \in {"script", "restore"}
                       THEN IF c.rolling THEN c.previous ELSE c.arg.script ELSE disk.script
    BY <1>1, <1>2, DiskMoves
  <1>4. Todo(c) = {s} \cup rest /\ c.rolling \in BOOLEAN
    BY Knows
  <1>5. CASE ~c.rolling
    <2>1. d.tried = c.tried \cup {s} /\ Timely(s, c.tried)
      BY <1>1, <1>5, Knows DEF Tries
    <2>2. /\ disk.script = IF "script" \in c.tried THEN c.arg.script ELSE old
          /\ "script" \in c.tried => c.previous = old
      BY <1>5 DEF FineScript
    <2>3. s # "firewall"
      BY <1>2, <1>5 DEF Fits
    <2>4. d.previous = IF s \in {"script", "restore"} THEN disk.script ELSE c.previous
      BY <1>1, <1>5, <2>3 DEF NewNotes
    <2> HIDE DEF s, rest
    <2>5. CASE s = "script"
      BY <1>1, <1>3, <1>5, <2>1, <2>2, <2>4, <2>5 DEF FineScript, Timely
    <2>6. CASE s # "script"
      <3>1. s # "restore"
        BY <2>1 DEF Timely
      <3> QED
        BY <1>1, <1>3, <1>5, <2>1, <2>2, <2>4, <2>6, <3>1 DEF FineScript
    <2> QED
      BY <2>5, <2>6
  <1>6. CASE c.rolling
    <2>1. s # "script" /\ d.previous = c.previous
      BY <1>1, <1>2, <1>6 DEF NewNotes, Fits
    <2>2. /\ "restore" \notin Todo(c) => disk.script = old
          /\ "restore" \in Todo(c) => c.previous = old
      BY <1>6 DEF FineScript
    <2> HIDE DEF s, rest
    <2> QED
      BY <1>1, <1>3, <1>4, <1>6, <2>1, <2>2 DEF FineScript
  <1> QED
    BY <1>4, <1>5, <1>6

\* A command that starts its rollback.
LEMMA Turned ==
  ASSUME NEW c, Stepping(c), NEW d, Turning(c, d)
  PROVE  /\ d.kind = c.kind /\ d.before = c.before /\ d.arg = c.arg /\ ~c.rolling /\ d.rolling
         /\ d.tried = c.tried \cup {Head(c.todo)}
         /\ d.previous = c.previous /\ d.local = c.local /\ d.swallowed = c.swallowed
         /\ Todo(d) = Undo(d.kind, d.tried)
  <1>1. PICK a : a.kind = c.kind /\ a.tried = d.tried /\ d.todo = Rollback(a)
    BY DEF Turning
  <1>2. /\ d.kind = c.kind /\ d.before = c.before /\ d.arg = c.arg /\ ~c.rolling /\ d.rolling
        /\ d.tried = c.tried \cup {Head(c.todo)}
        /\ d.previous = c.previous /\ d.local = c.local /\ d.swallowed = c.swallowed
    BY DEF Turning, Stays, Notes, Tries
  <1>3. a.kind \in Kinds /\ a.kind = d.kind
    BY <1>1, <1>2, Knows
  <1>4. Undone(Rollback(a), Undo(a.kind, a.tried))
    BY <1>3, RollbackUndoes
  <1>5. Todo(d) = Undo(d.kind, d.tried)
    BY <1>1, <1>3, <1>4 DEF Undone, Todo
  <1> QED
    BY <1>2, <1>5

LEMMA ScriptTurned ==
  ASSUME TInv, NEW c, NEW d, Stepping(c), FineScript(c), Turning(c, d), Harm(c)
  PROVE  FineScript(d)'
  <1> DEFINE s == Head(c.todo)
             old == c.before.disk.script
  <1> SUFFICES ASSUME c.kind = "script" PROVE FineScript(d)'
    BY DEF FineScript, Turning, Stays
  <1>1. /\ d.kind = c.kind /\ d.before = c.before /\ d.arg = c.arg /\ ~c.rolling /\ d.rolling
        /\ d.tried = c.tried \cup {s} /\ d.previous = c.previous
    BY DEF Turning, Stays, Tries, Notes
  <1>2. Needs("script", s, c.tried) /\ Timely(s, c.tried)
    BY <1>1, Knows
  <1>3. disk'.script = disk.script
    <2>1. disk' = disk \/ \E r : disk' = [disk EXCEPT !.run = r]
      BY DEF Harm
    <2>2. DOMAIN disk = {"verge", "clash", "profiles", "script", "run"}
      BY DEF TInv, DiskOK
    <2> QED
      BY <2>1, <2>2
  <1>4. Todo(d) = Undo(d.kind, d.tried)
    BY Turned
  <1>5. /\ disk.script = IF "script" \in c.tried THEN c.arg.script ELSE old
        /\ "script" \in c.tried => c.previous = old
    BY <1>1 DEF FineScript
  <1> HIDE DEF s
  <1>6. CASE s = "script"
    <2>1. c.tried = {} /\ d.tried = {"script"}
      BY <1>1, <1>2, <1>6 DEF Timely
    <2>2. Todo(d) = {}
      BY <1>1, <1>4, <2>1 DEF Undo
    <2> QED
      BY <1>1, <1>3, <1>5, <2>1, <2>2 DEF FineScript
  <1>7. CASE s # "script"
    <2>1. "script" \in c.tried /\ d.tried # {"script"}
      BY <1>1, <1>2, <1>7 DEF Needs
    <2>2. "restore" \in Todo(d)
      BY <1>1, <1>4, <2>1 DEF Undo
    <2> QED
      BY <1>1, <1>3, <1>5, <2>1, <2>2 DEF FineScript
  <1> QED
    BY <1>6, <1>7

\* The core on the way forward.
LEMMA CorePassed ==
  ASSUME TInv, NoneIsNoDocument, NEW c, NEW d, Stepping(c), FineCore(c), Result(c, d), ~c.rolling
  PROVE  FineCore(d)'
  <1> DEFINE s == Head(c.todo)
             E == Enhanced
             R == Latest("runtime")
             V == Latest("verge")
  <1> SUFFICES ASSUME c.kind \in Documented \cup {"script"} PROVE CoreForward(d)'
    BY DEF FineCore, Result, Passing, Stays
  <1>1. /\ d.kind = c.kind /\ d.before = c.before /\ d.tried = c.tried \cup {s}
        /\ NewConfig(c) /\ NewDisk(c) /\ NewWorld(c, d) /\ NewNotes(c, d)
    BY DEF Result, Passing, Stays, Tries
  <1>2. CmdOK(c) /\ Fits(c, s)
    BY DEF Stepping
  <1>3. Needs(c.kind, s, c.tried) /\ Timely(s, c.tried)
    BY Knows
  <1>4. CoreForward(c)
    BY DEF FineCore
  <1>5. d.local = IF s = "enhance" THEN E ELSE c.local
    BY <1>1 DEF NewNotes
  <1>6. disk'.run = IF s \in {"write", "restart"} THEN R ELSE disk.run
    BY <1>1, <1>2, DiskMoves
  <1>7. /\ s \notin {"put", "restart"} => core' = core
        /\ s = "put" => core # None /\ core' = [core EXCEPT !.config = disk.run]
        /\ s = "restart" => core' = [config |-> R, service |-> V.service]
    BY <1>1 DEF NewWorld, Started
  <1>8. CASE s \in {"draft", "script"}
    <2>1. {"enhance", "generate", "write", "put", "restart"} \cap d.tried = {}
      BY <1>1, <1>3, <1>8 DEF Timely
    <2>2. core' = core /\ {"put", "restart"} \cap c.tried = {}
      BY <1>1, <1>7, <1>8, <2>1
    <2> QED
      BY <1>1, <1>4, <2>1, <2>2 DEF CoreForward, Untouched
  <1>9. CASE s \notin {"draft", "script"}
    <2>0. s \notin {"discard", "restore"}
      BY <1>3 DEF Timely
    <2>1. E' = E /\ V' = V
      BY <1>1, <1>2, <1>9, <2>0, LatestMoves DEF Settable
    <2>2. E \in Runs
      BY DocumentsAre, GeneratedIs DEF TInv, DiskOK, Enhanced
    <2>3. /\ s = "generate" /\ c.local # None => R' = c.local
          /\ s \notin {"generate", "runtime"} => R' = R
      BY <1>1, <1>2, <2>0, DocumentsMove
    <2>4. core # None => DOMAIN core = {"config", "service"} /\ core = [config |-> core.config, service |-> core.service]
      BY DEF TInv, CoreOK
    <2>5. E # None /\ [config |-> E, service |-> V.service] # None
      <3>1. V.service \in BOOLEAN
        BY DocumentsAre DEF TInv, Verges
      <3> QED
        BY <2>2, <3>1 DEF NoneIsNoDocument
    <2> HIDE DEF s, E, R, V
    <2>6. /\ "enhance" \in c.tried => c.local = E
          /\ "generate" \in c.tried /\ "runtime" \notin c.tried => R = E
          /\ "write" \in c.tried /\ "runtime" \notin c.tried => disk.run = E
          /\ "put" \in c.tried => core # None /\ core.config = E
          /\ "restart" \in c.tried => core = [config |-> E, service |-> V.service]
          /\ {"put", "restart"} \cap c.tried = {} => Untouched(c)
      BY <1>4 DEF CoreForward, Loading, Running, E, R, V
    <2>7. "enhance" \in d.tried => d.local = E'
      BY <1>1, <1>5, <2>1, <2>6
    <2>8. "generate" \in d.tried /\ "runtime" \notin d.tried => R' = E'
      <3>1. s = "generate" => c.local = E
        BY <1>3, <2>6 DEF Needs
      <3> QED
        BY <1>1, <2>1, <2>3, <2>5, <2>6, <3>1
    <2>9. (s = "write" /\ "runtime" \notin c.tried) \/ s = "restart" => R = E
      BY <1>3, <2>6 DEF Needs, Timely
    <2>10. "write" \in d.tried /\ "runtime" \notin d.tried => disk'.run = E'
      BY <1>1, <1>6, <2>1, <2>6, <2>9
    <2>11. s = "put" => disk.run = E
      BY <1>3, <2>6 DEF Needs, Timely
    <2>12. CASE s = "put"
      <3>1. core' = [config |-> E, service |-> core.service] /\ core # None
        BY <1>7, <2>4, <2>11, <2>12
      <3>2. "restart" \in c.tried => core.service = V.service
        BY <2>6
      <3>3. core' \in [config : Runs, service : BOOLEAN]
        BY <2>2, <3>1 DEF TInv, CoreOK
      <3>4. core' # None /\ core'.config = E
        BY <3>1, <3>3 DEF NoneIsNoDocument
      <3>5. "restart" \in d.tried => core' = [config |-> E, service |-> V.service]
        BY <1>1, <2>12, <3>1, <3>2
      <3>6. Loading' /\ ("restart" \in d.tried => core' = Running')
        BY <2>1, <3>4, <3>5 DEF Loading, Running, E, V
      <3>7. "put" \in d.tried
        BY <1>1, <2>12
      <3> QED
        BY <2>7, <2>8, <2>10, <3>6, <3>7 DEF CoreForward, E, R
    <2>13. CASE s = "restart"
      <3>1. core' = [config |-> E, service |-> V.service]
        BY <1>7, <2>9, <2>13
      <3>2. Loading' /\ core' = Running'
        BY <2>1, <2>5, <3>1 DEF Loading, Running, E, V
      <3>3. "restart" \in d.tried
        BY <1>1, <2>13
      <3> QED
        BY <2>7, <2>8, <2>10, <3>2, <3>3 DEF CoreForward, E, R
    <2>14. CASE s \notin {"put", "restart"}
      <3>1. core' = core
        BY <1>7, <2>14
      <3>2. "put" \in d.tried => Loading'
        BY <1>1, <2>1, <2>6, <2>14, <3>1 DEF Loading, E
      <3>3. "restart" \in d.tried => core' = Running'
        BY <1>1, <2>1, <2>6, <2>14, <3>1 DEF Running, E, V
      <3>4. {"put", "restart"} \cap d.tried = {} => Untouched(d)'
        BY <1>1, <2>6, <3>1 DEF Untouched
      <3> QED
        BY <2>7, <2>8, <2>10, <3>2, <3>3, <3>4 DEF CoreForward, E, R
    <2> QED
      BY <2>12, <2>13, <2>14
  <1> QED
    BY <1>8, <1>9

\* What a rollback takes back.
LEMMA UndoTakes ==
  ASSUME NEW k, NEW done, \A s \in done : Needs(k, s, done), k # "switch"
  PROVE  LET u == Undo(k, done) IN
         /\ "restart" \in done => "restart" \in u
         /\ "restart" \in u => "restart" \in done
         /\ "restart" \notin done /\ "check" \in done /\ k # "core"
              /\ k \in Documented \cup {"script"} => "put" \in u
         /\ "put" \in u => "restart" \notin done /\ k # "core" /\ k \in Documented \cup {"script"}
  <1>1. /\ "restart" \in done => "draft" \in done /\ k \in Patches
        /\ "check" \in done /\ k \in Documented => "draft" \in done
    BY DEF Needs, CoreStages
  <1>2. "draft" \in done => k \in Documented
    BY DEF Needs
  <1> QED
    BY <1>1, <1>2 DEF Undo, UndoCore, Redone, Documented, Patches

LEMMA CoreTurned ==
  ASSUME NEW c, NEW d, Stepping(c), FineCore(c), Turning(c, d), Harm(c)
  PROVE  FineCore(d)'
  <1> DEFINE s == Head(c.todo)
             u == Undo(d.kind, d.tried)
  <1> SUFFICES ASSUME c.kind \in Documented \cup {"script"}, c.kind # "switch" PROVE CoreBack(d)'
    BY DEF FineCore, Turning, Stays
  <1>1. /\ d.kind = c.kind /\ d.before = c.before /\ ~c.rolling /\ d.rolling
        /\ d.tried = c.tried \cup {s} /\ Todo(d) = u
    BY Turned
  <1>2. Needs(c.kind, s, c.tried) /\ Grounded(c)
    BY <1>1, Knows
  <1>3. Grounded(d)
    BY <1>1, <1>2, GroundedMore
  <1>4. CoreForward(c) /\ (s \notin {"put", "restart"} => core' = core)
    BY <1>1 DEF FineCore, Harm
  <1>5. /\ "generate" \in u => "enhance" \in u
        /\ u \cap Generating # {} => "generate" \in u
        /\ "put" \in u => "write" \in u
    BY DEF Undo, UndoCore, Redone, Generating
  <1>6. /\ "restart" \in d.tried => "restart" \in u
        /\ "restart" \notin d.tried /\ "check" \in d.tried /\ d.kind # "core" => "put" \in u
    BY <1>1, <1>3, UndoTakes DEF Grounded
  <1> HIDE DEF s, u
  <1>7. "restart" \notin d.tried /\ ("check" \notin d.tried \/ d.kind = "core") => Untouched(d)'
    <2> SUFFICES ASSUME "restart" \notin d.tried, "check" \notin d.tried \/ d.kind = "core"
                 PROVE  Untouched(d)'
      OBVIOUS
    <2>1. s \notin {"put", "restart"}
      BY <1>1, <1>2 DEF Needs
    <2>2. {"put", "restart"} \cap c.tried = {}
      BY <1>1, <1>2 DEF Grounded, Needs
    <2> QED
      BY <1>1, <1>4, <2>1, <2>2 DEF CoreForward, Untouched
  <1> QED
    BY <1>1, <1>5, <1>6, <1>7 DEF CoreBack

\* The core on the way back.
LEMMA CoreRetraced ==
  ASSUME TInv, NoneIsNoDocument, NEW c, NEW d, Stepping(c), FineCore(c), Result(c, d), c.rolling
  PROVE  FineCore(d)'
  <1> DEFINE s == Head(c.todo)
             rest == Range(Tail(c.todo))
             u == Undo(c.kind, c.tried)
             E == Enhanced
             R == Latest("runtime")
             V == Latest("verge")
  <1> SUFFICES ASSUME c.kind \in Documented \cup {"script"}, c.kind # "switch" PROVE CoreBack(d)'
    BY DEF FineCore, Result, Passing, Stays
  <1>1. /\ d.kind = c.kind /\ d.before = c.before /\ d.rolling = c.rolling /\ d.tried = c.tried
        /\ Todo(d) = rest
        /\ NewConfig(c) /\ NewDisk(c) /\ NewWorld(c, d) /\ NewNotes(c, d)
    BY DEF Result, Passing, Stays, Tries, Todo
  <1>2. CmdOK(c) /\ Fits(c, s)
    BY DEF Stepping
  <1>3. /\ s \in u /\ rest \subseteq u /\ Then(s, rest)
        /\ s \in {"discard", "restore"} => u = {s} \cup rest
        /\ {"generate", "put"} \subseteq Todo(c) => "write" \in Todo(c)
        /\ "put" \in Todo(c) => "check" \in c.tried
        /\ Todo(c) = {s} \cup rest /\ Grounded(c)
    BY Knows
  <1>4. CoreBack(c)
    BY DEF FineCore
  <1>5. d.local = IF s = "enhance" THEN E ELSE c.local
    BY <1>1 DEF NewNotes
  <1>6. disk'.run = IF s \in {"write", "restart"} THEN R ELSE disk.run
    BY <1>1, <1>2, DiskMoves
  <1>7. /\ s \notin {"put", "restart"} => core' = core
        /\ s = "put" => core # None /\ core' = [core EXCEPT !.config = disk.run]
        /\ s = "restart" => core' = [config |-> R, service |-> V.service]
    BY <1>1 DEF NewWorld, Started
  <1>8. /\ "restart" \in c.tried => "restart" \in u
        /\ "restart" \in u => "restart" \in c.tried
        /\ "restart" \notin c.tried /\ "check" \in c.tried /\ c.kind # "core" => "put" \in u
        /\ "put" \in u => "restart" \notin c.tried /\ c.kind # "core"
    BY <1>3, UndoTakes DEF Grounded
  <1>9. s \in {"discard", "restore", "enhance", "generate", "check", "write", "put", "restart", "keep"} \cup Redone
    BY <1>3, UndoIs
  <1> HIDE DEF s, rest, u
  <1>10. CASE s \in {"discard", "restore"}
    <2>1. core' = core /\ u = {s} \cup rest
      BY <1>3, <1>7, <1>10
    <2>2. /\ "generate" \in rest => "enhance" \in rest
          /\ rest \cap Generating # {} => "generate" \in rest
          /\ "put" \in rest => "write" \in rest
      BY <1>3, <1>10 DEF Then
    <2>3. /\ "restart" \in c.tried => "restart" \in rest
          /\ "restart" \notin c.tried /\ "check" \in c.tried /\ c.kind # "core" => "put" \in rest
      BY <1>8, <1>10, <2>1
    <2>4. "restart" \notin c.tried /\ ("check" \notin c.tried \/ c.kind = "core") => Untouched(c)
      BY <1>4 DEF CoreBack
    <2> QED
      BY <1>1, <2>1, <2>2, <2>3, <2>4 DEF CoreBack, Untouched
  <1>11. CASE s \notin {"discard", "restore"}
    <2>1. E' = E /\ V' = V
      BY <1>1, <1>2, <1>9, <1>11, LatestMoves DEF Settable, Redone, s
    <2>2. E \in Runs
      BY DocumentsAre, GeneratedIs DEF TInv, DiskOK, Enhanced
    <2>3. /\ s = "generate" /\ c.local # None => R' = c.local
          /\ s # "generate" => R' = R
      BY <1>1, <1>2, <1>9, <1>11, DocumentsMove DEF s, Redone
    <2>4. core # None => DOMAIN core = {"config", "service"} /\ core = [config |-> core.config, service |-> core.service]
      BY DEF TInv, CoreOK
    <2>5. E # None /\ [config |-> E, service |-> V.service] # None
      <3>1. V.service \in BOOLEAN
        BY DocumentsAre DEF TInv, Verges
      <3> QED
        BY <2>2, <3>1 DEF NoneIsNoDocument
    <2> HIDE DEF E, R, V
    <2>6. /\ "enhance" \notin Todo(c) /\ "generate" \in Todo(c) => c.local = E
          /\ "generate" \notin Todo(c) /\ Todo(c) \cap Generating # {} => R = E
          /\ "put" \in Todo(c) /\ "write" \notin Todo(c) => disk.run = E
          /\ "restart" \in c.tried /\ "restart" \notin Todo(c) => core = [config |-> E, service |-> V.service]
          /\ "restart" \notin c.tried /\ "check" \in c.tried /\ c.kind # "core" /\ "put" \notin Todo(c)
               => core # None /\ core.config = E
          /\ "restart" \notin c.tried /\ ("check" \notin c.tried \/ c.kind = "core") => Untouched(c)
      BY <1>4 DEF CoreBack, Loading, Running, E, R, V
    <2>7. "enhance" \notin rest /\ "generate" \in rest => d.local = E'
      BY <1>3, <1>5, <2>1, <2>6
    <2>8. "generate" \notin rest /\ rest \cap Generating # {} => R' = E'
      <3>1. CASE s = "generate"
        <4>1. "enhance" \notin Todo(c) /\ "generate" \in Todo(c)
          BY <1>3, <3>1 DEF Then
        <4> QED
          BY <2>1, <2>3, <2>5, <2>6, <3>1, <4>1
      <3>2. CASE s # "generate"
        BY <1>3, <2>1, <2>3, <2>6, <3>2
      <3> QED
        BY <3>1, <3>2
    <2>9. s \in Generating => R = E
      BY <1>3, <2>6 DEF Then, Generating
    <2>10. "put" \in rest /\ "write" \notin rest => disk'.run = E'
      <3>1. CASE s \in {"write", "restart"}
        BY <1>6, <2>1, <2>9, <3>1 DEF Generating
      <3>2. CASE s \notin {"write", "restart"}
        BY <1>3, <1>6, <2>1, <2>6, <3>2
      <3> QED
        BY <3>1, <3>2
    <2>11. CASE s = "put"
      <3>1. disk.run = E
        BY <1>3, <2>6, <2>11 DEF Then
      <3>2. core' = [config |-> E, service |-> core.service] /\ core # None
        BY <1>7, <2>4, <2>11, <3>1
      <3>3. core' \in [config : Runs, service : BOOLEAN]
        BY <2>2, <3>2 DEF TInv, CoreOK
      <3>4. core' # None /\ core'.config = E
        BY <3>2, <3>3 DEF NoneIsNoDocument
      <3>5. Loading'
        BY <2>1, <3>4 DEF Loading, E
      <3>6. "restart" \notin c.tried /\ c.kind # "core" /\ "check" \in c.tried
        BY <1>3, <1>8, <2>11
      <3> QED
        BY <1>1, <2>7, <2>8, <2>10, <3>5, <3>6 DEF CoreBack, E, R
    <2>12. CASE s = "restart"
      <3>1. core' = [config |-> E, service |-> V.service]
        BY <1>7, <2>9, <2>12 DEF Generating
      <3>2. core' = Running'
        BY <2>1, <3>1 DEF Running, E, V
      <3>3. "restart" \in c.tried
        BY <1>3, <1>8, <2>12
      <3> QED
        BY <1>1, <2>7, <2>8, <2>10, <3>2, <3>3 DEF CoreBack, E, R
    <2>13. CASE s \notin {"put", "restart"}
      <3>1. core' = core
        BY <1>7, <2>13
      <3>2. "restart" \in c.tried /\ "restart" \notin rest => core' = Running'
        BY <1>3, <2>1, <2>6, <2>13, <3>1 DEF Running, E, V
      <3>3. "restart" \notin c.tried /\ "check" \in c.tried /\ c.kind # "core" /\ "put" \notin rest => Loading'
        BY <1>3, <2>1, <2>6, <2>13, <3>1 DEF Loading, E
      <3>4. "restart" \notin c.tried /\ ("check" \notin c.tried \/ c.kind = "core") => Untouched(d)'
        BY <1>1, <2>6, <3>1 DEF Untouched
      <3> QED
        BY <1>1, <2>7, <2>8, <2>10, <3>2, <3>3, <3>4 DEF CoreBack, E, R
    <2> QED
      BY <2>11, <2>12, <2>13
  <1> QED
    BY <1>10, <1>11

\* What a rollback carries out again.
LEMMA UndoCarries ==
  ASSUME NEW k \in Patches, NEW done, \A s \in done : Needs(k, s, done)
  PROVE  LET u == Undo(k, done) IN
         /\ u \cap Redone \subseteq done
         /\ "draft" \in done => done \cap Redone \subseteq u
         /\ done \cap (Redone \ {"firewall"}) \subseteq u
         /\ "restore" \notin u
  <1>1. \A s \in Redone \ {"firewall"} : s \in done => "draft" \in done
    BY DEF Needs
  <1>2. Undo(k, done) = IF "draft" \in done THEN {"discard"} \cup UndoCore(k, done) \cup (done \cap Redone) ELSE {}
    BY DEF Undo, Patches
  <1>3. UndoCore(k, done) \cap (Redone \cup {"restore"}) = {}
    BY DEF UndoCore, Redone
  <1>4. "restore" \notin Redone /\ "discard" \notin Redone
    BY DEF Redone
  <1> DEFINE u == Undo(k, done)
             taken == UndoCore(k, done)
             some == Redone \ {"firewall"}
  <1>5. CASE "draft" \in done
    <2>1. u = {"discard"} \cup taken \cup (done \cap Redone)
      BY <1>2, <1>5
    <2>2. taken \cap Redone = {} /\ "restore" \notin taken /\ some \subseteq Redone
      BY <1>3
    <2> HIDE DEF u, taken, some
    <2>3. /\ u \cap Redone \subseteq done /\ done \cap Redone \subseteq u
          /\ done \cap some \subseteq u /\ "restore" \notin u
      BY <1>4, <2>1, <2>2
    <2> QED
      BY <2>3 DEF u, some
  <1>6. CASE "draft" \notin done
    <2>1. u = {} /\ done \cap some = {}
      BY <1>1, <1>2, <1>6
    <2> QED
      BY <1>6, <2>1
  <1> QED
    BY <1>5, <1>6

\* The stages that leave the settings in force as they are.
LEMMA SettingsMove ==
  ASSUME TInv, NoneIsNoDocument, NEW c, CmdOK(c), Fits(c, Head(c.todo)), NewConfig(c), c.kind \in Patches
  PROVE  LET s == Head(c.todo) v == Latest("verge") w == Latest("clash") IN
         /\ s \notin {"draft", "discard"} => v' = v /\ w' = w
         /\ s = "draft" /\ c.kind = "verge" /\ "hotkeys" \in DOMAIN c.arg => (v').hotkeys = c.arg.hotkeys
         /\ s = "draft" /\ c.kind = "clash" /\ "lan" \in DOMAIN c.arg => (w').lan = c.arg.lan
  <1> DEFINE s == Head(c.todo)
             v == Latest("verge")
             w == Latest("clash")
  <1>1. /\ s \notin {"draft", "discard"} => v' = v /\ w' = w
        /\ s = "draft" => Latest(Document(c.kind))' = Patched(Document(c.kind), c.arg)
    BY LatestMoves DEF Settable
  <1>2. v \in Verges /\ w \in Clashes
    BY DocumentsAre DEF TInv
  <1>3. s = "draft" /\ c.kind = "verge" => v' = Merged(c.arg, v)
    <2> SUFFICES ASSUME s = "draft", c.kind = "verge" PROVE v' = Merged(c.arg, v)
      OBVIOUS
    <2>1. Document(c.kind) = "verge"
      BY DEF Document
    <2> HIDE DEF s
    <2> QED
      BY <1>1, <2>1 DEF Patched
  <1>4. s = "draft" /\ c.kind = "clash" => w' = Merged(c.arg, w)
    <2> SUFFICES ASSUME s = "draft", c.kind = "clash" PROVE w' = Merged(c.arg, w)
      OBVIOUS
    <2>1. Document(c.kind) = "clash"
      BY DEF Document
    <2> HIDE DEF s
    <2> QED
      BY <1>1, <2>1 DEF Patched
  <1> HIDE DEF s, v, w
  <1>5. "hotkeys" \in DOMAIN c.arg => Merged(c.arg, v).hotkeys = c.arg.hotkeys
    BY <1>2 DEF Merged, Verges
  <1>6. "lan" \in DOMAIN c.arg => Merged(c.arg, w).lan = c.arg.lan
    BY <1>2 DEF Merged, Clashes
  <1> QED
    BY <1>1, <1>3, <1>4, <1>5, <1>6 DEF s, v, w

LEMMA SwitchesPassed ==
  ASSUME TInv, NoneIsNoDocument, NEW c, NEW d, Stepping(c), FineSwitches(c), Result(c, d)
  PROVE  FineSwitches(d)'
  <1> DEFINE s == Head(c.todo)
             rest == Range(Tail(c.todo))
             u == Undo(c.kind, c.tried)
             v == Latest("verge")
  <1> SUFFICES ASSUME c.kind \in Patches PROVE FineSwitches(d)'
    BY DEF FineSwitches, Result, Passing, Stays
  <1>1. /\ d.kind = c.kind /\ d.arg = c.arg /\ d.before = c.before /\ d.rolling = c.rolling
        /\ d.tried = Tries(c) /\ Todo(d) = rest
        /\ NewConfig(c) /\ NewWorld(c, d) /\ NewNotes(c, d)
    BY DEF Result, Passing, Stays, Todo
  <1>2. CmdOK(c) /\ Fits(c, s) /\ Alone(c)
    BY DEF Stepping
  <1>3. /\ s \notin {"draft", "discard"} => v' = v
        /\ s = "draft" /\ c.kind = "verge" /\ "hotkeys" \in DOMAIN c.arg => (v').hotkeys = c.arg.hotkeys
    BY <1>1, <1>2, SettingsMove
  <1>4. /\ ~c.rolling => Needs(c.kind, s, c.tried) /\ Timely(s, c.tried)
        /\ c.rolling => s \in u /\ Then(s, rest) /\ (s = "discard" => u = {s} \cup rest)
        /\ Todo(c) = {s} \cup rest /\ c.rolling \in BOOLEAN /\ Grounded(c)
    BY Knows
  <1>5. /\ proxy' = IF s = "proxy" THEN WantedProxy(v) ELSE proxy
        /\ s = "launch" => d.swallowed \/ Launched(v, launch')
        /\ s # "launch" => launch' = launch /\ d.swallowed = c.swallowed
        /\ hotkeys' = IF s = "hotkeys" THEN IF c.rolling THEN Data("verge").hotkeys ELSE c.arg.hotkeys
                      ELSE hotkeys
    BY <1>1 DEF NewWorld, NewNotes, Launched
  <1>6. /\ "proxy" \notin c.tried => proxy = c.before.proxy
        /\ Carried(c, "proxy") => proxy = WantedProxy(v)
        /\ "launch" \notin c.tried => launch = c.before.launch
        /\ Carried(c, "launch") => c.swallowed \/ Launched(v, launch)
        /\ "hotkeys" \notin c.tried => hotkeys = c.before.hotkeys
        /\ Carried(c, "hotkeys") => hotkeys = v.hotkeys
        /\ ~c.rolling /\ "draft" \in c.tried /\ c.kind = "verge" /\ "hotkeys" \in DOMAIN c.arg
             => v.hotkeys = c.arg.hotkeys
    BY DEF FineSwitches
  <1>7. CASE ~c.rolling
    <2>1. d.tried = c.tried \cup {s} /\ ~d.rolling
      BY <1>1, <1>7 DEF Tries
    <2> HIDE DEF s, rest, u, v
    <2>2. CASE s = "draft"
      <3>1. {"proxy", "launch", "hotkeys"} \cap d.tried = {} /\ {"proxy", "launch", "hotkeys"} \cap c.tried = {}
        BY <1>4, <1>7, <2>1, <2>2 DEF Timely
      <3>2. proxy' = c.before.proxy /\ launch' = c.before.launch /\ hotkeys' = c.before.hotkeys
        BY <1>5, <1>6, <2>2, <3>1
      <3> QED
        BY <1>1, <1>3, <2>2, <3>1, <3>2 DEF FineSwitches, Carried, v
    <2>3. CASE s # "draft"
      <3>1. v' = v
        BY <1>3, <1>4, <1>7, <2>3 DEF Timely
      <3>2. s = "hotkeys" => hotkeys' = v.hotkeys
        BY <1>2, <1>4, <1>5, <1>6, <1>7 DEF Needs, Fits, Redone
      <3>3. /\ "proxy" \notin d.tried => proxy' = c.before.proxy
            /\ Carried(d, "proxy") => proxy' = WantedProxy(v)
        BY <1>5, <1>6, <1>7, <2>1 DEF Carried
      <3>4. /\ "launch" \notin d.tried => launch' = c.before.launch
            /\ Carried(d, "launch") => d.swallowed \/ Launched(v, launch')
        BY <1>5, <1>6, <1>7, <2>1 DEF Carried
      <3>5. /\ "hotkeys" \notin d.tried => hotkeys' = c.before.hotkeys
            /\ Carried(d, "hotkeys") => hotkeys' = v.hotkeys
        BY <1>5, <1>6, <1>7, <2>1, <3>2 DEF Carried
      <3>6. "draft" \in d.tried /\ c.kind = "verge" /\ "hotkeys" \in DOMAIN c.arg => v.hotkeys = c.arg.hotkeys
        BY <1>6, <1>7, <2>1, <2>3
      <3> QED
        BY <1>1, <3>1, <3>3, <3>4, <3>5, <3>6 DEF FineSwitches, v
    <2> QED
      BY <2>2, <2>3
  <1>8. CASE c.rolling
    <2>1. d.tried = c.tried /\ d.rolling
      BY <1>1, <1>8 DEF Tries
    <2>2. /\ u \cap Redone \subseteq c.tried /\ c.tried \cap (Redone \ {"firewall"}) \subseteq u
          /\ "restore" \notin u
      BY <1>4, UndoCarries DEF Grounded
    <2>3. s \in {"discard", "restore", "enhance", "generate", "check", "write", "put", "restart", "keep"} \cup Redone
      BY <1>4, <1>8, UndoIs
    <2> HIDE DEF s, rest, u, v
    <2>4. /\ "proxy" \notin c.tried => proxy' = c.before.proxy
          /\ "launch" \notin c.tried => launch' = c.before.launch
          /\ "hotkeys" \notin c.tried => hotkeys' = c.before.hotkeys
      BY <1>4, <1>5, <1>6, <1>8, <2>2 DEF Redone
    <2>5. CASE s = "discard"
      <3>1. \A x \in {"proxy", "launch", "hotkeys"} : ~Carried(d, x)
        BY <1>1, <1>4, <1>8, <2>1, <2>2, <2>5 DEF Carried, Redone
      <3> QED
        BY <1>1, <2>1, <2>4, <3>1 DEF FineSwitches
    <2>6. CASE s # "discard"
      <3>1. v' = v
        BY <1>3, <2>3, <2>6 DEF Redone
      <3>2. s = "hotkeys" => Data("verge") = v
        <4> SUFFICES ASSUME s = "hotkeys" PROVE Data("verge") = v
          OBVIOUS
        <4>1. config["verge"].draft = None
          BY <1>2, <1>8 DEF Alone, Open, Settable, s
        <4> QED
          BY <4>1 DEF v, Latest, Data
      <3>3. Carried(d, "proxy") => proxy' = WantedProxy(v)
        BY <1>1, <1>4, <1>5, <1>6, <1>8, <2>1 DEF Carried
      <3>4. Carried(d, "launch") => d.swallowed \/ Launched(v, launch')
        BY <1>1, <1>4, <1>5, <1>6, <1>8, <2>1 DEF Carried
      <3>5. Carried(d, "hotkeys") => hotkeys' = v.hotkeys
        BY <1>1, <1>4, <1>5, <1>6, <1>8, <2>1, <3>2 DEF Carried
      <3> QED
        BY <1>1, <2>1, <2>4, <3>1, <3>3, <3>4, <3>5 DEF FineSwitches, v
    <2> QED
      BY <2>5, <2>6
  <1> QED
    BY <1>4, <1>7, <1>8

LEMMA SwitchesTurned ==
  ASSUME NEW c, NEW d, Stepping(c), FineSwitches(c), Turning(c, d), Harm(c)
  PROVE  FineSwitches(d)'
  <1> DEFINE s == Head(c.todo)
             u == Undo(d.kind, d.tried)
  <1> SUFFICES ASSUME c.kind \in Patches PROVE FineSwitches(d)'
    BY DEF FineSwitches, Turning, Stays
  <1>1. /\ d.kind = c.kind /\ d.before = c.before /\ ~c.rolling /\ d.rolling
        /\ d.tried = c.tried \cup {s} /\ Todo(d) = u
    BY Turned
  <1>2. Needs(c.kind, s, c.tried) /\ Grounded(c)
    BY <1>1, Knows
  <1>3. Grounded(d)
    BY <1>1, <1>2, GroundedMore
  <1>4. d.tried \cap (Redone \ {"firewall"}) \subseteq u
    BY <1>1, <1>3, UndoCarries DEF Grounded
  <1>5. \A x \in {"proxy", "launch", "hotkeys"} : ~Carried(d, x)
    BY <1>1, <1>4 DEF Carried, Redone
  <1>6. proxy' = proxy /\ hotkeys' = hotkeys /\ (s # "launch" => launch' = launch)
    BY DEF Harm
  <1> HIDE DEF s, u
  <1> QED
    BY <1>1, <1>5, <1>6 DEF FineSwitches

LEMMA RulesPassed ==
  ASSUME TInv, NoneIsNoDocument, NEW c, NEW d, Stepping(c), FineDocument(c), FineRules(c), Result(c, d)
  PROVE  FineRules(d)'
  <1> DEFINE s == Head(c.todo)
             rest == Range(Tail(c.todo))
             u == Undo(c.kind, c.tried)
             w == Latest("clash")
             old == c.before.config["clash"].data.lan
  <1> SUFFICES ASSUME c.kind \in Patches PROVE FineRules(d)'
    BY DEF FineRules, Result, Passing, Stays
  <1>1. /\ d.kind = c.kind /\ d.arg = c.arg /\ d.before = c.before /\ d.rolling = c.rolling
        /\ d.tried = Tries(c) /\ Todo(d) = rest
        /\ NewConfig(c) /\ NewWorld(c, d) /\ NewNotes(c, d)
    BY DEF Result, Passing, Stays, Todo
  <1>2. CmdOK(c) /\ Fits(c, s) /\ Alone(c)
    BY DEF Stepping
  <1>3. /\ s \notin {"draft", "discard"} => w' = w
        /\ s = "draft" /\ c.kind = "clash" /\ "lan" \in DOMAIN c.arg => (w').lan = c.arg.lan
    BY <1>1, <1>2, SettingsMove
  <1>4. /\ ~c.rolling => Needs(c.kind, s, c.tried) /\ Timely(s, c.tried)
        /\ c.rolling => s \in u
        /\ Todo(c) = {s} \cup rest /\ c.rolling \in BOOLEAN /\ Grounded(c)
    BY Knows
  <1>5. /\ firewall' = IF s = "firewall" THEN RulesFor(IF c.rolling THEN c.previous ELSE c.arg.lan)
                       ELSE firewall
        /\ d.previous = IF c.rolling THEN c.previous ELSE IF s = "firewall" THEN w.lan
                        ELSE IF s \in {"script", "restore"} THEN disk.script ELSE c.previous
    BY <1>1 DEF NewWorld, NewNotes
  <1>6. /\ "firewall" \notin c.tried => firewall = c.before.firewall
        /\ "firewall" \in c.tried /\ (c.rolling => "draft" \in c.tried) => c.previous = old
        /\ "firewall" \in c.tried /\ ~c.rolling => "lan" \in DOMAIN c.arg /\ firewall = RulesFor(c.arg.lan)
        /\ Carried(c, "firewall") /\ c.rolling /\ "draft" \in c.tried => firewall = RulesFor(old)
        /\ ~c.rolling /\ "draft" \in c.tried /\ c.kind = "clash" /\ "lan" \in DOMAIN c.arg
             => w.lan = c.arg.lan
    BY DEF FineRules
  <1>7. CASE ~c.rolling
    <2>1. d.tried = c.tried \cup {s} /\ ~d.rolling
      BY <1>1, <1>7 DEF Tries
    <2>2. s = "firewall" => w.lan = old /\ "lan" \in DOMAIN c.arg
      <3> SUFFICES ASSUME s = "firewall" PROVE w.lan = old /\ "lan" \in DOMAIN c.arg
        OBVIOUS
      <3>1. c.kind = "clash" /\ "lan" \in DOMAIN c.arg
        BY <1>2, <1>7 DEF Fits
      <3>2. "draft" \notin c.tried /\ "commit" \notin c.tried
        BY <1>4, <1>7 DEF Timely
      <3>3. config["clash"].draft = None
        BY <1>2, <1>7, <3>2 DEF Alone, Open, Settable
      <3>4. Document(c.kind) = "clash" /\ c.kind \in Documented
        BY <3>1 DEF Document, Documented
      <3>5. Data("clash") = c.before.config["clash"].data
        BY <3>2, <3>4 DEF FineDocument
      <3>6. w = Data("clash")
        BY <3>3 DEF Latest, Data
      <3> QED
        BY <3>1, <3>5, <3>6
    <2>3. s \notin {"script", "restore"}
      BY <1>2 DEF Fits, Patches
    <2>4. s # "discard"
      BY <1>4, <1>7 DEF Timely
    <2> HIDE DEF s, rest, u, w, old
    <2>5. /\ "firewall" \notin d.tried => firewall' = c.before.firewall
          /\ "firewall" \in d.tried => d.previous = old
          /\ "firewall" \in d.tried => "lan" \in DOMAIN c.arg /\ firewall' = RulesFor(c.arg.lan)
      BY <1>5, <1>6, <1>7, <2>1, <2>2, <2>3
    <2>6. "draft" \in d.tried /\ c.kind = "clash" /\ "lan" \in DOMAIN c.arg => (w').lan = c.arg.lan
      BY <1>3, <1>6, <1>7, <2>1, <2>4
    <2> QED
      BY <1>1, <2>1, <2>5, <2>6 DEF FineRules, w, old
  <1>8. CASE c.rolling
    <2>1. d.tried = c.tried /\ d.rolling /\ d.previous = c.previous
      BY <1>1, <1>5, <1>8 DEF Tries
    <2>2. s = "firewall" => "firewall" \in c.tried
      BY <1>4, <1>8, UndoCarries DEF Grounded, Redone
    <2> HIDE DEF s, rest, u, w, old
    <2>3. "firewall" \notin c.tried => firewall' = c.before.firewall
      BY <1>5, <1>6, <2>2
    <2>4. Carried(d, "firewall") /\ "draft" \in c.tried => firewall' = RulesFor(old)
      BY <1>1, <1>4, <1>5, <1>6, <1>8, <2>1, <2>2 DEF Carried
    <2>5. "firewall" \in c.tried /\ "draft" \in c.tried => c.previous = old
      BY <1>6
    <2> QED
      BY <1>1, <2>1, <2>3, <2>4, <2>5 DEF FineRules, old
  <1> QED
    BY <1>4, <1>7, <1>8

LEMMA RulesTurned ==
  ASSUME NEW c, NEW d, Stepping(c), FineRules(c), Turning(c, d), Harm(c)
  PROVE  FineRules(d)'
  <1> DEFINE s == Head(c.todo)
             u == Undo(d.kind, d.tried)
             old == c.before.config["clash"].data.lan
  <1> SUFFICES ASSUME c.kind \in Patches PROVE FineRules(d)'
    BY DEF FineRules, Turning, Stays
  <1>1. /\ d.kind = c.kind /\ d.before = c.before /\ ~c.rolling /\ d.rolling
        /\ d.tried = c.tried \cup {s} /\ Todo(d) = u /\ d.previous = c.previous
    BY Turned
  <1>2. Needs(c.kind, s, c.tried) /\ Grounded(c) /\ Timely(s, c.tried)
    BY <1>1, Knows
  <1>3. Grounded(d)
    BY <1>1, <1>2, GroundedMore
  <1>4. "draft" \in d.tried => d.tried \cap Redone \subseteq u
    BY <1>1, <1>3, UndoCarries DEF Grounded
  <1>5. (s # "firewall" => firewall' = firewall) /\ s # "draft"
    BY DEF Harm
  <1>6. s = "firewall" => "draft" \notin d.tried
    BY <1>1, <1>2, <1>5 DEF Timely
  <1>7. /\ "firewall" \notin c.tried => firewall = c.before.firewall
        /\ "firewall" \in c.tried => c.previous = old
    BY <1>1 DEF FineRules
  <1> HIDE DEF s, u
  <1>8. "draft" \in d.tried => ~Carried(d, "firewall")
    BY <1>1, <1>4 DEF Carried, Redone
  <1> QED
    BY <1>1, <1>5, <1>6, <1>7, <1>8 DEF FineRules

-----------------------------------------------------------------------------
(* The commands that are alone, all together.                              *)

FInv == \A p \in Procs : \A c : cmd[p] = c /\ c # None /\ c.alone /\ c.whole => Fine(c)

LEMMA FineMoved ==
  ASSUME TInv, NoneIsNoDocument, NEW c, NEW d, Stepping(c), Fine(c),
         Result(c, d) \/ (Turning(c, d) /\ Harm(c))
  PROVE  Fine(d)'
  <1>1. c.rolling \in BOOLEAN
    BY Knows
  <1>2. CASE Result(c, d)
    <2>1. FineDocument(d)' /\ FineScript(d)'
      BY <1>2, DocumentPassed, ScriptPassed DEF Fine
    <2>2. FineCore(d)'
      BY <1>1, <1>2, CorePassed, CoreRetraced DEF Fine
    <2>3. FineSwitches(d)' /\ FineRules(d)'
      BY <1>2, SwitchesPassed, RulesPassed DEF Fine
    <2> QED
      BY <2>1, <2>2, <2>3 DEF Fine
  <1>3. CASE Turning(c, d) /\ Harm(c)
    <2>1. FineDocument(d)' /\ FineScript(d)'
      BY <1>3, DocumentTurned, ScriptTurned DEF Fine
    <2>2. FineCore(d)' /\ FineSwitches(d)' /\ FineRules(d)'
      BY <1>3, CoreTurned, SwitchesTurned, RulesTurned DEF Fine
    <2> QED
      BY <2>1, <2>2 DEF Fine
  <1> QED
    BY <1>2, <1>3

LEMMA FineElsewhere ==
  ASSUME NEW c, c.kind \in {"edit", "enhance"}
  PROVE  Fine(c)'
  BY DEF Fine, FineDocument, FineScript, FineCore, FineSwitches, FineRules, Documented, Patches

\* A stage of a command that is alone.
LEMMA FineOwn ==
  ASSUME TInv, AInv, NoneIsNoDocument, FInv, NEW p \in Procs, Stage(p),
         NEW c, cmd[p] = c, NEW d, cmd'[p] = d, d.alone, d.whole
  PROVE  Fine(d)'
  <1> DEFINE s == Head(c.todo)
  <1>1. /\ At(p, s) /\ CmdOK(c) /\ Fits(c, s) /\ c # None /\ c.todo # <<>>
        /\ \E e : Goes(p, e) /\ Moving(c, e)
    BY StageMoves
  <1>2. ASSUME NEW e, Goes(p, e) PROVE e = d
    BY <1>2 DEF Goes
  <1>3. CASE s = "edit"
    <2>1. Moving(c, d)
      BY <1>1, <1>2
    <2>2. c.kind = "edit"
      BY <1>1, <1>3 DEF Fits
    <2>3. d.kind = "edit"
      BY <2>1, <2>2 DEF Moving, Passing, Turning, Skipping, Reloading, Stays
    <2> QED
      BY <2>3, FineElsewhere
  <1>4. CASE s # "edit"
    <2>1. ~Edit(p)
      BY <1>1, <1>4 DEF Edit, At
    <2>2. Result(c, d) \/ ((Turning(c, d) \/ Skipping(c, d)) /\ Harm(c))
      BY <1>2, <1>4, StageOutcome DEF Outcome
    <2>3. Result(c, d) \/ (Turning(c, d) /\ Harm(c))
      BY <2>2 DEF Skipping
    <2>4. c.alone /\ c.whole
      BY <2>3 DEF Result, Passing, Turning, Stays
    <2>5. Fine(c)
      BY <1>1, <2>4 DEF FInv
    <2>6. Alone(c)
      BY <1>1, <2>4, Closed DEF Alone
    <2>7. Stepping(c)
      BY <1>1, <2>4, <2>6 DEF Stepping, AInv, Tracked
    <2> QED
      BY <2>3, <2>5, <2>7, FineMoved
  <1> QED
    BY <1>3, <1>4

\* What a command that is alone rests on, and that nothing else matters to it.
Still(c) ==
    /\ UNCHANGED effects /\ Enhanced' = Enhanced
    /\ \A g \in {"verge", "clash", "runtime"} : Latest(g)' = Latest(g)
    /\ disk'.run = disk.run /\ disk'.script = disk.script
    /\ c.kind \in Documented =>
         LET f == Document(c.kind) IN
         Data(f)' = Data(f) /\ Latest(f)' = Latest(f) /\ disk'[f] = disk[f]

LEMMA StillFine ==
  ASSUME NEW c, Fine(c), Still(c)
  PROVE  Fine(c)'
  <1>1. /\ core' = core /\ launch' = launch /\ proxy' = proxy /\ hotkeys' = hotkeys
        /\ firewall' = firewall /\ Enhanced' = Enhanced /\ Latest("verge")' = Latest("verge")
        /\ Latest("clash")' = Latest("clash") /\ Latest("runtime")' = Latest("runtime")
        /\ disk'.run = disk.run /\ disk'.script = disk.script
    BY DEF Still, effects
  <1>2. FineDocument(c)'
    BY DEF Fine, FineDocument, Still
  <1>3. FineScript(c)'
    BY <1>1 DEF Fine, FineScript
  <1>4. FineCore(c)'
    <2>1. Running' = Running /\ (Loading <=> Loading') /\ (Untouched(c) <=> Untouched(c)')
      BY <1>1 DEF Running, Loading, Untouched
    <2>2. (CoreForward(c) => CoreForward(c)') /\ (CoreBack(c) => CoreBack(c)')
      BY <1>1, <2>1 DEF CoreForward, CoreBack
    <2> QED
      BY <2>2 DEF Fine, FineCore
  <1>5. FineSwitches(c)'
    BY <1>1 DEF Fine, FineSwitches
  <1>6. FineRules(c)'
    BY <1>1 DEF Fine, FineRules
  <1> QED
    BY <1>2, <1>3, <1>4, <1>5, <1>6 DEF Fine

LEMMA AllStill ==
  ASSUME NEW c, UNCHANGED <<config, disk, effects>>
  PROVE  Still(c)
  BY DEF Still, Enhanced, Latest, Data

\* A stage of another command that does not get in the way.
LEMMA Calm ==
  ASSUME TInv, AInv, NEW r \in Procs, NEW p \in Procs \ {r}, Stage(p),
         NEW c, cmd[r] = c, c # None, c.alone, ~Shared(p, r)
  PROVE  Still(c)
  <1> DEFINE b == cmd[p]
             s == Head(b.todo)
  <1>1. At(p, s) /\ CmdOK(b) /\ Fits(b, s) /\ b # None /\ b.todo # <<>>
    BY StageMoves
  <1>2. Track(b) /\ "draft" \notin b.tried
    BY <1>1 DEF AInv, Tracked, Clean
  <1>3. s \notin Redone
    <2>1. Todo(b) = {s} \cup Range(Tail(b.todo))
      BY <1>1, <1>2, AtHead
    <2>2. ~b.rolling => Ready(b.kind, s, b.tried)
      BY <1>1, <1>2, AtHead
    <2>3. CASE b.rolling
      BY <1>2, <2>1, <2>3 DEF Track
    <2>4. CASE ~b.rolling
      <3>1. Needs(b.kind, s, b.tried)
        BY <2>2, <2>4 DEF Ready
      <3>2. s # "firewall"
        <4> SUFFICES ASSUME s = "firewall" PROVE FALSE
          OBVIOUS
        <4>1. Shared(p, r)
          BY DEF Shared
        <4> QED
          BY <4>1
      <3> QED
        BY <1>2, <3>1, <3>2 DEF Needs
    <2> QED
      BY <2>3, <2>4
  <1>4. s = "edit" \/ s \in {"validate", "port", "enhance", "check", "fetch"}
    <2>1. s \in {"validate", "port", "enhance", "check", "launch", "proxy", "hotkeys", "tray", "fetch", "edit"}
      BY DEF Shared
    <2> QED
      BY <1>3, <2>1 DEF Redone
  <1>5. CASE s = "edit"
    <2>1. Edit(p)
      BY <1>1, <1>5 DEF Stage, Validate, Draft, Port, Enhance, Generate, Check, Write, Put,
         Restart, Launch, SetProxy, SetHotkeys, Tray, SetFirewall, PatchRuntime, Save, Commit,
         Discard, Ends, Keep, SaveScript, Fetch, At
    <2>2. /\ config' = config \/ \E x : config' = WithData("profiles", x)
          /\ disk' = disk \/ \E x : disk' = [disk EXCEPT !.profiles = x]
          /\ UNCHANGED effects
      BY <2>1, EditOutcome
    <2>3. c.kind # "switch" /\ config'["profiles"].data.current = config["profiles"].data.current
      BY <1>5 DEF Shared
    <2>4. DOMAIN config = Documents
      BY DEF TInv, ConfigOK
    <2>5. /\ \A g \in {"verge", "clash", "runtime"} : config'[g] = config[g]
          /\ config'["profiles"].draft = config["profiles"].draft
      <3>1. ASSUME NEW x, config' = WithData("profiles", x)
            PROVE  /\ \A g \in {"verge", "clash", "runtime"} : config'[g] = config[g]
                   /\ config'["profiles"].draft = config["profiles"].draft
        BY <2>4, <3>1 DEF WithData, Documents
      <3> QED
        BY <2>2, <3>1
    <2>6. \A g \in {"verge", "clash", "run", "script"} : disk'[g] = disk[g]
      <3>1. ASSUME NEW x, disk' = [disk EXCEPT !.profiles = x]
            PROVE  \A g \in {"verge", "clash", "run", "script"} : disk'[g] = disk[g]
        <4>1. DOMAIN disk = {"verge", "clash", "profiles", "script", "run"}
          BY DEF TInv, DiskOK
        <4> QED
          BY <3>1, <4>1
      <3> QED
        BY <2>2, <3>1
    <2>7. \A g \in {"verge", "clash", "runtime"} : Latest(g)' = Latest(g) /\ Data(g)' = Data(g)
      BY <2>5 DEF Latest, Data
    <2>8. Latest("profiles")'.current = Latest("profiles").current
      BY <2>3, <2>5 DEF Latest
    <2>9. Enhanced' = Enhanced
      BY <2>6, <2>7, <2>8 DEF Enhanced, Generated, Stack
    <2>10. c.kind \in Documented => Document(c.kind) \in {"verge", "clash"}
      BY <2>3 DEF Document, Documented
    <2> QED
      BY <2>2, <2>6, <2>7, <2>9, <2>10 DEF Still
  <1>6. CASE s \in {"validate", "port", "enhance", "check", "fetch"}
    <2>1. PICK d : Result(b, d) \/ Harm(b)
      BY <1>6, StageOutcome DEF Outcome
    <2>2. CASE Result(b, d)
      <3>1. config' = config /\ disk' = disk
        BY <1>6, <2>2 DEF Result, NewConfig, NewDisk
      <3>2. NewWorld(b, d)
        BY <2>2 DEF Result
      <3>3. core' = core /\ launch' = launch /\ proxy' = proxy /\ hotkeys' = hotkeys /\ firewall' = firewall
        BY <1>6, <3>2 DEF NewWorld
      <3> QED
        BY <3>1, <3>3, AllStill DEF effects
    <2>3. CASE Harm(b)
      <3>1. UNCHANGED <<config, disk, effects>>
        BY <1>6, <2>3 DEF Harm, effects
      <3> QED
        BY <3>1, AllStill
    <2> QED
      BY <2>1, <2>2, <2>3
  <1> QED
    BY <1>4, <1>5, <1>6

\* A core that was down is started with the configuration there is.
LEMMA FineRecovered ==
  ASSUME TInv, AInv, NoneIsNoDocument, Recover, NEW r \in Procs,
         NEW c, cmd[r] = c, c # None, c.whole, Fine(c)
  PROVE  Fine(c)'
  <1> DEFINE R == Latest("runtime")
  <1>1. /\ core = None /\ config' = config /\ disk' = [disk EXCEPT !.run = R]
        /\ UNCHANGED <<launch, proxy, hotkeys, firewall>>
    BY DEF Recover
  <1>2. DOMAIN disk = {"verge", "clash", "profiles", "script", "run"}
    BY DEF TInv, DiskOK
  <1>3. /\ \A f \in {"verge", "clash", "profiles", "script"} : disk'[f] = disk[f]
        /\ disk'.run = R
    BY <1>1, <1>2
  <1>4. (\A g : Latest(g)' = Latest(g) /\ Data(g)' = Data(g)) /\ Enhanced' = Enhanced
    BY <1>1, <1>3 DEF Latest, Data, Enhanced
  <1>5. Running # None
    <2>1. Latest("verge") \in Verges /\ Enhanced \in Runs
      BY DocumentsAre, GeneratedIs DEF TInv, Enhanced, DiskOK
    <2>2. Running \in [config : Runs, service : BOOLEAN]
      BY <2>1 DEF Running, Verges
    <2> QED
      BY <2>2 DEF NoneIsNoDocument
  <1>6. CmdOK(c) /\ Track(c)
    BY DEF TInv, CmdsOK, AInv, Tracked
  <1>7. Untouched(c) => Untouched(c)'
    BY <1>1 DEF Untouched
  <1>8. FineDocument(c)'
    <2>1. c.kind \in Documented => Document(c.kind) \in {"verge", "clash", "profiles", "script"}
      BY DEF Document, Documented
    <2> HIDE DEF R
    <2> QED
      BY <1>3, <1>4, <2>1 DEF Fine, FineDocument
  <1>9. FineScript(c)'
    BY <1>3 DEF Fine, FineScript
  <1>10. FineSwitches(c)' /\ FineRules(c)'
    BY <1>1, <1>4 DEF Fine, FineSwitches, FineRules
  <1> HIDE DEF R
  <1>11. ASSUME ~c.rolling, CoreForward(c) PROVE CoreForward(c)'
    <2>1. {"put", "restart"} \cap c.tried = {}
      BY <1>1, <1>5, <1>11 DEF CoreForward, Loading
    <2>2. "write" \in c.tried => "runtime" \in c.tried \/ "generate" \in c.tried
      BY <1>6 DEF Track, Grounded, Needs
    <2> QED
      BY <1>3, <1>4, <1>7, <1>11, <2>1, <2>2 DEF CoreForward, R
  <1>12. ASSUME c.rolling, CoreBack(c) PROVE CoreBack(c)'
    <2>1. /\ "restart" \in c.tried => "restart" \in Todo(c)
          /\ "restart" \notin c.tried /\ "check" \in c.tried /\ c.kind # "core" => "put" \in Todo(c)
      BY <1>1, <1>5, <1>12 DEF CoreBack, Loading
    <2>2. "put" \in Todo(c) /\ "write" \notin Todo(c) => "generate" \notin Todo(c)
      BY <1>6, <1>12 DEF Track, Retracing
    <2>3. "put" \in Todo(c) /\ "write" \notin Todo(c) => R = Enhanced
      BY <1>12, <2>2 DEF CoreBack, Generating, R
    <2> QED
      BY <1>3, <1>4, <1>7, <1>12, <2>1, <2>3 DEF CoreBack, R
  <1>13. FineCore(c)'
    BY <1>11, <1>12 DEF Fine, FineCore
  <1> QED
    BY <1>8, <1>9, <1>10, <1>13 DEF Fine

\* A command that begins alone.
LEMMA FreshFine ==
  ASSUME NEW d, Fresh(d), UNCHANGED <<config, disk, effects>>, \A f \in Settable : config[f].draft = None
  PROVE  Fine(d)'
  <1>1. d.tried = {} /\ d.rolling = FALSE
    BY DEF Fresh
  <1>2. /\ d.before.config = config /\ d.before.disk = disk /\ d.before.core = core
        /\ d.before.proxy = proxy /\ d.before.launch = launch /\ d.before.hotkeys = hotkeys
        /\ d.before.firewall = firewall
    BY DEF Fresh
  <1>3. /\ config' = config /\ disk' = disk /\ core' = core /\ proxy' = proxy /\ launch' = launch
        /\ hotkeys' = hotkeys /\ firewall' = firewall
    BY DEF effects
  <1>4. FineDocument(d)'
    <2>1. d.kind \in Documented => Document(d.kind) \in Settable
      BY DEF Document, Documented, Settable
    <2> QED
      BY <1>1, <1>2, <1>3, <2>1 DEF FineDocument, Data
  <1>5. FineScript(d)'
    BY <1>1, <1>2, <1>3 DEF FineScript
  <1>6. FineCore(d)'
    BY <1>1, <1>2, <1>3 DEF FineCore, CoreForward, Untouched
  <1>7. FineSwitches(d)' /\ FineRules(d)'
    BY <1>1, <1>2, <1>3 DEF FineSwitches, FineRules, Carried
  <1> QED
    BY <1>4, <1>5, <1>6, <1>7 DEF Fine

LEMMA FInit ==
  ASSUME Init
  PROVE  FInv
  BY DEF Init, FInv

LEMMA FBegin ==
  ASSUME TInv, AInv, FInv, NEW p \in Procs, Begin(p)
  PROVE  FInv'
  <1>1. /\ cmd[p] = None /\ Fresh(cmd'[p]) /\ cmd'[p].alone = (\A q \in Procs \ {p} : cmd[q] = None)
        /\ \A q \in Procs \ {p} : cmd'[q] = cmd[q]
        /\ UNCHANGED <<config, disk, effects>>
    BY BeginIs
  <1> SUFFICES ASSUME NEW r \in Procs, NEW c, cmd'[r] = c, c # None, c.alone, c.whole
               PROVE  Fine(c)'
    BY DEF FInv
  <1>2. CASE r = p
    <2>1. Fresh(c) /\ \A q \in Procs : cmd[q] = None
      BY <1>1, <1>2
    <2>2. \A f \in Settable : config[f].draft = None
      BY <2>1 DEF AInv, DraftsOpen
    <2> QED
      BY <1>1, <2>1, <2>2, FreshFine
  <1>3. CASE r # p
    <2>1. Fine(c)
      BY <1>1, <1>3 DEF FInv
    <2> QED
      BY <1>1, <2>1, AllStill, StillFine
  <1> QED
    BY <1>2, <1>3

LEMMA FFinish ==
  ASSUME TInv, FInv, NEW p \in Procs, Finish(p)
  PROVE  FInv'
  <1>1. /\ cmd'[p] = None /\ \A q \in Procs \ {p} : cmd'[q] = cmd[q]
        /\ UNCHANGED <<config, disk, effects>>
    BY DEF Finish, TInv, CmdsOK
  <1> SUFFICES ASSUME NEW r \in Procs, NEW c, cmd'[r] = c, c # None, c.alone, c.whole
               PROVE  Fine(c)'
    BY DEF FInv
  <1>2. Fine(c)
    BY <1>1 DEF FInv
  <1> QED
    BY <1>1, <1>2, AllStill, StillFine

LEMMA FStage ==
  ASSUME TInv, AInv, NoneIsNoDocument, FInv, NEW p \in Procs, Stage(p)
  PROVE  FInv'
  <1> SUFFICES ASSUME NEW r \in Procs, NEW c, cmd'[r] = c, c # None, c.alone, c.whole
               PROVE  Fine(c)'
    BY DEF FInv
  <1>1. CASE r = p
    <2>1. PICK b : b = cmd[p]
      OBVIOUS
    <2> QED
      BY <1>1, <2>1, FineOwn
  <1>2. CASE r # p
    <2>1. PICK d : Goes(p, d)
      BY StageMoves
    <2>2. c = cmd[r] /\ ~Shared(p, r)
      BY <1>2, <2>1, OthersStay DEF TInv
    <2>3. Still(c)
      BY <1>2, <2>2, Calm
    <2>4. Fine(c)
      BY <2>2 DEF FInv
    <2> QED
      BY <2>3, <2>4, StillFine
  <1> QED
    BY <1>1, <1>2

LEMMA FNext ==
  ASSUME TInv, NoneIsNoDocument, AInv, FInv, [Next]_vars
  PROVE  FInv'
  <1>1. CASE UNCHANGED vars
    <2>1. UNCHANGED <<config, disk, effects>> /\ cmd' = cmd
      BY <1>1 DEF vars, effects
    <2> SUFFICES ASSUME NEW r \in Procs, NEW c, cmd'[r] = c, c # None, c.alone, c.whole
                 PROVE  Fine(c)'
      BY DEF FInv
    <2>2. Fine(c)
      BY <2>1 DEF FInv
    <2> QED
      BY <2>1, <2>2, AllStill, StillFine
  <1>2. CASE Recover
    <2>1. cmd' = cmd
      BY <1>2 DEF Recover
    <2> SUFFICES ASSUME NEW r \in Procs, NEW c, cmd'[r] = c, c # None, c.alone, c.whole
                 PROVE  Fine(c)'
      BY DEF FInv
    <2>2. cmd[r] = c /\ Fine(c)
      BY <2>1 DEF FInv
    <2> QED
      BY <1>2, <2>2, FineRecovered
  <1>3. CASE Next
    <2>1. Recover \/ \E p \in Procs : Begin(p) \/ Finish(p) \/ Stage(p)
      BY <1>3 DEF Next, Stage
    <2> QED
      BY <1>2, <2>1, FBegin, FFinish, FStage
  <1> QED
    BY <1>1, <1>3

-----------------------------------------------------------------------------
(* A command that is through.                                              *)

Over(c) ==
    /\ CmdOK(c) /\ Track(c) /\ Fine(c) /\ c.todo = <<>> /\ c.whole
    /\ \A f \in Settable : config[f].draft = None

LEMMA OverKnows ==
  ASSUME TInv, NEW c, Over(c)
  PROVE  /\ Todo(c) = {} /\ c.rolling \in BOOLEAN /\ Grounded(c)
         /\ ~c.rolling => Whole(c.kind, c.tried)
         /\ c.rolling => "commit" \notin c.tried
         /\ \A f \in Settable : Latest(f) = Data(f)
         /\ Enhanced = World
  <1>1. Todo(c) = {}
    BY DEF Over, Todo, Range
  <1>2. c.rolling \in BOOLEAN
    BY DEF Over, CmdOK
  <1>3. \A f \in Settable : Latest(f) = Data(f)
    BY DEF Over, Latest, Data
  <1>4. Enhanced = World
    BY <1>3 DEF Enhanced, World, Settable
  <1>5. ~c.rolling => Whole(c.kind, c.tried)
    <2>1. c.tried \cup Todo(c) = c.tried
      BY <1>1
    <2> QED
      BY <2>1 DEF Over, Track
  <1> QED
    BY <1>1, <1>2, <1>3, <1>4, <1>5 DEF Over, Track

LEMMA DocumentEnds ==
  ASSUME TInv, NEW c, Over(c), c.kind \in Documented
  PROVE  DocumentFits(c)
  <1> DEFINE f == Document(c.kind)
             old == c.before.config[f].data
  <1>1. f \in Settable
    BY DEF Document, Documented, Settable
  <1>2. /\ "commit" \notin c.tried => Data(f) = old
        /\ disk[f] = IF "save" \in c.tried /\ ~c.rolling THEN Latest(f) ELSE c.before.disk[f]
    BY DEF Over, Fine, FineDocument
  <1>3. /\ ~c.rolling => Whole(c.kind, c.tried)
        /\ c.rolling => "commit" \notin c.tried
        /\ c.rolling \in BOOLEAN
    BY OverKnows
  <1>4. Latest(f) = Data(f) /\ config[f].draft = None
    BY <1>1, OverKnows DEF Over
  <1>5. \E D : config[f] \in Settled(D)
    BY <1>1 DEF TInv, ConfigOK, Settable
  <1> HIDE DEF f, old
  <1>6. config[f] = [data |-> Data(f), draft |-> None]
    BY <1>4, <1>5 DEF Settled, Data
  <1>7. CASE ~c.rolling
    <2>1. "save" \in c.tried
      BY <1>3, <1>7 DEF Whole
    <2> QED
      BY <1>2, <1>4, <1>7, <2>1 DEF DocumentFits, f
  <1>8. CASE c.rolling
    <2>1. Data(f) = old /\ disk[f] = c.before.disk[f]
      BY <1>2, <1>3, <1>8
    <2> QED
      BY <1>6, <1>8, <2>1 DEF DocumentFits, f, old
  <1> QED
    BY <1>3, <1>7, <1>8

LEMMA CoreEnds ==
  ASSUME TInv, NEW c, Over(c), c.kind \in Documented \cup {"script"}, c.rolling => c.kind # "switch"
  PROVE  CoreFits(c)
  <1>1. /\ Todo(c) = {} /\ c.rolling \in BOOLEAN /\ Grounded(c)
        /\ ~c.rolling => Whole(c.kind, c.tried)
        /\ Enhanced = World /\ Latest("verge") = Data("verge")
    BY OverKnows DEF Settable
  <1>2. FineCore(c)
    BY DEF Over, Fine
  <1>3. Running = [config |-> World, service |-> Data("verge").service]
    BY <1>1 DEF Running
  <1>4. CASE "restart" \in c.tried
    <2>1. core = Running
      BY <1>1, <1>2, <1>4 DEF FineCore, CoreForward, CoreBack
    <2> QED
      BY <1>3, <1>4, <2>1 DEF CoreFits
  <1>5. CASE "restart" \notin c.tried /\ "check" \in c.tried /\ (~c.rolling \/ c.kind # "core")
    <2>1. c.kind # "core"
      BY <1>1, <1>5 DEF Whole
    <2>2. ~c.rolling => "put" \in c.tried
      BY <1>1, <1>5, <2>1 DEF Whole
    <2>3. Loading
      BY <1>1, <1>2, <1>5, <2>1, <2>2 DEF FineCore, CoreForward, CoreBack
    <2> QED
      BY <1>1, <1>5, <2>3 DEF Loading, CoreFits
  <1>6. CASE "restart" \notin c.tried /\ ~("check" \in c.tried /\ (~c.rolling \/ c.kind # "core"))
    <2>1. "put" \in c.tried => "check" \in c.tried
      BY <1>1 DEF Grounded, Needs
    <2>2. Untouched(c)
      BY <1>1, <1>2, <1>6, <2>1 DEF FineCore, CoreForward, CoreBack
    <2> QED
      BY <1>6, <2>2 DEF CoreFits, Untouched
  <1> QED
    BY <1>4, <1>5, <1>6

LEMMA EffectsEnd ==
  ASSUME TInv, NEW c, Over(c), c.kind \in Patches
  PROVE  EffectsFit(c)
  <1> DEFINE v == Data("verge")
             old == c.before.config["clash"].data
  <1>1. /\ Todo(c) = {} /\ c.rolling \in BOOLEAN /\ Grounded(c)
        /\ c.rolling => "commit" \notin c.tried
        /\ Latest("verge") = v /\ Latest("clash") = Data("clash")
    BY OverKnows DEF Settable
  <1>2. FineDocument(c) /\ FineSwitches(c) /\ FineRules(c)
    BY DEF Over, Fine
  <1>3. \A s \in c.tried : Carried(c, s)
    BY <1>1 DEF Carried
  <1> HIDE DEF v
  <1>4. /\ proxy = IF "proxy" \in c.tried THEN WantedProxy(v) ELSE c.before.proxy
        /\ hotkeys = IF "hotkeys" \in c.tried THEN v.hotkeys ELSE c.before.hotkeys
        /\ IF "launch" \in c.tried THEN c.swallowed \/ Launched(v, launch) ELSE launch = c.before.launch
    BY <1>1, <1>2, <1>3 DEF FineSwitches
  <1>5. "firewall" \notin c.tried => firewall = c.before.firewall
    BY <1>2 DEF FineRules
  <1>6. ASSUME "firewall" \in c.tried, "draft" \in c.tried PROVE firewall = RulesFor(Data("clash").lan)
    <2>1. c.kind = "clash"
      BY <1>1, <1>6 DEF Grounded, Needs
    <2>2. CASE ~c.rolling
      BY <1>1, <1>2, <1>6, <2>1, <2>2 DEF FineRules
    <2>3. CASE c.rolling
      <3>1. firewall = RulesFor(old.lan)
        BY <1>2, <1>3, <1>6, <2>3 DEF FineRules
      <3>2. Document(c.kind) = "clash" /\ c.kind \in Documented
        BY <2>1 DEF Document, Documented
      <3>3. Data("clash") = old
        BY <1>1, <1>2, <2>3, <3>2 DEF FineDocument
      <3> QED
        BY <3>1, <3>3
    <2> QED
      BY <1>1, <2>2, <2>3
  <1> QED
    BY <1>4, <1>5, <1>6 DEF EffectsFit, Launched, v

LEMMA ScriptEnds ==
  ASSUME TInv, NEW c, Over(c), c.kind = "script"
  PROVE  disk.script = IF ~c.rolling THEN c.arg.script ELSE c.before.disk.script
  <1>1. FineScript(c)
    BY DEF Over, Fine
  <1>2. ~c.rolling => "script" \in c.tried
    BY OverKnows DEF Whole
  <1>3. Todo(c) = {} /\ c.rolling \in BOOLEAN
    BY OverKnows
  <1> QED
    BY <1>1, <1>2, <1>3 DEF FineScript

LEMMA FineIsAtomic ==
  ASSUME TInv, AInv, FInv
  PROVE  PatchIsAtomic
  <1> DEFINE Atomic(c) ==
        CASE c.kind \in {"verge", "clash", "core"} ->
               DocumentFits(c) /\ CoreFits(c) /\ EffectsFit(c)
          [] c.kind = "switch" -> DocumentFits(c) /\ (~c.rolling => CoreFits(c))
          [] c.kind = "script" ->
               /\ disk.script = IF ~c.rolling THEN c.arg.script ELSE c.before.disk.script
               /\ c.tried # {"script"} => CoreFits(c)
          [] OTHER -> TRUE
  <1>1. ASSUME NEW p \in Procs, NEW c, c = cmd[p], c # None, c.todo = <<>>, c.alone, c.whole
        PROVE  Atomic(c)
    <2>1. CmdOK(c) /\ Track(c) /\ Fine(c)
      BY <1>1 DEF TInv, CmdsOK, AInv, Tracked, FInv
    <2>2. ASSUME NEW f \in Settable, config[f].draft # None PROVE FALSE
      <3>1. Open(c, f)
        BY <1>1, <2>2, Closed
      <3>2. Todo(c) = {}
        BY <1>1 DEF Todo, Range
      <3>3. ~c.rolling /\ c.kind \in Documented /\ "commit" \notin c.tried
        BY <1>1, <3>1 DEF Open
      <3>4. Whole(c.kind, c.tried \cup Todo(c))
        BY <2>1, <3>3 DEF Track
      <3> QED
        BY <3>2, <3>3, <3>4 DEF Whole
    <2>3. Over(c)
      BY <1>1, <2>1, <2>2 DEF Over
    <2>4. CASE c.kind \in {"verge", "clash", "core"}
      <3>1. c.kind \in Documented /\ c.kind \in Patches /\ c.kind # "switch"
        BY <2>4 DEF Documented, Patches
      <3>2. DocumentFits(c) /\ CoreFits(c) /\ EffectsFit(c)
        BY <2>3, <3>1, DocumentEnds, CoreEnds, EffectsEnd
      <3> QED
        BY <2>4, <3>2
    <2>5. CASE c.kind = "switch"
      <3>1. DocumentFits(c) /\ (~c.rolling => CoreFits(c))
        BY <2>3, <2>5, DocumentEnds, CoreEnds DEF Documented
      <3> QED
        BY <2>5, <3>1
    <2>6. CASE c.kind = "script"
      <3>1. CoreFits(c)
        BY <2>3, <2>6, CoreEnds
      <3>2. disk.script = IF ~c.rolling THEN c.arg.script ELSE c.before.disk.script
        BY <2>3, <2>6, ScriptEnds
      <3> QED
        BY <2>6, <3>1, <3>2
    <2>7. CASE c.kind \notin {"verge", "clash", "core", "switch", "script"}
      BY <2>7
    <2> QED
      BY <2>4, <2>5, <2>6, <2>7
  <1> QED
    BY <1>1, Zenon DEF PatchIsAtomic

\* Whatever commands run, interleave and fail, on any number of processes, a
\* change of the settings, of the current profile or of the script that no other
\* one got in the way of is all or nothing: once it is through, the saved
\* document, the core and the other effects it touched are those of the
\* settings it committed, or those from before it began.
THEOREM PatchesAreAtomic ==
  ASSUME NoneIsNoCommand, NoneIsNoDocument
  PROVE  Spec => []PatchIsAtomic
  <1> DEFINE IInv == TInv /\ AInv /\ FInv
  <1>1. Init => IInv
    BY TInit, AInit, FInit
  <1>2. IInv /\ [Next]_vars => IInv'
    BY TNext, ANext, FNext
  <1>3. IInv => PatchIsAtomic
    BY FineIsAtomic
  <1> QED
    BY <1>1, <1>2, <1>3, PTL DEF Spec
=============================================================================
