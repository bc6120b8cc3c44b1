--------------------------- MODULE Inputs_proofs ---------------------------
(***************************************************************************)
(* What Inputs checks of the texts of a few characters, proved of texts of *)
(* any length over any alphabet: ssh never takes a destination for an      *)
(* option, the key of a target tells the target, and what a target is      *)
(* shown or bracketed as reads back as that target.                        *)
(***************************************************************************)
EXTENDS Inputs, SequenceTheorems, WellFoundedInduction, TLAPS

(* A text that has a character has a first and a last one of it.            *)
LEMMA LeastIndex ==
  ASSUME NEW I \in SUBSET Nat, I # {}
  PROVE  \E i \in I : \A j \in I : i <= j
  <1>1. PICK i \in I : \A j \in I : ~(<<j, i>> \in OpToRel(<, Nat))
    BY NatLessThanWellFounded, WFMin, Zenon
  <1>2. \A j \in I : ~(j < i)
    BY <1>1 DEF OpToRel
  <1> QED
    BY <1>2

LEMMA FirstIs ==
  ASSUME NEW S, NEW t \in Seq(S), NEW c, NEW i \in 1..Len(t), t[i] = c,
         \A j \in 1..(i - 1) : t[j] # c
  PROVE  First(t, c) = i
  <1>1. \A k \in 1..Len(t) :
          /\ Len(Before(t, k)) = k - 1
          /\ \A j \in 1..(k - 1) : Before(t, k)[j] = t[j]
    BY SubSeqProperties, ElementOfSeq DEF Before
  <1>2. \A k \in 1..Len(t) : Has(Before(t, k), c) <=> \E j \in 1..(k - 1) : t[j] = c
    <2> TAKE k \in 1..Len(t)
    <2>1. Before(t, k) \in Seq(S)
      BY SubSeqProperties, ElementOfSeq DEF Before
    <2> QED
      BY <1>1, <2>1, LenProperties DEF Has
  <1>3. \A k \in DOMAIN t : (t[k] = c /\ ~Has(Before(t, k), c)) => k = i
    BY <1>2, LenProperties
  <1> QED
    BY <1>2, <1>3, LenProperties DEF First

LEMMA FirstProperty ==
  ASSUME NEW S, NEW t \in Seq(S), NEW c, Has(t, c)
  PROVE  /\ First(t, c) \in 1..Len(t)
         /\ t[First(t, c)] = c
         /\ \A j \in 1..(First(t, c) - 1) : t[j] # c
  <1> DEFINE I == {i \in 1..Len(t) : t[i] = c}
  <1>1. I # {} /\ I \in SUBSET Nat
    BY LenProperties DEF Has
  <1>2. PICK i \in I : \A j \in I : i <= j
    BY <1>1, LeastIndex
  <1>3. First(t, c) = i
    BY <1>2, FirstIs
  <1> QED
    BY <1>2, <1>3

LEMMA LastIs ==
  ASSUME NEW S, NEW t \in Seq(S), NEW c, NEW i \in 1..Len(t), t[i] = c,
         \A j \in (i + 1)..Len(t) : t[j] # c
  PROVE  Last(t, c) = i
  <1>1. \A k \in 1..Len(t) : Has(After(t, k), c) <=> \E j \in (k + 1)..Len(t) : t[j] = c
    <2> TAKE k \in 1..Len(t)
    <2>1. /\ After(t, k) \in Seq(S)
          /\ Len(After(t, k)) = Len(t) - k
          /\ \A j \in 1..(Len(t) - k) : After(t, k)[j] = t[k + j]
      BY SubSeqProperties, ElementOfSeq, LenProperties DEF After
    <2>2. ASSUME Has(After(t, k), c) PROVE \E j \in (k + 1)..Len(t) : t[j] = c
      <3>1. PICK m \in 1..(Len(t) - k) : After(t, k)[m] = c
        BY <2>1, <2>2, LenProperties DEF Has
      <3>2. t[k + m] = c /\ k + m \in (k + 1)..Len(t)
        BY <2>1, <3>1, LenProperties
      <3> QED
        BY <3>2
    <2>3. ASSUME NEW j \in (k + 1)..Len(t), t[j] = c PROVE Has(After(t, k), c)
      <3>1. After(t, k)[j - k] = c /\ j - k \in 1..(Len(t) - k)
        BY <2>1, <2>3, LenProperties
      <3> QED
        BY <2>1, <3>1, LenProperties DEF Has
    <2> QED
      BY <2>2, <2>3
  <1>2. \A k \in DOMAIN t : (t[k] = c /\ ~Has(After(t, k), c)) => k = i
    BY <1>1, LenProperties
  <1> QED
    BY <1>1, <1>2, LenProperties DEF Last

LEMMA LastProperty ==
  ASSUME NEW S, NEW t \in Seq(S), NEW c, Has(t, c)
  PROVE  /\ Last(t, c) \in 1..Len(t)
         /\ t[Last(t, c)] = c
         /\ \A j \in (Last(t, c) + 1)..Len(t) : t[j] # c
  <1> DEFINE I == {n \in 0..Len(t) : n < Len(t) /\ t[Len(t) - n] = c}
  <1>1. I \in SUBSET Nat /\ Len(t) \in Nat
    BY LenProperties
  <1>2. I # {}
    <2>1. PICK i \in 1..Len(t) : t[i] = c
      BY LenProperties DEF Has
    <2>2. Len(t) - (Len(t) - i) = i /\ Len(t) - i \in 0..Len(t) /\ Len(t) - i < Len(t)
      BY <1>1
    <2>3. Len(t) - i \in I
      BY <2>1, <2>2
    <2> QED
      BY <2>3
  <1>3. PICK n \in I : \A m \in I : n <= m
    BY <1>1, <1>2, LeastIndex
  <1>4. /\ Len(t) - n \in 1..Len(t)
        /\ t[Len(t) - n] = c
        /\ \A j \in (Len(t) - n + 1)..Len(t) : t[j] # c
    <2>1. Len(t) - n \in 1..Len(t) /\ t[Len(t) - n] = c
      BY <1>1, <1>3
    <2>2. ASSUME NEW j \in (Len(t) - n + 1)..Len(t), t[j] = c PROVE FALSE
      <3>1. Len(t) - (Len(t) - j) = j /\ Len(t) - j \in 0..Len(t) /\ Len(t) - j < n
        BY <1>1, <1>3
      <3>2. Len(t) - j \in I
        BY <1>1, <1>3, <2>2, <3>1
      <3> QED
        BY <1>1, <1>3, <3>1, <3>2
    <2> QED
      BY <2>1, <2>2
  <1>5. Last(t, c) = Len(t) - n
    BY <1>4, LastIs
  <1> QED
    BY <1>4, <1>5

(* The three parts of a key are found again at the separators.              *)
LEMMA KeyParts ==
  ASSUME NEW S, {"@", ":"} \subseteq S,
         NEW t, t.user \in Seq(S), t.host \in Seq(S), PortPart(t.port) \in Seq(S),
         ~Has(t.user, "@"), ~Has(PortPart(t.port), ":")
  PROVE  /\ Before(Key(t), First(Key(t), "@")) = t.user
         /\ SubSeq(Key(t), First(Key(t), "@") + 1, Last(Key(t), ":") - 1) = t.host
         /\ After(Key(t), Last(Key(t), ":")) = PortPart(t.port)
  <1> DEFINE key == Key(t)
             u == t.user
             h == t.host
             p == PortPart(t.port)
  <1>0. /\ key = u \o <<"@">> \o h \o <<":">> \o p
        /\ u \in Seq(S) /\ h \in Seq(S) /\ p \in Seq(S)
        /\ ~Has(u, "@") /\ ~Has(p, ":")
    BY DEF Key
  <1> HIDE DEF key, u, h, p
  <1> DEFINE k1 == u \o <<"@">>
             k2 == k1 \o h
             k3 == k2 \o <<":">>
             a == Len(u) + 1
             b == Len(u) + Len(h) + 2
  <1>1. /\ <<"@">> \in Seq(S) /\ Len(<<"@">>) = 1 /\ <<"@">>[1] = "@"
        /\ <<":">> \in Seq(S) /\ Len(<<":">>) = 1 /\ <<":">>[1] = ":"
        /\ Len(u) \in Nat /\ Len(h) \in Nat /\ Len(p) \in Nat
    BY <1>0, LenProperties
  <1>2. /\ k1 \in Seq(S) /\ Len(k1) = a
        /\ \A i \in 1..a : k1[i] = IF i < a THEN u[i] ELSE "@"
    BY <1>0, <1>1, ConcatProperties
  <1>3. /\ k2 \in Seq(S) /\ Len(k2) = b - 1
        /\ \A i \in 1..(b - 1) : k2[i] = IF i <= a THEN k1[i] ELSE h[i - a]
    BY <1>0, <1>1, <1>2, ConcatProperties
  <1>4. /\ k3 \in Seq(S) /\ Len(k3) = b
        /\ \A i \in 1..b : k3[i] = IF i < b THEN k2[i] ELSE ":"
    BY <1>1, <1>3, ConcatProperties
  <1>5. /\ key \in Seq(S) /\ Len(key) = b + Len(p)
        /\ \A i \in 1..(b + Len(p)) : key[i] = IF i <= b THEN k3[i] ELSE p[i - b]
    <2>1. key = k3 \o p
      BY <1>0
    <2> HIDE DEF k3
    <2> QED
      BY <1>0, <1>1, <1>4, <2>1, ConcatProperties
  <1>6. /\ \A i \in 1..Len(u) : key[i] = u[i]
        /\ key[a] = "@"
        /\ \A i \in 1..Len(h) : key[a + i] = h[i]
        /\ key[b] = ":"
        /\ \A i \in 1..Len(p) : key[b + i] = p[i]
    <2> HIDE DEF k1, k2, k3
    <2>1. \A i \in 1..b : key[i] = k3[i]
      BY <1>1, <1>5
    <2>2. \A i \in 1..(b - 1) : key[i] = k2[i]
      BY <1>1, <2>1, <1>4
    <2>3. \A i \in 1..a : key[i] = k1[i]
      BY <1>1, <2>2, <1>3
    <2>4. \A i \in 1..Len(h) : key[a + i] = h[i]
      <3> TAKE i \in 1..Len(h)
      <3>1. a + i \in 1..(b - 1) /\ a + i > a /\ (a + i) - a = i
        BY <1>1
      <3> QED
        BY <2>2, <1>3, <3>1
    <2>5. \A i \in 1..Len(p) : key[b + i] = p[i]
      <3> TAKE i \in 1..Len(p)
      <3>1. b + i \in 1..(b + Len(p)) /\ ~(b + i <= b) /\ (b + i) - b = i
        BY <1>1
      <3> QED
        BY <1>5, <3>1
    <2> QED
      <3>1. \A i \in 1..Len(u) : i \in 1..a /\ i < a
        BY <1>1
      <3>2. a \in 1..a /\ ~(a < a) /\ b \in 1..b /\ ~(b < b)
        BY <1>1
      <3>3. \A i \in 1..Len(u) : key[i] = u[i]
        BY <1>2, <2>3, <3>1
      <3>4. key[a] = "@"
        BY <1>2, <2>3, <3>2
      <3>5. key[b] = ":"
        BY <1>4, <2>1, <3>2
      <3> QED
        BY <2>4, <2>5, <3>3, <3>4, <3>5
  <1> HIDE DEF k1, k2, k3
  <1>7. First(key, "@") = a
    <2>1. \A j \in 1..(a - 1) : key[j] # "@"
      BY <1>0, <1>1, <1>6, LenProperties DEF Has
    <2>2. a \in 1..Len(key) /\ key[a] = "@" /\ key \in Seq(S)
      BY <1>1, <1>5, <1>6
    <2> HIDE DEF a
    <2> QED
      BY <2>1, <2>2, FirstIs
  <1>8. Last(key, ":") = b
    <2>1. ASSUME NEW j \in (b + 1)..Len(key) PROVE key[j] # ":"
      <3>1. j - b \in 1..Len(p) /\ b + (j - b) = j
        BY <1>1, <1>5
      <3>2. key[j] = p[j - b]
        BY <1>6, <3>1
      <3> QED
        BY <1>0, <3>1, <3>2, LenProperties DEF Has
    <2>2. b \in 1..Len(key) /\ key[b] = ":" /\ key \in Seq(S)
      BY <1>1, <1>5, <1>6
    <2> HIDE DEF b
    <2> QED
      BY <2>1, <2>2, LastIs
  <1>9. Before(key, a) = u
    <2>1. /\ SubSeq(key, 1, a - 1) \in Seq(S) /\ Len(SubSeq(key, 1, a - 1)) = Len(u)
          /\ \A i \in 1..Len(u) : SubSeq(key, 1, a - 1)[i] = key[i]
      BY <1>1, <1>5, SubSeqProperties, ElementOfSeq
    <2> QED
      BY <1>0, <1>6, <2>1, SeqEqual DEF Before
  <1>10. SubSeq(key, a + 1, b - 1) = h
    <2>1. /\ SubSeq(key, a + 1, b - 1) \in Seq(S) /\ Len(SubSeq(key, a + 1, b - 1)) = Len(h)
          /\ \A i \in 1..Len(h) : SubSeq(key, a + 1, b - 1)[i] = key[a + i]
      BY <1>1, <1>5, SubSeqProperties, ElementOfSeq
    <2> QED
      BY <1>0, <1>6, <2>1, SeqEqual
  <1>11. After(key, b) = p
    <2>1. /\ SubSeq(key, b + 1, Len(key)) \in Seq(S) /\ Len(SubSeq(key, b + 1, Len(key))) = Len(p)
          /\ \A i \in 1..Len(p) : SubSeq(key, b + 1, Len(key))[i] = key[b + i]
      BY <1>1, <1>5, SubSeqProperties, ElementOfSeq
    <2> QED
      BY <1>0, <1>6, <2>1, SeqEqual DEF After
  <1> QED
    BY <1>7, <1>8, <1>9, <1>10, <1>11 DEF key, u, h, p

(* Splitting a text gives texts.                                            *)
LEMMA Pieces ==
  ASSUME NEW S, NEW t \in Seq(S), NEW i \in 1..Len(t)
  PROVE  /\ Before(t, i) \in Seq(S) /\ Len(Before(t, i)) = i - 1
         /\ \A j \in 1..(i - 1) : Before(t, i)[j] = t[j]
         /\ After(t, i) \in Seq(S)
  BY SubSeqProperties, ElementOfSeq, LenProperties DEF Before, After

LEMMA ParsedHost ==
  ASSUME NEW S, NEW rest \in Seq(S), rest # <<>>, NEW hp \in HostAndPort(rest)
  PROVE  hp.host \in Seq(S) /\ hp.port \in 0..MaxPort \cup {None}
  <1>1. ASSUME NEW t, NEW n \in ParseUnsigned(t, MaxPort) PROVE n \in 0..MaxPort
    BY <1>1 DEF ParseUnsigned
  <1>2. CASE Starts(rest, "[")
    <2>1. After(rest, 1) \in Seq(S)
      BY EmptySeq, Pieces, LenProperties
    <2>2. PICK p \in BracketPort(After(After(rest, 1), First(After(rest, 1), "]"))) :
            /\ Has(After(rest, 1), "]")
            /\ hp = [host |-> Before(After(rest, 1), First(After(rest, 1), "]")), port |-> p]
      BY <1>2 DEF HostAndPort, Bracketed
    <2>3. Before(After(rest, 1), First(After(rest, 1), "]")) \in Seq(S)
      BY <2>1, <2>2, FirstProperty, Pieces
    <2>4. p \in 0..MaxPort \cup {None}
      BY <1>1, <2>2 DEF BracketPort
    <2> QED
      BY <2>2, <2>3, <2>4
  <1>3. CASE ~Starts(rest, "[") /\ HasPort(rest)
    <2>1. PICK p \in ParseUnsigned(After(rest, Last(rest, ":")), MaxPort) :
            hp = [host |-> Before(rest, Last(rest, ":")), port |-> p]
      BY <1>3 DEF HostAndPort, Plain
    <2>2. Before(rest, Last(rest, ":")) \in Seq(S)
      BY <1>3, LastProperty, Pieces DEF HasPort
    <2> QED
      BY <1>1, <2>1, <2>2
  <1>4. CASE ~Starts(rest, "[") /\ ~HasPort(rest)
    BY <1>4 DEF HostAndPort, Plain
  <1> QED
    BY <1>2, <1>3, <1>4

(* What a destination is read as: the user ends before the first "@" and    *)
(* begins the text, and neither it nor the host begins with a dash.         *)
LEMMA Parsed ==
  ASSUME NEW S, NEW raw \in Seq(S), NEW t \in Parse(raw)
  PROVE  /\ t = Target(t.user, t.host, t.port)
         /\ t.user \in Seq(S) /\ ~Has(t.user, "@")
         /\ t.user # <<>> => t.user[1] # "-"
         /\ t.host \in Seq(S) /\ ~Starts(t.host, "-")
         /\ t.port \in 0..MaxPort \cup {None}
  <1>1. PICK hp \in HostAndPort(RestOf(raw)) :
          /\ ~Starts(hp.host, "-")
          /\ t = Target(UserOf(raw), hp.host, hp.port)
    BY DEF Parse
  <1>2. t.user = UserOf(raw) /\ t.host = hp.host /\ t.port = hp.port
    BY <1>1 DEF Target
  <1>3. raw # <<>> /\ ~Starts(raw, "-") /\ RestOf(raw) # <<>>
    BY DEF Parse
  <1>4. /\ RestOf(raw) \in Seq(S) /\ UserOf(raw) \in Seq(S)
        /\ ~Has(UserOf(raw), "@")
        /\ UserOf(raw) # <<>> => UserOf(raw)[1] # "-"
    <2>1. CASE ~Has(raw, "@")
      BY <2>1, EmptySeq, LenProperties DEF RestOf, UserOf, Has
    <2>2. CASE Has(raw, "@")
      <3> DEFINE at == First(raw, "@")
      <3>1. at \in 1..Len(raw) /\ \A j \in 1..(at - 1) : raw[j] # "@"
        BY <2>2, FirstProperty
      <3>2. /\ Before(raw, at) \in Seq(S) /\ Len(Before(raw, at)) = at - 1
            /\ \A j \in 1..(at - 1) : Before(raw, at)[j] = raw[j]
            /\ After(raw, at) \in Seq(S)
        BY <3>1, Pieces
      <3>3. ~Has(Before(raw, at), "@")
        BY <3>1, <3>2, LenProperties DEF Has
      <3>4. Before(raw, at) # <<>> => Before(raw, at)[1] # "-"
        BY <1>3, <3>1, <3>2, EmptySeq, LenProperties DEF Starts
      <3> QED
        BY <2>2, <3>2, <3>3, <3>4 DEF RestOf, UserOf
    <2> QED
      BY <2>1, <2>2
  <1>5. hp.host \in Seq(S) /\ hp.port \in 0..MaxPort \cup {None}
    BY <1>3, <1>4, ParsedHost
  <1> QED
    BY <1>1, <1>2, <1>4, <1>5

(* The digits of a port are digits, and tell the port.                      *)
LEMMA PortDigits ==
  ASSUME NEW n \in 0..MaxPort
  PROVE  /\ PortText[n] \in Seq(Digits) /\ PortText[n] # <<>>
         /\ Value(PortText[n]) = n
  <1>1. PICK t \in PortTexts : Value(t) = n /\ (Starts(t, "0") => Len(t) = 1)
    BY PortAssumption
  <1>2. PortText[n] \in PortTexts /\ Value(PortText[n]) = n
    BY <1>1 DEF PortText
  <1>3. PICK k \in 1..PortLength : PortText[n] \in [1..k -> Digits]
    BY <1>2 DEF PortTexts
  <1>4. k \in Nat /\ k # 0
    BY PortAssumption, <1>3
  <1>5. PortText[n] \in Seq(Digits)
    BY <1>3, <1>4, SeqDef
  <1>6. PortText[n] # <<>>
    <2>1. 1 \in DOMAIN PortText[n]
      BY <1>3, <1>4
    <2> QED
      BY <2>1, LenProperties, EmptySeq
  <1> QED
    BY <1>2, <1>5, <1>6

-----------------------------------------------------------------------------
(* The text stays a text over the alphabet of its field.                    *)
TextInv == field \in DOMAIN Alphabet /\ text \in Seq(Alphabet[field])

LEMMA TextInvariant == Spec => []TextInv
  <1>1. Init => TextInv
    BY EmptySeq DEF Init, TextInv
  <1>2. TextInv /\ [Next]_vars => TextInv'
    BY AppendProperties DEF TextInv, Next, Type, vars
  <1> QED
    BY <1>1, <1>2, PTL DEF Spec

(* Whatever was typed, ssh does not take the destination for an option:     *)
(* parse's two checks of a leading dash cover user and host.                *)
LEMMA NoFlag == TextInv => NeverAFlag
  <1> SUFFICES ASSUME TextInv, NEW t \in Parse(text) PROVE ~Starts(Destination(t), "-")
    BY DEF NeverAFlag, Destinations
  <1> DEFINE S == Alphabet[field] \cup {"@"}
  <1>1. text \in Seq(S)
    BY SeqMonotonic DEF TextInv
  <1> HIDE DEF S
  <1>2. /\ t.user \in Seq(S) /\ (t.user # <<>> => t.user[1] # "-")
        /\ t.host \in Seq(S) /\ ~Starts(t.host, "-")
    BY <1>1, Parsed
  <1>3. CASE t.user = <<>>
    BY <1>2, <1>3, ConcatEmptySeq DEF Destination
  <1>4. CASE t.user # <<>>
    <2>1. <<"@">> \in Seq(S) /\ Len(t.user) \in Nat \ {0}
      BY <1>2, <1>4, EmptySeq, LenProperties DEF S
    <2>2. t.user \o <<"@">> \in Seq(S) /\ (t.user \o <<"@">>)[1] = t.user[1]
          /\ Len(t.user \o <<"@">>) = Len(t.user) + 1
      BY <1>2, <2>1, ConcatProperties
    <2>3. ((t.user \o <<"@">>) \o t.host)[1] = t.user[1]
      <3> DEFINE k == t.user \o <<"@">>
      <3>1. k \in Seq(S) /\ k[1] = t.user[1] /\ Len(k) \in Nat /\ 1 <= Len(k)
        BY <2>1, <2>2
      <3>2. Len(t.host) \in Nat
        BY <1>2, LenProperties
      <3> HIDE DEF k
      <3>3. (k \o t.host)[1] = k[1]
        BY <1>2, <3>1, <3>2, ConcatProperties
      <3> QED
        BY <3>1, <3>3 DEF k
    <2> QED
      BY <1>2, <1>4, <2>3 DEF Destination, Starts
  <1> QED
    BY <1>3, <1>4

THEOREM NothingTypedIsAFlag == Spec => []NeverAFlag
  BY TextInvariant, NoFlag, PTL

(* The key of a target that was read from a text tells its user, host, port.*)
LEMMA KeyIsReadable ==
  ASSUME NEW A, NEW raw \in Seq(A), NEW t \in Parse(raw)
  PROVE  LET key == Key(t)
             at == First(key, "@")
             colon == Last(key, ":")
             port == After(key, colon)
         IN  t = Target(Before(key, at), SubSeq(key, at + 1, colon - 1),
                        IF port = <<>> THEN None ELSE Value(port))
  <1> DEFINE S == A \cup {"@", ":"} \cup Digits
  <1>1. raw \in Seq(S)
    BY SeqMonotonic
  <1>2. Digits \subseteq S /\ {"@", ":"} \subseteq S
    OBVIOUS
  <1> HIDE DEF S
  <1>3. /\ t = Target(t.user, t.host, t.port)
        /\ t.user \in Seq(S) /\ ~Has(t.user, "@") /\ t.host \in Seq(S)
        /\ t.port \in 0..MaxPort \cup {None}
    BY <1>1, Parsed
  <1>4. /\ PortPart(t.port) \in Seq(S) /\ ~Has(PortPart(t.port), ":")
        /\ t.port = IF PortPart(t.port) = <<>> THEN None ELSE Value(PortPart(t.port))
    <2>1. CASE t.port = None
      BY <2>1, EmptySeq DEF PortPart, Has
    <2>2. CASE t.port \in 0..MaxPort
      <3>1. PortPart(t.port) = PortText[t.port]
        BY <2>2, PortAssumption DEF PortPart, None
      <3>2. ":" \notin Digits
        BY DEF Digits, DigitValue
      <3>3. ~Has(PortText[t.port], ":")
        BY <2>2, <3>2, PortDigits, ElementOfSeq, LenProperties DEF Has
      <3> QED
        BY <1>2, <2>2, <3>1, <3>3, PortDigits, SeqMonotonic
    <2> QED
      BY <1>3, <2>1, <2>2
  <1>5. /\ Before(Key(t), First(Key(t), "@")) = t.user
        /\ SubSeq(Key(t), First(Key(t), "@") + 1, Last(Key(t), ":") - 1) = t.host
        /\ After(Key(t), Last(Key(t), ":")) = PortPart(t.port)
    BY <1>2, <1>3, <1>4, KeyParts
  <1> QED
    BY <1>3, <1>4, <1>5

(* A connection is found under its key by no other target than its own.     *)
THEOREM DifferentTargetsDifferentKeys ==
  ASSUME NEW A, NEW raw1 \in Seq(A), NEW raw2 \in Seq(A),
         NEW t1 \in Parse(raw1), NEW t2 \in Parse(raw2), Key(t1) = Key(t2)
  PROVE  t1 = t2
  <1> DEFINE Read(key) ==
               LET at == First(key, "@")
                   colon == Last(key, ":")
                   port == After(key, colon)
               IN  Target(Before(key, at), SubSeq(key, at + 1, colon - 1),
                          IF port = <<>> THEN None ELSE Value(port))
  <1>1. t1 = Read(Key(t1))
    BY KeyIsReadable
  <1>2. t2 = Read(Key(t2))
    BY KeyIsReadable
  <1> HIDE DEF Read
  <1> QED
    BY <1>1, <1>2

(* The same as an invariant: whatever destination was typed, its key tells  *)
(* the target it was read as.                                               *)
THEOREM KeysTellTargets == Spec => []KeyTells
  <1>1. TextInv => KeyTells
    BY KeyIsReadable DEF TextInv, KeyTells, Destinations
  <1> QED
    BY TextInvariant, <1>1, PTL

(* What is read is one target with a port in range, or a duration that fits.*)
LEMMA OneReading ==
  ASSUME NEW raw, NEW t \in Parse(raw), NEW u \in Parse(raw)
  PROVE  t = u
  <1>1. \A x, max : \A n, k \in ParseUnsigned(x, max) : n = k
    BY DEF ParseUnsigned
  <1>2. \A x : \A n, k \in BracketPort(x) : n = k
    BY <1>1 DEF BracketPort
  <1>3. \A rest : \A hp, hq \in HostAndPort(rest) : hp = hq
    <2> TAKE rest
    <2> TAKE hp, hq \in HostAndPort(rest)
    <2>1. CASE Starts(rest, "[")
      BY <1>2, <2>1 DEF HostAndPort, Bracketed
    <2>2. CASE ~Starts(rest, "[")
      BY <1>1, <2>2 DEF HostAndPort, Plain
    <2> QED
      BY <2>1, <2>2
  <1> QED
    BY <1>3 DEF Parse

LEMMA DurationTypes ==
  ASSUME NEW raw
  PROVE  ParseDuration(raw) # {} /\ \A o \in ParseDuration(raw) : IsOutcome(o)
  <1>1. ASSUME NEW n \in 0..MaxU64, NEW unit \in DOMAIN SecondsPer
        PROVE  /\ Times(n, SecondsPer[unit]) # {}
               /\ \A o \in Times(n, SecondsPer[unit]) : IsOutcome(o)
    <2>1. SecondsPer[unit] \in {1, 60, 3600}
      BY DEF SecondsPer
    <2> DEFINE k == n * SecondsPer[unit]
    <2>2. k \in Nat
      BY <2>1, DurationAssumption
    <2> HIDE DEF k
    <2>3. k % (MaxU64 + 1) \in 0..MaxU64
      BY <2>2, DurationAssumption
    <2>4. Times(n, SecondsPer[unit]) = IF k <= MaxU64 THEN {Ok(k)} ELSE {Panic, Ok(k % (MaxU64 + 1))}
      BY DEF Times, k
    <2>5. \A secs \in 0..MaxU64 : IsOutcome(Ok(secs))
      BY DEF IsOutcome, Ok
    <2> QED
      BY <2>2, <2>3, <2>4, <2>5, DurationAssumption DEF IsOutcome
  <1>2. \A x : ParseUnsigned(x, MaxU64) \subseteq 0..MaxU64
    BY DEF ParseUnsigned
  <1>3. IsOutcome(Refused) /\ IsOutcome(Panic)
    BY DEF IsOutcome
  <1> QED
    BY <1>1, <1>2, <1>3 DEF ParseDuration

THEOREM TypeCorrect == Spec => []TypeOK
  <1>1. TextInv => TypeOK
    <2> SUFFICES ASSUME TextInv PROVE TypeOK
      OBVIOUS
    <2>1. \A t \in Destinations : t.port \in 0..MaxPort \cup {None}
      BY Parsed DEF TextInv, Destinations
    <2> QED
      BY <2>1, OneReading, DurationTypes DEF TextInv, TypeOK, Destinations, DurationOutcomes
  <1> QED
    BY TextInvariant, <1>1, PTL

-----------------------------------------------------------------------------
(* A text put together around a character comes apart again at it.          *)
LEMMA SplitAt ==
  ASSUME NEW S, NEW a \in Seq(S), NEW c \in S, NEW b \in Seq(S)
  PROVE  LET t == a \o (<<c>> \o b)
             i == Len(a) + 1
         IN  /\ t \in Seq(S) /\ i \in 1..Len(t) /\ t[i] = c
             /\ Len(t) = Len(a) + 1 + Len(b)
             /\ a # <<>> => t[1] = a[1]
             /\ Before(t, i) = a /\ After(t, i) = b
             /\ ~Has(a, c) => First(t, c) = i
             /\ ~Has(b, c) => Last(t, c) = i
  <1> DEFINE t == a \o (<<c>> \o b)
             i == Len(a) + 1
  <1>1. <<c>> \in Seq(S) /\ Len(<<c>>) = 1 /\ <<c>>[1] = c
    OBVIOUS
  <1>2. Len(a) \in Nat /\ Len(b) \in Nat
    BY LenProperties
  <1>3. /\ <<c>> \o b \in Seq(S) /\ Len(<<c>> \o b) = Len(b) + 1
        /\ \A j \in 1..(Len(b) + 1) : (<<c>> \o b)[j] = IF j = 1 THEN c ELSE b[j - 1]
    BY <1>1, <1>2, ConcatProperties
  <1>4. /\ t \in Seq(S) /\ Len(t) = Len(a) + 1 + Len(b)
        /\ \A j \in 1..Len(a) : t[j] = a[j]
        /\ t[i] = c
        /\ \A j \in 1..Len(b) : t[i + j] = b[j]
    <2>1. /\ t \in Seq(S) /\ Len(t) = Len(a) + (Len(b) + 1)
          /\ \A j \in 1..(Len(a) + (Len(b) + 1)) :
               t[j] = IF j <= Len(a) THEN a[j] ELSE (<<c>> \o b)[j - Len(a)]
      BY <1>3, ConcatProperties
    <2>2. \A j \in 1..Len(a) : t[j] = a[j]
      BY <1>2, <2>1
    <2>3. t[i] = c
      BY <1>2, <1>3, <2>1
    <2>4. ASSUME NEW j \in 1..Len(b) PROVE t[i + j] = b[j]
      <3>1. /\ i + j \in 1..(Len(a) + (Len(b) + 1)) /\ ~(i + j <= Len(a))
            /\ i + j - Len(a) = j + 1 /\ j + 1 \in 1..(Len(b) + 1)
            /\ j + 1 # 1 /\ j + 1 - 1 = j
        BY <1>2
      <3>2. t[i + j] = (<<c>> \o b)[j + 1]
        BY <2>1, <3>1
      <3> QED
        BY <1>3, <3>1, <3>2
    <2> QED
      BY <1>2, <2>1, <2>2, <2>3, <2>4
  <1> HIDE DEF t
  <1>5. i \in 1..Len(t) /\ i - 1 = Len(a)
    BY <1>2, <1>4
  <1>6. Before(t, i) = a
    <2>1. /\ Before(t, i) \in Seq(S) /\ Len(Before(t, i)) = Len(a)
          /\ \A j \in 1..Len(a) : Before(t, i)[j] = t[j]
      BY <1>4, <1>5, Pieces
    <2> QED
      BY <1>4, <2>1, SeqEqual
  <1>7. After(t, i) = b
    <2>1. /\ SubSeq(t, i + 1, Len(t)) \in Seq(S) /\ Len(SubSeq(t, i + 1, Len(t))) = Len(b)
          /\ \A j \in 1..Len(b) : SubSeq(t, i + 1, Len(t))[j] = t[i + j]
      BY <1>2, <1>4, <1>5, SubSeqProperties, ElementOfSeq
    <2> QED
      BY <1>4, <2>1, SeqEqual DEF After
  <1>8. ASSUME ~Has(a, c) PROVE First(t, c) = i
    <2>1. \A k \in 1..(i - 1) : t[k] # c
      BY <1>4, <1>5, <1>8, LenProperties DEF Has
    <2> QED
      BY <1>4, <1>5, <2>1, FirstIs
  <1>9. ASSUME ~Has(b, c) PROVE Last(t, c) = i
    <2>1. ASSUME NEW k \in (i + 1)..Len(t) PROVE t[k] # c
      <3>1. k - i \in 1..Len(b) /\ i + (k - i) = k
        BY <1>2, <1>4
      <3>2. b[k - i] # c
        BY <1>9, <3>1, LenProperties DEF Has
      <3> QED
        BY <1>4, <3>1, <3>2
    <2> QED
      BY <1>4, <1>5, <2>1, LastIs
  <1>10. a # <<>> => t[1] = a[1]
    BY <1>4, EmptySeq
  <1> QED
    BY <1>4, <1>5, <1>6, <1>7, <1>8, <1>9, <1>10 DEF t

LEMMA SplitOff ==
  ASSUME NEW S, NEW c \in S, NEW b \in Seq(S)
  PROVE  LET t == <<c>> \o b
         IN  /\ t \in Seq(S) /\ t # <<>> /\ t[1] = c
             /\ After(t, 1) = b
  <1> DEFINE t == <<c>> \o b
  <1>1. <<c>> \in Seq(S) /\ Len(<<c>>) = 1 /\ <<c>>[1] = c
    OBVIOUS
  <1>2. /\ t \in Seq(S) /\ Len(t) = 1 + Len(b)
        /\ \A j \in 1..(1 + Len(b)) : t[j] = IF j <= 1 THEN <<c>>[j] ELSE b[j - 1]
    BY <1>1, ConcatProperties
  <1> HIDE DEF t
  <1>3. Len(b) \in Nat
    BY LenProperties
  <1>4. t[1] = c /\ \A j \in 1..Len(b) : t[1 + j] = b[j]
    <2>1. t[1] = c
      BY <1>1, <1>2, <1>3
    <2>2. ASSUME NEW j \in 1..Len(b) PROVE t[1 + j] = b[j]
      <3>1. 1 + j \in 1..(1 + Len(b)) /\ ~(1 + j <= 1) /\ 1 + j - 1 = j
        BY <1>3
      <3> QED
        BY <1>2, <3>1
    <2> QED
      BY <2>1, <2>2
  <1>5. t # <<>>
    BY <1>2, <1>3, EmptySeq
  <1>6. After(t, 1) = b
    <2>1. /\ SubSeq(t, 1 + 1, Len(t)) \in Seq(S) /\ Len(SubSeq(t, 1 + 1, Len(t))) = Len(b)
          /\ \A j \in 1..Len(b) : SubSeq(t, 1 + 1, Len(t))[j] = t[1 + j]
      BY <1>2, <1>3, SubSeqProperties, ElementOfSeq
    <2> QED
      BY <1>4, <2>1, SeqEqual DEF After
  <1> QED
    BY <1>2, <1>4, <1>5, <1>6 DEF t

(* The digits a port is written with are read as that port.                 *)
LEMMA PortReadsBack ==
  ASSUME NEW n \in 0..MaxPort
  PROVE  ParseUnsigned(PortText[n], MaxPort) = {n} /\ AllDigits(PortText[n])
  <1>1. /\ PortText[n] \in Seq(Digits) /\ PortText[n] # <<>>
        /\ Value(PortText[n]) = n
    BY PortDigits
  <1>2. "+" \notin Digits
    BY DEF Digits, DigitValue
  <1>3. Len(PortText[n]) \in Nat \ {0} /\ DOMAIN PortText[n] = 1..Len(PortText[n])
    BY <1>1, EmptySeq, LenProperties
  <1>4. \A i \in 1..Len(PortText[n]) : PortText[n][i] \in Digits
    BY <1>1, ElementOfSeq
  <1>5. AllDigits(PortText[n])
    BY <1>3, <1>4 DEF AllDigits
  <1>6. ~Starts(PortText[n], "+")
    BY <1>2, <1>3, <1>4 DEF Starts
  <1> QED
    BY <1>1, <1>5, <1>6 DEF ParseUnsigned

(* A host in brackets, with what is written after it for a port.            *)
AfterHost(port) == IF port = None THEN <<>> ELSE <<":">> \o PortText[port]

LEMMA AfterHostReadsBack ==
  ASSUME NEW S, Digits \subseteq S, ":" \in S, NEW port \in 0..MaxPort \cup {None}
  PROVE  AfterHost(port) \in Seq(S) /\ BracketPort(AfterHost(port)) = {port}
  <1>1. CASE port = None
    BY <1>1, EmptySeq DEF AfterHost, BracketPort, Starts
  <1>2. CASE port \in 0..MaxPort
    <2>1. AfterHost(port) = <<":">> \o PortText[port]
      BY <1>2, PortAssumption DEF AfterHost, None
    <2>2. PortText[port] \in Seq(S)
      BY <1>2, PortDigits, SeqMonotonic
    <2>3. /\ AfterHost(port) \in Seq(S) /\ Starts(AfterHost(port), ":")
          /\ After(AfterHost(port), 1) = PortText[port]
      BY <2>1, <2>2, SplitOff DEF Starts
    <2> QED
      BY <1>2, <2>3, PortReadsBack DEF BracketPort
  <1> QED
    BY <1>1, <1>2

LEMMA BracketsRead ==
  ASSUME NEW S, Digits \subseteq S, {"[", "]", ":"} \subseteq S,
         NEW host \in Seq(S), ~Has(host, "]"), NEW port \in 0..MaxPort \cup {None}
  PROVE  LET rest == <<"[">> \o (host \o (<<"]">> \o AfterHost(port)))
         IN  /\ rest \in Seq(S) /\ rest # <<>> /\ rest[1] = "["
             /\ HostAndPort(rest) = {[host |-> host, port |-> port]}
  <1> DEFINE tail == host \o (<<"]">> \o AfterHost(port))
             rest == <<"[">> \o tail
  <1>1. AfterHost(port) \in Seq(S) /\ BracketPort(AfterHost(port)) = {port}
    BY AfterHostReadsBack
  <1>2. /\ tail \in Seq(S) /\ Len(host) + 1 \in 1..Len(tail) /\ tail[Len(host) + 1] = "]"
        /\ Before(tail, Len(host) + 1) = host
        /\ After(tail, Len(host) + 1) = AfterHost(port)
        /\ First(tail, "]") = Len(host) + 1
    BY <1>1, SplitAt
  <1>3. Has(tail, "]")
    BY <1>2, LenProperties DEF Has
  <1> HIDE DEF tail
  <1>4. "[" \in S /\ tail \in Seq(S)
    BY <1>2
  <1>5. rest \in Seq(S) /\ rest # <<>> /\ rest[1] = "[" /\ After(rest, 1) = tail
    BY <1>4, SplitOff
  <1> HIDE DEF rest
  <1>6. Starts(rest, "[")
    BY <1>5 DEF Starts
  <1>7. Bracketed(rest) = {[host |-> host, port |-> port]}
    BY <1>1, <1>2, <1>3, <1>5 DEF Bracketed
  <1>8. HostAndPort(rest) = {[host |-> host, port |-> port]}
    BY <1>6, <1>7 DEF HostAndPort
  <1> QED
    BY <1>5, <1>8 DEF rest, tail

LEMMA PlainReads ==
  ASSUME NEW S, Digits \subseteq S, ":" \in S,
         NEW host \in Seq(S), host # <<>>, ~Has(host, ":"), ~Starts(host, "["),
         NEW port \in 0..MaxPort \cup {None}
  PROVE  LET rest == host \o AfterHost(port)
         IN  /\ rest \in Seq(S) /\ rest # <<>> /\ rest[1] = host[1]
             /\ HostAndPort(rest) = {[host |-> host, port |-> port]}
  <1>1. Len(host) \in Nat \ {0}
    BY EmptySeq
  <1>2. CASE port = None
    <2>1. host \o AfterHost(port) = host
      BY <1>2, ConcatEmptySeq DEF AfterHost
    <2>2. ~HasPort(host)
      BY DEF HasPort
    <2> QED
      BY <1>2, <2>1, <2>2 DEF HostAndPort, Plain
  <1>3. CASE port \in 0..MaxPort
    <2> DEFINE rest == host \o (<<":">> \o PortText[port])
    <2>1. host \o AfterHost(port) = rest
      BY <1>3, PortAssumption DEF AfterHost, None
    <2>2. PortText[port] \in Seq(S) /\ ~Has(PortText[port], ":")
      <3>1. ":" \notin Digits
        BY DEF Digits, DigitValue
      <3> QED
        BY <1>3, <3>1, PortDigits, SeqMonotonic, ElementOfSeq, LenProperties DEF Has
    <2>3. /\ rest \in Seq(S) /\ Len(host) + 1 \in 1..Len(rest) /\ rest[Len(host) + 1] = ":"
          /\ rest[1] = host[1]
          /\ Before(rest, Len(host) + 1) = host
          /\ After(rest, Len(host) + 1) = PortText[port]
          /\ Last(rest, ":") = Len(host) + 1
      BY <2>2, SplitAt
    <2> HIDE DEF rest
    <2>4. rest # <<>>
      BY <1>1, <2>3, EmptySeq
    <2>5. ~Starts(rest, "[")
      BY <2>3 DEF Starts
    <2>6. HasPort(rest)
      <3>1. Has(rest, ":")
        BY <2>3, LenProperties DEF Has
      <3> QED
        BY <1>1, <1>3, <2>3, <3>1, PortReadsBack DEF HasPort
    <2>7. HostAndPort(rest) = {[host |-> host, port |-> port]}
      <3>1. ParseUnsigned(PortText[port], MaxPort) = {port}
        BY <1>3, PortReadsBack
      <3>2. HostAndPort(rest) = {[host |-> host, port |-> p] :
                                   p \in ParseUnsigned(PortText[port], MaxPort)}
        BY <2>3, <2>5, <2>6 DEF HostAndPort, Plain
      <3> QED
        BY <3>1, <3>2
    <2> QED
      BY <2>1, <2>3, <2>4, <2>7
  <1> QED
    BY <1>2, <1>3

(* A user before what names a host and a port.                              *)
AtUser(user) == IF user = <<>> THEN <<>> ELSE user \o <<"@">>

LEMMA UserReadsBack ==
  ASSUME NEW S, "@" \in S, NEW user \in Seq(S), ~Has(user, "@"),
         user # <<>> => user[1] # "-",
         NEW rest \in Seq(S), rest # <<>>,
         user = <<>> => ~Has(rest, "@") /\ ~Starts(rest, "-"),
         NEW host, ~Starts(host, "-"), NEW port,
         HostAndPort(rest) = {[host |-> host, port |-> port]}
  PROVE  Parse(AtUser(user) \o rest) = {Target(user, host, port)}
  <1> DEFINE raw == AtUser(user) \o rest
  <1>1. /\ raw # <<>> /\ ~Starts(raw, "-") /\ ~Starts(raw, "@")
        /\ UserOf(raw) = user /\ RestOf(raw) = rest
    <2>1. CASE user = <<>>
      <3>1. raw = rest
        BY <2>1, ConcatEmptySeq DEF AtUser
      <3>2. ~Starts(rest, "@")
        BY <2>1, EmptySeq, LenProperties DEF Starts, Has
      <3> QED
        BY <2>1, <3>1, <3>2 DEF UserOf, RestOf
    <2>2. CASE user # <<>>
      <3>1. raw = user \o (<<"@">> \o rest)
        <4>1. <<"@">> \in Seq(S)
          OBVIOUS
        <4> QED
          BY <2>2, <4>1, ConcatAssociative DEF AtUser
      <3> HIDE DEF raw
      <3>2. /\ raw \in Seq(S) /\ Len(user) + 1 \in 1..Len(raw) /\ raw[Len(user) + 1] = "@"
            /\ raw[1] = user[1]
            /\ Before(raw, Len(user) + 1) = user /\ After(raw, Len(user) + 1) = rest
            /\ First(raw, "@") = Len(user) + 1
        BY <2>2, <3>1, SplitAt
      <3>3. Has(raw, "@")
        BY <3>2, LenProperties DEF Has
      <3>4. Len(user) \in Nat \ {0} /\ user[1] # "@"
        BY <2>2, EmptySeq, LenProperties DEF Has
      <3>5. raw # <<>>
        BY <3>2, <3>4, EmptySeq
      <3> QED
        BY <2>2, <3>2, <3>3, <3>4, <3>5 DEF UserOf, RestOf, Starts
    <2> QED
      BY <2>1, <2>2
  <1> HIDE DEF raw
  <1>2. Parse(raw) = {Target(user, host, port)}
    <2> DEFINE hp == [host |-> host, port |-> port]
    <2>1. {x \in HostAndPort(rest) : ~Starts(x.host, "-")} = {hp}
      OBVIOUS
    <2>2. Parse(raw) = {Target(user, x.host, x.port) : x \in {hp}}
      BY <1>1, <2>1 DEF Parse
    <2>3. hp.host = host /\ hp.port = port
      OBVIOUS
    <2> HIDE DEF hp
    <2> QED
      BY <2>2, <2>3
  <1> QED
    BY <1>2 DEF raw

(* A target that was read from a text with no "@" has none in its host.     *)
LEMMA NoUserNoAt ==
  ASSUME NEW S, NEW raw \in Seq(S), NEW t \in Parse(raw), t.user = <<>>
  PROVE  ~Has(t.host, "@")
  <1>1. ~Has(raw, "@")
    <2> SUFFICES ASSUME Has(raw, "@") PROVE FALSE
      OBVIOUS
    <2>1. raw # <<>> /\ ~Starts(raw, "@") /\ t.user = UserOf(raw)
      BY DEF Parse, Target
    <2>2. First(raw, "@") \in 1..Len(raw) /\ raw[First(raw, "@")] = "@"
      BY FirstProperty
    <2>3. First(raw, "@") # 1
      BY <2>1, <2>2 DEF Starts
    <2>4. Len(Before(raw, First(raw, "@"))) = First(raw, "@") - 1
      BY <2>2, Pieces
    <2>5. Before(raw, First(raw, "@")) = <<>>
      BY <2>1 DEF UserOf
    <2> QED
      BY <2>2, <2>3, <2>4, <2>5, EmptySeq, LenProperties
  <1>2. raw \in Seq(S \ {"@"})
    <2>1. Len(raw) \in Nat /\ raw \in [1..Len(raw) -> S] /\ DOMAIN raw = 1..Len(raw)
      BY LenProperties
    <2>2. raw \in [1..Len(raw) -> S \ {"@"}]
      BY <1>1, <2>1 DEF Has
    <2> QED
      BY <2>1, <2>2, SeqDef
  <1>3. t.host \in Seq(S \ {"@"})
    BY <1>2, Parsed
  <1> QED
    BY <1>3, ElementOfSeq, LenProperties DEF Has

LEMMA Without ==
  ASSUME NEW S, NEW c, NEW t \in Seq(S)
  PROVE  ~Has(t, c) <=> t \in Seq(S \ {c})
  <1>1. Len(t) \in Nat /\ t \in [1..Len(t) -> S] /\ DOMAIN t = 1..Len(t)
    BY LenProperties
  <1>2. ASSUME ~Has(t, c) PROVE t \in Seq(S \ {c})
    <2>1. t \in [1..Len(t) -> S \ {c}]
      BY <1>1, <1>2 DEF Has
    <2> QED
      BY <1>1, <2>1, SeqDef
  <1>3. ASSUME t \in Seq(S \ {c}) PROVE ~Has(t, c)
    BY <1>1, <1>3, ElementOfSeq DEF Has
  <1> QED
    BY <1>2, <1>3

(* What is typed around a host, and how it nests as it is read: the two are *)
(* named because concatenation does not associate by itself in a proof.     *)
TypedInBrackets(u, h, p) == u \o <<"[">> \o h \o <<"]">> \o p
ReadInBrackets(u, h, p) == u \o (<<"[">> \o (h \o (<<"]">> \o p)))
TypedPlain(u, h, p) == u \o h \o p
ReadPlain(u, h, p) == u \o (h \o p)

LEMMA PlainNests ==
  ASSUME NEW S, NEW u \in Seq(S), NEW h \in Seq(S), NEW p \in Seq(S)
  PROVE  TypedPlain(u, h, p) = ReadPlain(u, h, p)
  BY SMT DEF TypedPlain, ReadPlain

LEMMA BracketsNest ==
  ASSUME NEW S, "[" \in S, "]" \in S,
         NEW u \in Seq(S), NEW h \in Seq(S), NEW p \in Seq(S)
  PROVE  TypedInBrackets(u, h, p) = ReadInBrackets(u, h, p)
  <1>1. <<"[">> \in Seq(S) /\ <<"]">> \in Seq(S)
    OBVIOUS
  <1>2. PICK a \in Seq(S) : a = <<"[">>
    BY <1>1
  <1>3. PICK b \in Seq(S) : b = <<"]">>
    BY <1>1
  <1>4. u \o a \in Seq(S) /\ b \o p \in Seq(S)
    BY ConcatProperties
  <1>5. PICK uah \in Seq(S) : uah = u \o a \o h
    BY <1>4, ConcatProperties
  <1>6. PICK bp \in Seq(S) : bp = b \o p
    BY <1>4
  <1>7. (uah \o b) \o p = uah \o (b \o p)
    BY SMT
  <1>8. u \o a \o h \o bp = u \o (a \o (h \o bp))
    BY SMTT(60)
  <1> QED
    BY <1>2, <1>3, <1>5, <1>6, <1>7, <1>8, Zenon DEF TypedInBrackets, ReadInBrackets

(* What is known of a target that was read from a text.                     *)
LEMMA ReadTarget ==
  ASSUME NEW A, NEW S, A \subseteq S, NEW raw \in Seq(A), NEW t \in Parse(raw)
  PROVE  /\ t = Target(t.user, t.host, t.port)
         /\ t.user \in Seq(S) /\ ~Has(t.user, "@")
         /\ t.user # <<>> => t.user[1] # "-"
         /\ t.host \in Seq(S) /\ ~Starts(t.host, "-")
         /\ t.user = <<>> => t.host \in Seq(S \ {"@"})
         /\ t.port \in 0..MaxPort \cup {None}
  <1>1. raw \in Seq(S)
    BY SeqMonotonic
  <1>2. t.host \in Seq(S)
    BY <1>1, Parsed
  <1>3. t.user = <<>> => t.host \in Seq(S \ {"@"})
    BY <1>1, <1>2, NoUserNoAt, Without
  <1> QED
    BY <1>1, <1>3, Parsed

(* A target that was typed can be typed again with its host in brackets,    *)
(* whatever the host is, as long as it has no closing bracket in it.        *)
THEOREM BracketsReachEveryHost == Spec => []BracketsReadBack
  <1>1. ASSUME TextInv, NEW t \in Parse(text), ~Has(t.host, "]")
        PROVE  Parse((IF t.user = <<>> THEN <<>> ELSE t.user \o <<"@">>)
                       \o <<"[">> \o t.host \o <<"]">>
                       \o (IF t.port = None THEN <<>> ELSE <<":">> \o PortText[t.port])) = {t}
    <2> DEFINE A == Alphabet[field]
               S == A \cup {"@", "[", "]", ":"} \cup Digits
               rest == <<"[">> \o (t.host \o (<<"]">> \o AfterHost(t.port)))
    <2>1. text \in Seq(A) /\ A \subseteq S /\ Digits \subseteq S
          /\ {"@", "[", "]", ":"} \subseteq S
      BY <1>1 DEF TextInv
    <2>2. "@" \notin Digits
      BY DEF Digits, DigitValue
    <2> HIDE DEF A, S
    <2>3. /\ t = Target(t.user, t.host, t.port)
          /\ t.user \in Seq(S) /\ ~Has(t.user, "@")
          /\ t.user # <<>> => t.user[1] # "-"
          /\ t.host \in Seq(S) /\ ~Starts(t.host, "-")
          /\ t.user = <<>> => t.host \in Seq(S \ {"@"})
          /\ t.port \in 0..MaxPort \cup {None}
      BY <1>1, <2>1, ReadTarget
    <2>4. /\ rest \in Seq(S) /\ rest # <<>> /\ rest[1] = "["
          /\ HostAndPort(rest) = {[host |-> t.host, port |-> t.port]}
      BY <1>1, <2>1, <2>3, BracketsRead
    <2>5. ASSUME t.user = <<>> PROVE ~Has(rest, "@") /\ ~Starts(rest, "-")
      <3>1. /\ Digits \subseteq S \ {"@"} /\ {"[", "]", ":"} \subseteq S \ {"@"}
            /\ t.host \in Seq(S \ {"@"})
        BY <2>1, <2>2, <2>3, <2>5
      <3>2. rest \in Seq(S \ {"@"})
        BY <1>1, <2>3, <3>1, BracketsRead
      <3> QED
        BY <2>4, <3>2, Without DEF Starts
    <2> HIDE DEF rest
    <2>6. "@" \in S
      BY <2>1
    <2>7. Parse(AtUser(t.user) \o rest) = {Target(t.user, t.host, t.port)}
      BY <2>3, <2>4, <2>5, <2>6, UserReadsBack
    <2>8. TypedInBrackets(AtUser(t.user), t.host, AfterHost(t.port)) = AtUser(t.user) \o rest
      <3>1. AfterHost(t.port) \in Seq(S)
        BY <2>1, <2>3, AfterHostReadsBack
      <3>2. "[" \in S /\ "]" \in S /\ <<"@">> \in Seq(S)
        BY <2>1
      <3>3. AtUser(t.user) \in Seq(S)
        BY <2>3, <3>2, EmptySeq, ConcatProperties DEF AtUser
      <3>4. TypedInBrackets(AtUser(t.user), t.host, AfterHost(t.port))
              = ReadInBrackets(AtUser(t.user), t.host, AfterHost(t.port))
        BY <2>3, <3>1, <3>2, <3>3, BracketsNest
      <3> QED
        BY <3>4, Zenon DEF ReadInBrackets, rest
    <2>9. Parse(TypedInBrackets(AtUser(t.user), t.host, AfterHost(t.port))) = {t}
      BY <2>3, <2>7, <2>8
    <2> QED
      BY <2>9, Zenon DEF TypedInBrackets, AtUser, AfterHost
  <1>2. TextInv => BracketsReadBack
    BY <1>1 DEF BracketsReadBack, Destinations
  <1> QED
    BY TextInvariant, <1>2, PTL

(* What is displayed for a target names that target when it is typed, with  *)
(* the exceptions DisplayReadsBack makes.                                   *)
THEOREM DisplayedNamesAreNames == Spec => []DisplayReadsBack
  <1>1. ASSUME TextInv, NEW t \in Parse(text),
               t.host # <<>>, ~Has(t.host, ":"), ~Starts(t.host, "[")
        PROVE  Parse(Display(t)) = {t}
    <2> DEFINE A == Alphabet[field]
               S == A \cup {"@", ":"} \cup Digits
               rest == t.host \o AfterHost(t.port)
    <2>1. text \in Seq(A) /\ A \subseteq S /\ Digits \subseteq S /\ {"@", ":"} \subseteq S
      BY <1>1 DEF TextInv
    <2>2. "@" \notin Digits
      BY DEF Digits, DigitValue
    <2> HIDE DEF A, S
    <2>3. /\ t = Target(t.user, t.host, t.port)
          /\ t.user \in Seq(S) /\ ~Has(t.user, "@")
          /\ t.user # <<>> => t.user[1] # "-"
          /\ t.host \in Seq(S) /\ ~Starts(t.host, "-")
          /\ t.user = <<>> => t.host \in Seq(S \ {"@"})
          /\ t.port \in 0..MaxPort \cup {None}
      BY <1>1, <2>1, ReadTarget
    <2>4. "@" \in S /\ ":" \in S
      BY <2>1
    <2>5. /\ rest \in Seq(S) /\ rest # <<>> /\ rest[1] = t.host[1]
          /\ HostAndPort(rest) = {[host |-> t.host, port |-> t.port]}
      <3>1. /\ Digits \subseteq S /\ ":" \in S
            /\ t.host \in Seq(S) /\ t.host # <<>>
            /\ ~Has(t.host, ":") /\ ~Starts(t.host, "[")
            /\ t.port \in 0..MaxPort \cup {None}
        BY <1>1, <2>1, <2>3
      <3> QED
        BY <3>1, PlainReads
    <2>6. ASSUME t.user = <<>> PROVE ~Has(rest, "@") /\ ~Starts(rest, "-")
      <3>1. /\ Digits \subseteq S \ {"@"} /\ ":" \in S \ {"@"}
            /\ t.host \in Seq(S \ {"@"})
        BY <2>1, <2>2, <2>3, <2>6
      <3>2. rest \in Seq(S \ {"@"})
        BY <1>1, <2>3, <3>1, PlainReads
      <3> QED
        BY <1>1, <2>3, <2>5, <3>2, Without DEF Starts
    <2>7. TypedPlain(AtUser(t.user), t.host, AfterHost(t.port)) = AtUser(t.user) \o rest
      <3>1. AfterHost(t.port) \in Seq(S)
        BY <2>1, <2>3, <2>4, AfterHostReadsBack
      <3>2. <<"@">> \in Seq(S)
        BY <2>4
      <3>3. AtUser(t.user) \in Seq(S)
        BY <2>3, <3>2, EmptySeq, ConcatProperties DEF AtUser
      <3>4. TypedPlain(AtUser(t.user), t.host, AfterHost(t.port))
              = ReadPlain(AtUser(t.user), t.host, AfterHost(t.port))
        BY <2>3, <3>1, <3>3, PlainNests
      <3> QED
        BY <3>4, Zenon DEF ReadPlain, rest
    <2> HIDE DEF rest
    <2>8. Parse(AtUser(t.user) \o rest) = {Target(t.user, t.host, t.port)}
      BY <2>3, <2>4, <2>5, <2>6, UserReadsBack
    <2>9. Display(t) = TypedPlain(AtUser(t.user), t.host, AfterHost(t.port))
      BY DEF Display, Destination, AtUser, AfterHost, TypedPlain
    <2> QED
      BY <2>3, <2>7, <2>8, <2>9
  <1>2. TextInv => DisplayReadsBack
    BY <1>1 DEF DisplayReadsBack, Destinations
  <1> QED
    BY TextInvariant, <1>2, PTL

=============================================================================
