------------------------------- MODULE Inputs -------------------------------
(***************************************************************************)
(* The two kinds of text a user gives sshflow, typed one character at a    *)
(* time: every text of up to MaxLength characters is a state, and what the *)
(* code makes of it is checked there.  A destination is the argument of    *)
(* `sshflow ssh`; a duration is a field of config.yaml.                    *)
(***************************************************************************)
EXTENDS Targets, Durations

CONSTANTS Alphabet,      \* for each field, the characters typed into it
          MaxLength      \* bound: the length of a text

VARIABLES field,         \* what the text is for
          text           \* the text so far

vars == <<field, text>>

Init == field \in DOMAIN Alphabet /\ text = <<>>

Type(c) ==
  /\ Len(text) < MaxLength
  /\ text' = Append(text, c)
  /\ UNCHANGED field

Next == \E c \in Alphabet[field] : Type(c)

Spec == Init /\ [][Next]_vars
-----------------------------------------------------------------------------
Destinations == IF field = "destination" THEN Parse(text) ELSE {}
DurationOutcomes == IF field = "duration" THEN ParseDuration(text) ELSE {}

IsOutcome(o) == o \in {Refused, Panic} \/ (o.kind = "ok" /\ o = Ok(o.secs) /\ o.secs \in 0..MaxU64)

(* A destination is read in at most one way, and its port is in range; a    *)
(* duration always has an outcome (HostTarget::parse, parse_duration).      *)
TypeOK ==
  /\ field \in DOMAIN Alphabet /\ text \in Seq(Alphabet[field])
  /\ \A t, u \in Destinations : t = u
  /\ \A t \in Destinations : t.port \in 0..MaxPort \cup {None}
  /\ field = "duration" => DurationOutcomes # {}
  /\ \A o \in DurationOutcomes : IsOutcome(o)

(* A key tells everything of the target it stands for, so two different     *)
(* targets never share a master: the user ends at the first "@", the port   *)
(* starts at the last ":" (HostTarget::key, parse's use of split_once).     *)
KeyTells ==
  \A t \in Destinations :
    LET key == Key(t)
        at == First(key, "@")
        colon == Last(key, ":")
        port == After(key, colon)
    IN  t = Target(Before(key, at), SubSeq(key, at + 1, colon - 1),
                   IF port = <<>> THEN None ELSE Value(port))

(* ssh never takes the destination argument for an option, whatever the     *)
(* user typed (parse's two checks, destination_string).                     *)
NeverAFlag == \A t \in Destinations : ~Starts(Destination(t), "-")

(* A target can be typed again with its host in brackets, with a port or    *)
(* without, and is then read as itself: no host is out of reach but one     *)
(* with a closing bracket in it.                                            *)
BracketsReadBack ==
  \A t \in Destinations :
    ~Has(t.host, "]") =>
      Parse((IF t.user = <<>> THEN <<>> ELSE t.user \o <<"@">>)
              \o <<"[">> \o t.host \o <<"]">>
              \o (IF t.port = None THEN <<>> ELSE <<":">> \o PortText[t.port])) = {t}

(* What is displayed can be typed: a name in the statistics or in           *)
(* `sshflow list` names the target it was displayed for.  Excepted is every *)
(* host with a colon, also one that can be typed as it stands (a:b), and    *)
(* every one that begins with a bracket: display adds no brackets.          *)
DisplayReadsBack ==
  \A t \in Destinations :
    (t.host # <<>> /\ ~Has(t.host, ":") /\ ~Starts(t.host, "[")) =>
      Parse(Display(t)) = {t}

(* What a duration means, said without a parser: digits, perhaps a sign     *)
(* before them, a unit, and nothing but spaces around.                      *)
Means(raw, i, j) ==            \* the digits are raw[i..j], the unit raw[j + 1]
  /\ \A k \in i..j : raw[k] \in Digits
  /\ raw[j + 1] \in DOMAIN SecondsPer
  /\ \A k \in DOMAIN raw : k > j + 1 => raw[k] = " "
  /\ \A k \in 1..(i - 1) : raw[k] = " " \/ (k = i - 1 /\ raw[k] = "+")

(* The number written there, from the right: each digit by its place.       *)
PlaceValues(raw, i, j) ==
  LET from[k \in i..(j + 1)] ==
        IF k > j THEN [sum |-> 0, weight |-> 1]
        ELSE [sum |-> DigitValue[raw[k]] * from[k + 1].weight + from[k + 1].sum,
              weight |-> 10 * from[k + 1].weight]
  IN  from[i].sum

(* A duration that fits is read as exactly the seconds it means, and only   *)
(* what means nothing is refused; what does not fit, or ends in a wide      *)
(* character, is all that can go wrong (parse_duration).                    *)
DurationsAreExact ==
  LET meanings == {ij \in (1..Len(text)) \X (1..Len(text)) :
                     ij[1] <= ij[2] /\ ij[2] < Len(text) /\ Means(text, ij[1], ij[2])}
      Number(ij) == PlaceValues(text, ij[1], ij[2])
      Seconds(ij) == Number(ij) * SecondsPer[text[ij[2] + 1]]
  IN  \A o \in DurationOutcomes :
        CASE o.kind = "ok" ->
               \E ij \in meanings : o.secs = Seconds(ij) \/ Seconds(ij) > MaxU64
          [] o.kind = "refused" -> \A ij \in meanings : Number(ij) > MaxU64
          [] o.kind = "panic" ->
               \/ \E ij \in meanings : Seconds(ij) > MaxU64
               \/ Trimmed(text)[Len(Trimmed(text))] \in Wide

=============================================================================
