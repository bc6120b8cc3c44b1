------------------------------ MODULE Targets ------------------------------
(***************************************************************************)
(* SSH destinations, crates/core/src/lib.rs: how `[user@]host[:port]` is   *)
(* read into a HostTarget, and the three texts a HostTarget is turned into *)
(* again: the key the daemon tracks a connection under, the name it is     *)
(* displayed and measured under, and the argument ssh is run with.         *)
(***************************************************************************)
EXTENDS Texts

CONSTANTS MaxPort,       \* u16::MAX, 65535 in the code
          PortLength     \* the most digits a port is written with, 5 in the code

PortTexts == UNION {[1..n -> Digits] : n \in 1..PortLength}

(* PortLength digits are enough to write every port.                        *)
ASSUME PortAssumption ==
  /\ MaxPort \in Nat /\ PortLength \in Nat
  /\ \A n \in 0..MaxPort :
       \E t \in PortTexts : Value(t) = n /\ (Starts(t, "0") => Len(t) = 1)

(* u16::to_string: no leading zero.                                         *)
PortText == [n \in 0..MaxPort |->
               CHOOSE t \in PortTexts : Value(t) = n /\ (Starts(t, "0") => Len(t) = 1)]

(* A HostTarget.  An absent user is the empty text: parse refuses an empty  *)
(* user, so no other target has one.                                        *)
Target(user, host, port) == [user |-> user, host |-> host, port |-> port]

(* Seeded fault: the port is read into a wider type.                        *)
BracketPort_Wider(tail) ==
  IF Starts(tail, ":") THEN ParseUnsigned(After(tail, 1), MaxPort * MaxPort) ELSE {None}

(* The `:port` after a bracketed host: `tail` is what follows the bracket.  *)
BracketPort(tail) ==
  IF Starts(tail, ":") THEN ParseUnsigned(After(tail, 1), MaxPort) ELSE {None}

(* Seeded fault: the brackets stay part of the host.                        *)
Bracketed_Keeps(rest) ==
  LET close == First(rest, "]")
  IN  IF ~Has(rest, "]") THEN {}
      ELSE {[host |-> SubSeq(rest, 1, close), port |-> p] :
              p \in BracketPort(After(rest, close))}

(* host[:port], as [host, port] pairs: empty when it is refused.            *)
Bracketed(rest) ==
  LET stripped == After(rest, 1)
      close == First(stripped, "]")
  IN  IF ~Has(stripped, "]") THEN {}
      ELSE {[host |-> Before(stripped, close), port |-> p] :
              p \in BracketPort(After(stripped, close))}

HasPort(rest) ==
  /\ Has(rest, ":")
  /\ Last(rest, ":") > 1
  /\ AllDigits(After(rest, Last(rest, ":")))

Plain(rest) ==
  IF HasPort(rest)
  THEN {[host |-> Before(rest, Last(rest, ":")), port |-> p] :
          p \in ParseUnsigned(After(rest, Last(rest, ":")), MaxPort)}
  ELSE {[host |-> rest, port |-> None]}

HostAndPort(rest) == IF Starts(rest, "[") THEN Bracketed(rest) ELSE Plain(rest)

(* The text is split at its first "@", if it has one.                       *)
UserOf(raw) == IF Has(raw, "@") THEN Before(raw, First(raw, "@")) ELSE <<>>
RestOf(raw) == IF Has(raw, "@") THEN After(raw, First(raw, "@")) ELSE raw

(* Seeded fault: only the whole text is looked at for a leading dash.       *)
Parse_RawOnly(raw) ==
  IF \/ raw = <<>> \/ Starts(raw, "-") \/ Starts(raw, "@") \/ RestOf(raw) = <<>>
  THEN {}
  ELSE {Target(UserOf(raw), hp.host, hp.port) : hp \in HostAndPort(RestOf(raw))}

(* HostTarget::parse: the set of the targets a text is read as, which has   *)
(* one member, or none when the text is refused.                            *)
Parse(raw) ==
  IF \/ raw = <<>> \/ Starts(raw, "-") \/ Starts(raw, "@") \/ RestOf(raw) = <<>>
  THEN {}
  ELSE {Target(UserOf(raw), hp.host, hp.port) :
          hp \in {x \in HostAndPort(RestOf(raw)) : ~Starts(x.host, "-")}}

PortPart(port) == IF port = None THEN <<>> ELSE PortText[port]

(* Seeded fault: one master for all ports of a host.                        *)
Key_PortForgotten(t) == t.user \o <<"@">> \o t.host \o <<":">>

(* HostTarget::key, of the control-master connection.                       *)
Key(t) == t.user \o <<"@">> \o t.host \o <<":">> \o PortPart(t.port)

(* destination_string, the last argument of every ssh command.              *)
Destination(t) == (IF t.user = <<>> THEN <<>> ELSE t.user \o <<"@">>) \o t.host

(* Seeded fault: the user is shown only next to a port.                     *)
Display_UserForgotten(t) ==
  IF t.port = None THEN t.host ELSE Destination(t) \o <<":">> \o PortText[t.port]

(* HostTarget::display.                                                     *)
Display(t) ==
  Destination(t) \o (IF t.port = None THEN <<>> ELSE <<":">> \o PortText[t.port])
=============================================================================
