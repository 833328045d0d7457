------------------------------ MODULE Requests ------------------------------
(***************************************************************************)
(* What a create request asks for, and what the API makes of it before it  *)
(* stores anything: JSON binding, the default priority, template rendering *)
(* and validation.  A request is a record: its channel and its priority    *)
(* ("" is the empty string), whether it names a recipient, the length of   *)
(* its content, its template, and the lengths of the values it supplies.   *)
(***************************************************************************)
EXTENDS Naturals
LOCAL INSTANCE FiniteSetsExt

CONSTANTS
    MaxLength,   \* channelMaxLen: [supported channels -> Nat]
    Body,        \* [Templates -> [text : Nat, needs : sets of variables]]
    NoTemplate

Templates == DOMAIN Body

Channels == DOMAIN MaxLength

Priorities == {"high", "normal", "low"}

\* binding:"required" of a single request; it is not applied to batch items.
Bound(r) == r.channel # "" /\ r.recipient

Defaulted(priority) == IF priority = "" THEN "normal" ELSE priority

Renderable(r) == Body[r.template].needs \subseteq DOMAIN r.values

\* The content that is stored: each {{variable}} replaced by its value.
ContentLength(r) ==
    IF r.template = NoTemplate
    THEN r.content
    ELSE Body[r.template].text
             + MapThenSumSet(LAMBDA v : r.values[v], Body[r.template].needs)

\* Mutant: the length of the content as typed is checked, not as rendered.
ValidAsTyped(r) ==
    /\ r.channel \in Channels
    /\ Defaulted(r.priority) \in Priorities
    /\ r.recipient
    /\ r.content > 0 \/ r.template # NoTemplate
    /\ r.content <= MaxLength[r.channel]

\* domain.ValidateNotification
Valid(r) ==
    /\ r.channel \in Channels
    /\ Defaulted(r.priority) \in Priorities
    /\ r.recipient
    /\ ContentLength(r) > 0 \/ r.template # NoTemplate
    /\ ContentLength(r) <= MaxLength[r.channel]

\* Templates.Get finds what a request names.
Found(r, stored) == r.template \in stored \cup {NoTemplate}

\* Templates.Get, Render and ValidateNotification with these templates stored.
Verdict(r, stored) ==
    IF ~Found(r, stored)
    THEN "notemplate"
    ELSE IF (r.template \in stored => Renderable(r)) /\ Valid(r)
         THEN "valid" ELSE "invalid"
=============================================================================
