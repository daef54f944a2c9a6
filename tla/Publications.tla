---------------------------- MODULE Publications ----------------------------
(* What managed configuration promises to whoever consumes it: documents   *)
(* are published one after the other, a published one never changes, and   *)
(* each names the authority under which its Automation Task Definition     *)
(* runs: its own publisher or, for exactly the scope that was published    *)
(* just before, whoever was named there.  Of a document only what it says  *)
(* of that definition is kept.                                             *)
EXTENDS Sequences, Naturals

CONSTANTS Principals,   \* principals that publish
          Contents      \* what a document can say of the definition

ASSUME PublicationAssumption ==
  /\ "none" \notin Principals
  /\ Contents # {} /\ Contents \subseteq {"gone", "off", "on", "wide"}

VARIABLE published

Enabled == {"on", "wide"}

Evidence == [content : Contents, actor : Principals,
             intent : Principals \cup {"none"}]

\* Before the first document nothing is retained.
Foundation ==
  {e \in Evidence : e.intent = IF e.content \in Enabled THEN e.actor ELSE "none"}

PublicationInit == \E e \in Foundation : published = <<e>>

Latest == published[Len(published)]

\* The authority a publication of this content may name.
Named(content, actor) ==
  IF content \notin Enabled THEN {"none"}
  ELSE {actor} \cup IF content = Latest.content THEN {Latest.intent} ELSE {}

Publish ==
  \E c \in Contents, p \in Principals : \E i \in Named(c, p) :
    published' = Append(published, [content |-> c, actor |-> p, intent |-> i])

PublicationSpec == PublicationInit /\ [][Publish]_published

=============================================================================
