-------------------- MODULE ConfigurationRevisionsProofs --------------------
(* What configuration revisions promise for any number of principals and    *)
(* revisions.  One Active revision is inductive with the rows' types.  That *)
(* nothing published is undone needs two facts about what happens between   *)
(* the transactions: a Draft nobody edited still says what its base says    *)
(* (Faithful), and a validation that will be written back carries what its  *)
(* row says (Current), because every edit is a new version.  That the       *)
(* audits tell the publications in order needs the order of the revisions   *)
(* themselves (Ordered) and what an activation in flight has decided        *)
(* (Decided); the chain is followed by looking at the least revision for    *)
(* which a claim about it would fail.                                       *)
EXTENDS ConfigurationRevisions, TLAPS, WellFoundedInduction, FiniteSetTheorems

Desks == [pc : {"idle", "validating", "preparing", "committing"},
          rev : Revisions, version : 0 .. MaxVersion,
          content : Contents \cup {"gone"}, valid : BOOLEAN,
          intent : Principals \cup {"none"}, before : 0 .. MaxRevisions]

\* An unedited Draft says what the published revision it was taken from says.
Faithful(r) ==
  revision[r].status \in {"draft", "validated"} /\ ~revision[r].edited =>
    /\ revision[r].base \in Revisions
    /\ revision[revision[r].base].status \in Published
    /\ revision[r].content = revision[revision[r].base].content

\* A validation that still may be written back writes what the row says.
Current(p) ==
  desk[p].pc = "validating" =>
    LET row == revision[desk[p].rev] IN
      /\ row.status # "absent"
      /\ desk[p].version <= row.version
      /\ desk[p].version = row.version /\ row.status \notin Published =>
           desk[p].content = row.content

RevisionInv ==
  /\ RevisionTypeOK
  /\ desk \in [Principals -> Desks]
  /\ \A r \in Revisions : Faithful(r)
  /\ \A p \in Principals : Current(p)

-----------------------------------------------------------------------------
(* Rows and the Active revision.                                           *)

LEMMA ActiveIsOne ==
  ASSUME RevisionTypeOK
  PROVE  /\ Active \in Revisions
         /\ revision[Active].status = "active"
         /\ \A q \in Revisions : revision[q].status = "active" => q = Active
BY DEF RevisionTypeOK, Active

LEMMA Bounds ==
  /\ 0 \in 0 .. MaxRevisions /\ 1 \in Revisions /\ Revisions \subseteq 0 .. MaxRevisions
  /\ 0 \in 0 .. MaxVersion /\ 1 \in 0 .. MaxVersion
BY RevisionAssumption DEF Revisions

LEMMA Blank == Absent \in Row
BY Bounds DEF Absent, Row, Statuses, Published

LEMMA Rest == AtRest \in Desks
BY Bounds DEF AtRest, Desks

-----------------------------------------------------------------------------
(* The initial state.                                                      *)

LEMMA InitEstablishes == RevisionInit => RevisionInv
<1> SUFFICES ASSUME RevisionInit PROVE RevisionInv
  OBVIOUS
<1> PICK c \in Contents, p \in Principals :
      revision = [r \in Revisions |->
         IF r = 1 THEN [Absent EXCEPT !.status = "active", !.version = 1,
                          !.content = c, !.actor = p,
                          !.intent = IF c \in Enabled THEN p ELSE "none"]
                  ELSE Absent]
  BY DEF RevisionInit
<1> DEFINE first == [Absent EXCEPT !.status = "active", !.version = 1,
                       !.content = c, !.actor = p,
                       !.intent = IF c \in Enabled THEN p ELSE "none"]
<1>1. first \in Row /\ first.status = "active"
  BY Bounds DEF Absent, Row, Statuses, Published
<1>2. Absent.status = "absent"
  BY DEF Absent
<1>3. revision = [r \in Revisions |-> IF r = 1 THEN first ELSE Absent]
  OBVIOUS
<1> HIDE DEF first
<1>4. revision \in [Revisions -> Row]
  BY <1>1, <1>3, Blank
<1>5. /\ revision[1].status = "active"
      /\ \A q \in Revisions : q # 1 => revision[q].status = "absent"
  BY <1>1, <1>2, <1>3, Bounds
<1>6. RevisionTypeOK
  BY <1>4, <1>5, Bounds DEF RevisionInit, RevisionTypeOK
<1>7. desk \in [Principals -> Desks]
  BY Rest DEF RevisionInit
<1>8. \A r \in Revisions : Faithful(r)
  BY <1>5 DEF Faithful
<1>9. \A q \in Principals : Current(q)
  BY DEF Current, RevisionInit, AtRest
<1> QED
  BY <1>6, <1>7, <1>8, <1>9 DEF RevisionInv

-----------------------------------------------------------------------------
(* The rows are kept by whoever only sits at a desk.                       *)

LEMMA RowsStand ==
  ASSUME RevisionInv, UNCHANGED revision, permitted' \subseteq Principals,
         desk' \in [Principals -> Desks],
         \A p \in Principals : Current(p)'
  PROVE  RevisionInv'
BY DEF RevisionInv, RevisionTypeOK, Faithful

-----------------------------------------------------------------------------
(* Drafts.                                                                 *)

LEMMA CreateSuccessorKeeps ==
  ASSUME RevisionInv, NEW r \in Revisions, CreateSuccessor(r)
  PROVE  RevisionInv'
<1> DEFINE draft == [Absent EXCEPT !.status = "draft", !.version = 1,
                       !.base = Active, !.content = revision[Active].content]
<1>1. /\ revision' = [revision EXCEPT ![r] = draft]
      /\ revision[r].status = "absent"
      /\ UNCHANGED permitted /\ UNCHANGED desk
  BY DEF CreateSuccessor
<1>2. /\ revision \in [Revisions -> Row] /\ permitted \subseteq Principals
      /\ desk \in [Principals -> Desks]
  BY DEF RevisionInv, RevisionTypeOK
<1>3. /\ Active \in Revisions /\ revision[Active].status = "active"
      /\ \A q \in Revisions : revision[q].status = "active" => q = Active
  BY ActiveIsOne DEF RevisionInv
<1>4. /\ draft.status = "draft" /\ draft.base = Active
      /\ draft.content = revision[Active].content
  BY DEF Absent
<1>5. draft \in Row
  <2>1. revision[Active].content \in Contents \cup {"gone"}
    BY <1>2, <1>3 DEF Row
  <2> QED BY <2>1, <1>3, Bounds DEF Absent, Row, Statuses, Published
<1> HIDE DEF draft
<1>6. revision' \in [Revisions -> Row]
  BY <1>1, <1>2, <1>5
<1>7. Active # r
  BY <1>1, <1>3
<1>8. RevisionTypeOK'
  BY <1>1, <1>2, <1>3, <1>4, <1>6, <1>7 DEF RevisionTypeOK
<1>9. \A q \in Revisions : Faithful(q)'
  <2> TAKE q \in Revisions
  <2>1. CASE q = r
    BY <2>1, <1>1, <1>2, <1>3, <1>4, <1>7 DEF Faithful, Published
  <2>2. CASE q # r
    <3>1. Faithful(q)
      BY DEF RevisionInv
    <3> QED BY <3>1, <2>2, <1>1, <1>2 DEF Faithful, Published
  <2> QED BY <2>1, <2>2
<1>10. \A p \in Principals : Current(p)'
  <2> TAKE p \in Principals
  <2>1. Current(p) /\ desk[p].rev \in Revisions
    BY <1>2 DEF RevisionInv, Desks
  <2> QED BY <2>1, <1>1, <1>2 DEF Current
<1> QED
  BY <1>1, <1>2, <1>8, <1>9, <1>10 DEF RevisionInv

LEMMA EditDraftKeeps ==
  ASSUME RevisionInv, NEW r \in Revisions, NEW c \in Contents, EditDraft(r, c)
  PROVE  RevisionInv'
<1> DEFINE row == [revision[r] EXCEPT !.status = "draft", !.content = c,
                     !.version = @ + 1, !.edited = TRUE]
<1>1. /\ revision \in [Revisions -> Row] /\ permitted \subseteq Principals
      /\ desk \in [Principals -> Desks]
  BY DEF RevisionInv, RevisionTypeOK
<1>2. /\ revision' = [revision EXCEPT ![r] = row]
      /\ revision[r].status \in {"draft", "validated"}
      /\ revision[r].version < MaxVersion
      /\ UNCHANGED permitted /\ UNCHANGED desk
  BY <1>1 DEF EditDraft
<1>3. /\ row.status = "draft" /\ row.edited /\ row.version = revision[r].version + 1
      /\ row \in Row
  <2>1. revision[r] \in Row
    BY <1>1
  <2>2. revision[r].version + 1 \in 0 .. MaxVersion
    BY <2>1, <1>2, RevisionAssumption DEF Row
  <2>3. "draft" \in Statuses /\ c \in Contents \cup {"gone"}
    BY DEF Statuses
  <2> QED BY <2>1, <2>2, <2>3 DEF Row
<1>4. revision[r].version \in Nat
  BY <1>1, RevisionAssumption DEF Row
<1> HIDE DEF row
<1>5. RevisionTypeOK'
  <2>1. revision' \in [Revisions -> Row]
    BY <1>1, <1>2, <1>3
  <2>2. \A q \in Revisions : revision'[q].status = "active" <=> revision[q].status = "active"
    BY <1>1, <1>2, <1>3
  <2> QED BY <1>1, <1>2, <2>1, <2>2, ActiveIsOne DEF RevisionTypeOK, RevisionInv
<1>6. \A q \in Revisions : Faithful(q)'
  <2> TAKE q \in Revisions
  <2>1. CASE q = r
    BY <2>1, <1>1, <1>2, <1>3 DEF Faithful
  <2>2. CASE q # r
    <3>1. Faithful(q)
      BY DEF RevisionInv
    <3> QED BY <3>1, <2>2, <1>1, <1>2 DEF Faithful, Published
  <2> QED BY <2>1, <2>2
<1>7. \A p \in Principals : Current(p)'
  <2> TAKE p \in Principals
  <2>1. Current(p) /\ desk[p].rev \in Revisions /\ desk[p].version \in Nat
    BY <1>1, RevisionAssumption DEF RevisionInv, Desks
  <2>2. CASE desk[p].rev = r
    BY <2>1, <2>2, <1>1, <1>2, <1>3, <1>4 DEF Current
  <2>3. CASE desk[p].rev # r
    BY <2>1, <2>3, <1>1, <1>2 DEF Current
  <2> QED BY <2>2, <2>3
<1> QED
  BY <1>1, <1>2, <1>5, <1>6, <1>7 DEF RevisionInv

LEMMA BeginValidateKeeps ==
  ASSUME RevisionInv, NEW p \in Principals, NEW r \in Revisions,
         BeginValidate(p, r)
  PROVE  RevisionInv'
<1> PICK valid \in BOOLEAN :
      desk' = [desk EXCEPT ![p] =
        [AtRest EXCEPT !.pc = "validating", !.rev = r, !.valid = valid,
           !.version = revision[r].version, !.content = revision[r].content]]
  BY DEF BeginValidate
<1> DEFINE seat == [AtRest EXCEPT !.pc = "validating", !.rev = r,
                      !.valid = valid, !.version = revision[r].version,
                      !.content = revision[r].content]
<1>1. /\ desk' = [desk EXCEPT ![p] = seat]
      /\ UNCHANGED revision /\ UNCHANGED permitted
      /\ revision[r].status \in {"draft", "validated"}
  BY DEF BeginValidate
<1>2. /\ revision[r] \in Row /\ permitted \subseteq Principals
      /\ desk \in [Principals -> Desks]
  BY DEF RevisionInv, RevisionTypeOK
<1>3. /\ seat \in Desks /\ seat.rev = r /\ seat.version = revision[r].version
      /\ seat.content = revision[r].content
  BY <1>2, Bounds DEF AtRest, Desks, Row
<1>4. revision[r].version \in Nat
  BY <1>2, RevisionAssumption DEF Row
<1> HIDE DEF seat
<1>5. \A q \in Principals : Current(q)'
  <2> TAKE q \in Principals
  <2>1. Current(q)
    BY DEF RevisionInv
  <2>2. CASE q = p
    BY <2>2, <1>1, <1>2, <1>3, <1>4 DEF Current
  <2>3. CASE q # p
    BY <2>1, <2>3, <1>1, <1>2 DEF Current
  <2> QED BY <2>2, <2>3
<1>6. desk' \in [Principals -> Desks]
  BY <1>1, <1>2, <1>3
<1> QED
  BY <1>1, <1>2, <1>5, <1>6, RowsStand

\* Leaving a desk writes back nothing more.
LEMMA Leaves ==
  ASSUME NEW p \in Principals, desk \in [Principals -> Desks],
         desk' = [desk EXCEPT ![p] = AtRest]
  PROVE  /\ desk' \in [Principals -> Desks]
         /\ Current(p)'
         /\ \A q \in Principals : q # p => desk'[q] = desk[q]
<1>1. desk' \in [Principals -> Desks] /\ desk'[p] = AtRest
  BY Rest
<1>2. AtRest.pc # "validating"
  BY DEF AtRest
<1> QED
  BY <1>1, <1>2 DEF Current

LEMMA RecordValidationKeeps ==
  ASSUME RevisionInv, NEW p \in Principals, RecordValidation(p)
  PROVE  RevisionInv'
<1> DEFINE d == desk[p]
           row == [revision[d.rev] EXCEPT !.content = d.content,
                     !.status = IF d.valid THEN "validated" ELSE "draft"]
<1>1. /\ revision \in [Revisions -> Row] /\ permitted \subseteq Principals
      /\ desk \in [Principals -> Desks]
  BY DEF RevisionInv, RevisionTypeOK
<1>2. /\ d.pc = "validating" /\ UNCHANGED permitted
      /\ desk' = [desk EXCEPT ![p] = AtRest]
  BY DEF RecordValidation
<1>3. d \in Desks /\ d.rev \in Revisions
  BY <1>1 DEF Desks
<1>4. /\ desk' \in [Principals -> Desks] /\ Current(p)'
      /\ \A q \in Principals : q # p => desk'[q] = desk[q]
  BY <1>1, <1>2, Leaves
<1>5. CASE Unchanged(d.rev, d.version)
  <2>1. revision' = [revision EXCEPT ![d.rev] = row]
    BY <1>1, <1>3, <1>5 DEF RecordValidation
  <2>2. /\ revision[d.rev].status \in {"draft", "validated"}
        /\ d.content = revision[d.rev].content
    <3>1. Current(p) /\ revision[d.rev] \in Row
      BY <1>1, <1>3 DEF RevisionInv
    <3> QED
      BY <3>1, <1>2, <1>5 DEF Current, Unchanged, Row, Statuses
  <2>3. /\ row \in Row /\ row.status \in {"draft", "validated"}
        /\ row.content = revision[d.rev].content
        /\ row.version = revision[d.rev].version
        /\ row.base = revision[d.rev].base
        /\ row.edited = revision[d.rev].edited
    <3>1. revision[d.rev] \in Row
      BY <1>1, <1>3
    <3>2. d.valid \in BOOLEAN /\ d.content \in Contents \cup {"gone"}
      BY <1>3 DEF Desks
    <3> QED BY <3>1, <3>2, <2>2 DEF Row, Statuses
  <2> HIDE DEF row
  <2>4. RevisionTypeOK'
    <3>1. revision' \in [Revisions -> Row]
      BY <1>1, <2>1, <2>3
    <3>2. \A q \in Revisions : revision'[q].status = "active" <=> revision[q].status = "active"
      BY <1>1, <2>1, <2>2, <2>3
    <3> QED BY <1>1, <1>2, <3>1, <3>2, ActiveIsOne DEF RevisionTypeOK, RevisionInv
  <2>5. \A q \in Revisions : Faithful(q)'
    <3> TAKE q \in Revisions
    <3>1. Faithful(q)
      BY DEF RevisionInv
    <3>2. CASE q = d.rev
      BY <3>1, <3>2, <1>1, <1>3, <2>1, <2>2, <2>3 DEF Faithful, Published
    <3>3. CASE q # d.rev
      BY <3>1, <3>3, <1>1, <1>3, <2>1, <2>2, <2>3 DEF Faithful, Published
    <3> QED BY <3>2, <3>3
  <2>6. \A q \in Principals : q # p => Current(q)'
    <3> TAKE q \in Principals
    <3> HAVE q # p
    <3>1. Current(q) /\ desk[q].rev \in Revisions /\ desk'[q] = desk[q]
      BY <1>1, <1>4 DEF RevisionInv, Desks
    <3>2. CASE desk[q].rev = d.rev
      BY <3>1, <3>2, <1>1, <1>3, <2>1, <2>2, <2>3 DEF Current, Published
    <3>3. CASE desk[q].rev # d.rev
      BY <3>1, <3>3, <1>1, <1>3, <2>1 DEF Current
    <3> QED BY <3>2, <3>3
  <2> QED
    BY <1>4, <2>4, <2>5, <2>6 DEF RevisionInv
<1>6. CASE ~Unchanged(d.rev, d.version)
  <2>1. UNCHANGED revision
    BY <1>6 DEF RecordValidation
  <2>2. \A q \in Principals : q # p => Current(q)'
    BY <2>1, <1>4 DEF RevisionInv, Current
  <2> QED
    BY <1>1, <1>2, <1>4, <2>1, <2>2, RowsStand
<1> QED
  BY <1>5, <1>6

-----------------------------------------------------------------------------
(* Activation.                                                             *)

\* The two reads of an activation change only the publisher's desk.
LEMMA Takes ==
  ASSUME RevisionInv, NEW p \in Principals, NEW seat \in Desks,
         seat.pc # "validating", desk' = [desk EXCEPT ![p] = seat],
         UNCHANGED revision, UNCHANGED permitted
  PROVE  RevisionInv'
<1>1. desk \in [Principals -> Desks] /\ permitted \subseteq Principals
  BY DEF RevisionInv, RevisionTypeOK
<1>2. desk' \in [Principals -> Desks]
  BY <1>1
<1>3. \A q \in Principals : Current(q)'
  <2> TAKE q \in Principals
  <2>1. Current(q)
    BY DEF RevisionInv
  <2> QED BY <2>1, <1>1 DEF Current
<1> QED
  BY <1>1, <1>2, <1>3, RowsStand

LEMMA DecideIntentKeeps ==
  ASSUME RevisionInv, NEW p \in Principals, NEW r \in Revisions,
         DecideIntent(p, r)
  PROVE  RevisionInv'
<1> DEFINE seat(principal) ==
      [AtRest EXCEPT !.pc = "preparing", !.rev = r,
         !.version = revision[r].version, !.content = revision[r].content,
         !.intent = principal]
<1>1. /\ Active \in Revisions /\ revision[Active] \in Row
      /\ revision[r] \in Row
  BY ActiveIsOne DEF RevisionInv, RevisionTypeOK
<1>2. PICK i \in Principals \cup {"none"} : desk' = [desk EXCEPT ![p] = seat(i)]
  BY <1>1 DEF DecideIntent, Row
<1>3. seat(i) \in Desks /\ seat(i).pc # "validating"
  BY <1>1, Bounds DEF AtRest, Desks, Row
<1>4. UNCHANGED revision /\ UNCHANGED permitted
  BY DEF DecideIntent
<1> HIDE DEF seat
<1> QED
  BY <1>2, <1>3, <1>4, Takes

LEMMA AttestPredecessorKeeps ==
  ASSUME RevisionInv, NEW p \in Principals, AttestPredecessor(p)
  PROVE  RevisionInv'
<1> DEFINE seat == [desk[p] EXCEPT !.pc = "committing", !.before = Active]
<1>1. desk \in [Principals -> Desks] /\ Active \in Revisions
  BY ActiveIsOne DEF RevisionInv
<1>2. desk' = [desk EXCEPT ![p] = seat]
  BY <1>1 DEF AttestPredecessor
<1>3. seat \in Desks /\ seat.pc # "validating"
  <2>1. desk[p] \in Desks
    BY <1>1
  <2> QED BY <2>1, <1>1, Bounds DEF Desks
<1>4. UNCHANGED revision /\ UNCHANGED permitted
  BY DEF AttestPredecessor
<1> HIDE DEF seat
<1> QED
  BY <1>2, <1>3, <1>4, Takes

\* What one activation writes: the Active revision is superseded by a
\* validated one that was taken from it.
Replaces(a, b) ==
  /\ a \in Revisions /\ b \in Revisions
  /\ revision[a].status = "active" /\ revision[b].status = "validated"
  /\ revision[b].base = a
  /\ revision' \in [Revisions -> Row]
  /\ revision'[a].status = "superseded" /\ revision'[b].status = "active"
  /\ \A q \in Revisions :
       /\ revision'[q].content = revision[q].content
       /\ revision'[q].version = revision[q].version
       /\ revision'[q].base = revision[q].base
       /\ revision'[q].edited = revision[q].edited
       /\ q \notin {a, b} => revision'[q].status = revision[q].status

LEMMA ActivationReplaces ==
  ASSUME RevisionInv, NEW p \in Principals, CommitActivation(p),
         Activatable(desk[p].rev, desk[p].version)
  PROVE  Replaces(Active, desk[p].rev)
<1> DEFINE d == desk[p]
           old == [revision[Active] EXCEPT !.status = "superseded"]
           new == [revision[d.rev] EXCEPT !.status = "active",
                     !.before = d.before, !.actor = p, !.intent = d.intent]
<1>1. /\ revision \in [Revisions -> Row] /\ d \in Desks
  BY DEF RevisionInv, RevisionTypeOK
<1>2. Active \in Revisions /\ revision[Active].status = "active"
  BY ActiveIsOne DEF RevisionInv
<1>3. /\ d.rev \in Revisions /\ d.before \in 0 .. MaxRevisions
      /\ d.intent \in Principals \cup {"none"}
  BY <1>1 DEF Desks
<1>4. /\ revision[d.rev].status = "validated" /\ revision[d.rev].base = Active
      /\ d.rev # Active
  BY <1>2 DEF Activatable
<1>5. revision' = [revision EXCEPT ![Active] = old, ![d.rev] = new]
  BY <1>1, <1>2, <1>3, <1>4 DEF CommitActivation
<1>6. /\ revision[Active] \in Row /\ revision[d.rev] \in Row
  BY <1>1, <1>2, <1>3
<1>7. /\ old \in Row /\ old.status = "superseded"
      /\ old.content = revision[Active].content
      /\ old.version = revision[Active].version
      /\ old.base = revision[Active].base
      /\ old.edited = revision[Active].edited
  BY <1>6 DEF Row, Statuses, Published
<1>8. /\ new \in Row /\ new.status = "active"
      /\ new.content = revision[d.rev].content
      /\ new.version = revision[d.rev].version
      /\ new.base = revision[d.rev].base
      /\ new.edited = revision[d.rev].edited
  BY <1>3, <1>6 DEF Row, Statuses, Published
<1> HIDE DEF old, new, d
<1>9. /\ revision' \in [Revisions -> Row]
      /\ revision'[Active] = old /\ revision'[d.rev] = new
      /\ \A q \in Revisions : q \notin {Active, d.rev} => revision'[q] = revision[q]
  BY <1>1, <1>2, <1>3, <1>4, <1>5, <1>7, <1>8
<1> QED
  BY <1>2, <1>3, <1>4, <1>7, <1>8, <1>9 DEF Replaces, d

LEMMA CommitActivationKeeps ==
  ASSUME RevisionInv, NEW p \in Principals, CommitActivation(p)
  PROVE  RevisionInv'
<1> DEFINE d == desk[p]
<1>1. /\ revision \in [Revisions -> Row] /\ permitted \subseteq Principals
      /\ desk \in [Principals -> Desks]
  BY DEF RevisionInv, RevisionTypeOK
<1>2. UNCHANGED permitted /\ desk' = [desk EXCEPT ![p] = AtRest]
  BY DEF CommitActivation
<1>3. /\ desk' \in [Principals -> Desks] /\ Current(p)'
      /\ \A q \in Principals : q # p => desk'[q] = desk[q]
  BY <1>1, <1>2, Leaves
<1>4. CASE Activatable(d.rev, d.version)
  <2>1. PICK a, b \in Revisions : Replaces(a, b)
    BY <1>4, ActivationReplaces DEF Replaces
  <2>2. RevisionTypeOK'
    BY <1>1, <1>2, <2>1, ActiveIsOne DEF RevisionTypeOK, RevisionInv, Replaces
  <2>3. \A q \in Revisions : Faithful(q)'
    <3> TAKE q \in Revisions
    <3>1. Faithful(q)
      BY DEF RevisionInv
    <3> QED BY <3>1, <2>1 DEF Faithful, Published, Replaces
  <2>4. \A q \in Principals : q # p => Current(q)'
    <3> TAKE q \in Principals
    <3> HAVE q # p
    <3>1. Current(q) /\ desk[q].rev \in Revisions /\ desk'[q] = desk[q]
      BY <1>1, <1>3 DEF RevisionInv, Desks
    <3> QED BY <3>1, <2>1 DEF Current, Published, Replaces
  <2> QED
    BY <1>3, <2>2, <2>3, <2>4 DEF RevisionInv
<1>5. CASE ~Activatable(d.rev, d.version)
  <2>1. UNCHANGED revision
    BY <1>5 DEF CommitActivation
  <2>2. \A q \in Principals : q # p => Current(q)'
    BY <2>1, <1>3 DEF RevisionInv, Current
  <2> QED
    BY <1>1, <1>2, <1>3, <2>1, <2>2, RowsStand
<1> QED
  BY <1>4, <1>5

LEMMA ChangePermissionKeeps ==
  ASSUME RevisionInv, NEW p \in Principals, ChangePermission(p)
  PROVE  RevisionInv'
<1>1. /\ UNCHANGED revision /\ UNCHANGED desk
      /\ permitted' \subseteq Principals
  BY DEF ChangePermission, RevisionInv, RevisionTypeOK
<1>2. desk' \in [Principals -> Desks] /\ \A q \in Principals : Current(q)'
  BY <1>1 DEF RevisionInv, Current
<1> QED
  BY <1>1, <1>2, RowsStand

-----------------------------------------------------------------------------
(* The theorems.                                                           *)

LEMMA StepKeeps == RevisionInv /\ [RevisionNext]_revisionVars => RevisionInv'
<1> SUFFICES ASSUME RevisionInv, [RevisionNext]_revisionVars
             PROVE  RevisionInv'
  OBVIOUS
<1>1. CASE UNCHANGED revisionVars
  <2>1. UNCHANGED revision /\ UNCHANGED permitted /\ UNCHANGED desk
    BY <1>1 DEF revisionVars
  <2> QED
    BY <2>1 DEF RevisionInv, RevisionTypeOK, Faithful, Current
<1>2. CASE RevisionNext
  <2>1. ASSUME NEW r \in Revisions, CreateSuccessor(r) PROVE RevisionInv'
    BY <2>1, CreateSuccessorKeeps
  <2>2. ASSUME NEW r \in Revisions, NEW c \in Contents, EditDraft(r, c)
        PROVE  RevisionInv'
    BY <2>2, EditDraftKeeps
  <2>3. ASSUME NEW p \in Principals, NEW r \in Revisions, BeginValidate(p, r)
        PROVE  RevisionInv'
    BY <2>3, BeginValidateKeeps
  <2>4. ASSUME NEW p \in Principals, NEW r \in Revisions, DecideIntent(p, r)
        PROVE  RevisionInv'
    BY <2>4, DecideIntentKeeps
  <2>5. ASSUME NEW p \in Principals, RecordValidation(p) PROVE RevisionInv'
    BY <2>5, RecordValidationKeeps
  <2>6. ASSUME NEW p \in Principals, AttestPredecessor(p) PROVE RevisionInv'
    BY <2>6, AttestPredecessorKeeps
  <2>7. ASSUME NEW p \in Principals, CommitActivation(p) PROVE RevisionInv'
    BY <2>7, CommitActivationKeeps
  <2>8. ASSUME NEW p \in Principals, ChangePermission(p) PROVE RevisionInv'
    BY <2>8, ChangePermissionKeeps
  <2> QED
    BY <1>2, <2>1, <2>2, <2>3, <2>4, <2>5, <2>6, <2>7, <2>8 DEF RevisionNext
<1> QED
  BY <1>1, <1>2

LEMMA RevisionInvariant == RevisionSpec => []RevisionInv
<1>1. RevisionInit => RevisionInv
  BY InitEstablishes
<1>2. RevisionInv /\ [RevisionNext]_revisionVars => RevisionInv'
  BY StepKeeps
<1> QED
  BY <1>1, <1>2, PTL DEF RevisionSpec

\* Exactly one revision is Active at any time, whatever validations and
\* activations are in flight, and every row keeps its type.
THEOREM OneActiveRevision == RevisionSpec => []RevisionTypeOK
<1>1. RevisionInv => RevisionTypeOK
  BY DEF RevisionInv
<1> QED
  BY <1>1, RevisionInvariant, PTL

\* An activation whose Draft never touched the definition says of it what the
\* revision it replaces said: a publication is not lost to an older Draft.
THEOREM NothingPublishedIsLost == RevisionSpec => NoLostPublication
<1> DEFINE Keeps ==
      \A a, b \in Revisions :
        /\ revision[a].status = "active" /\ revision'[b].status = "active"
        /\ a # b /\ ~revision[b].edited
        => revision'[b].content = revision[a].content
<1>1. RevisionInv /\ [RevisionNext]_revisionVars => [Keeps]_revisionVars
  <2> SUFFICES ASSUME RevisionInv, RevisionNext PROVE Keeps
    OBVIOUS
  <2> SUFFICES ASSUME NEW a \in Revisions, NEW b \in Revisions,
                      revision[a].status = "active",
                      revision'[b].status = "active",
                      a # b, ~revision[b].edited
               PROVE  revision'[b].content = revision[a].content
    OBVIOUS
  <2>1. revision[b].status # "active"
    BY ActiveIsOne DEF RevisionInv
  <2>2. revision \in [Revisions -> Row] /\ desk \in [Principals -> Desks]
    BY DEF RevisionInv, RevisionTypeOK
  <2>3. PICK p \in Principals : CommitActivation(p)
    <3>1. ASSUME NEW r \in Revisions, CreateSuccessor(r) PROVE FALSE
      <4>1. b # r => revision'[b] = revision[b]
        BY <3>1, <2>2 DEF CreateSuccessor
      <4>2. revision'[r].status = "draft"
        BY <3>1, <2>2 DEF CreateSuccessor, Absent
      <4> QED BY <4>1, <4>2, <2>1
    <3>2. ASSUME NEW r \in Revisions, NEW c \in Contents, EditDraft(r, c)
          PROVE  FALSE
      BY <3>2, <2>1, <2>2 DEF EditDraft, Row
    <3>3. ASSUME NEW p \in Principals, RecordValidation(p) PROVE FALSE
      <4>1. desk[p].rev \in Revisions
        BY <2>2 DEF Desks
      <4> QED BY <3>3, <4>1, <2>1, <2>2 DEF RecordValidation, Row
    <3>4. ASSUME UNCHANGED revision PROVE FALSE
      BY <3>4, <2>1
    <3> QED
      BY <3>1, <3>2, <3>3, <3>4 DEF RevisionNext, BeginValidate, DecideIntent,
         AttestPredecessor, ChangePermission
  <2>4. Activatable(desk[p].rev, desk[p].version)
    BY <2>1, <2>3 DEF CommitActivation
  <2>5. PICK old, new \in Revisions : Replaces(old, new)
    BY <2>3, <2>4, ActivationReplaces DEF Replaces
  <2>6. old = a /\ new = b
    BY <2>1, <2>5, ActiveIsOne DEF RevisionInv, Replaces
  <2>7. Faithful(b)
    BY DEF RevisionInv
  <2> QED
    BY <2>5, <2>6, <2>7 DEF Faithful, Replaces
<1> QED
  BY <1>1, RevisionInvariant, PTL DEF RevisionSpec, NoLostPublication

-----------------------------------------------------------------------------
(* The chain of publications.  It is computed along the revisions, so what *)
(* it says of one is shown by looking at the least revision for which it   *)
(* would not hold.                                                         *)

LEMMA Least ==
  ASSUME NEW N \in Nat, NEW S \in SUBSET (0 .. N), S # {}
  PROVE  \E n \in S : \A m \in S : n <= m
<1> DEFINE T == {0 .. n : n \in S}
<1>1. IsWellFoundedOn(StrictSubsetOrdering(0 .. N), FiniteSubsetsOf(0 .. N))
  BY FS_StrictSubsetOrderingWellFounded
<1>2. T \subseteq FiniteSubsetsOf(0 .. N) /\ T # {}
  <2>1. ASSUME NEW n \in S PROVE 0 .. n \in FiniteSubsetsOf(0 .. N)
    <3>1. IsFiniteSet(0 .. n)
      BY FS_Interval
    <3> QED
     BY <3>1 DEF FiniteSubsetsOf
  <2> QED
    BY <2>1
<1>3. PICK x \in T : \A y \in T : ~(<<y, x>> \in StrictSubsetOrdering(0 .. N))
  <2> HIDE DEF T
  <2> QED
  BY <1>1, <1>2, WFMin
<1>4. PICK n \in S : x = 0 .. n
  BY <1>3
<1>5. ASSUME NEW m \in S, m < n PROVE FALSE
  <2>1. 0 .. m \in T /\ 0 .. m \subseteq 0 .. n /\ 0 .. m # 0 .. n
    BY <1>5
  <2>2. <<0 .. m, 0 .. n>> \in StrictSubsetOrdering(0 .. N)
    BY <2>1 DEF StrictSubsetOrdering
  <2> QED
    BY <2>1, <2>2, <1>3, <1>4
<1> QED
  BY <1>5

Entry(row) == [content |-> row.content, actor |-> row.actor, intent |-> row.intent]

\* f is the chain along these rows, as far as revision n.
Along(rows, n, f) ==
  f = [r \in 0 .. n |->
         IF r = 0 THEN <<>> ELSE Append(f[rows[r].before], Entry(rows[r]))]

Links(rows) ==
  CHOOSE f : f = [r \in 0 .. MaxRevisions |->
    IF r = 0 THEN <<>> ELSE Append(f[rows[r].before], Entry(rows[r]))]

Backward(rows) ==
  \A r \in Revisions : rows[r].before \in Nat /\ rows[r].before < r

LEMMA ChainIsLinks == Chain = Links(revision)[Active]
BY DEF Chain, Links, Entry

LEMMA ChainExists ==
  ASSUME NEW rows, Backward(rows), NEW n \in 0 .. MaxRevisions
  PROVE  \E f : Along(rows, n, f)
<1> DEFINE Bad == {k \in 0 .. MaxRevisions : ~\E f : Along(rows, k, f)}
<1>1. SUFFICES ASSUME Bad # {} PROVE FALSE
  OBVIOUS
<1>2. MaxRevisions \in Nat
  BY RevisionAssumption
<1>3. PICK k \in Bad : \A m \in Bad : k <= m
  <2>1. Bad \in SUBSET (0 .. MaxRevisions)
    OBVIOUS
  <2> HIDE DEF Bad
  <2> QED
    BY <1>1, <1>2, <2>1, Least
<1>4. CASE k = 0
  <2>1. Along(rows, 0, [r \in 0 .. 0 |-> <<>>])
    BY DEF Along
  <2> QED
    BY <2>1, <1>3, <1>4
<1>5. CASE k # 0
  <2>1. k \in Nat /\ k - 1 \in 0 .. MaxRevisions /\ k - 1 < k /\ k \in Revisions
    BY <1>2, <1>5 DEF Revisions
  <2>2. k - 1 \notin Bad
    BY <2>1, <1>2, <1>3
  <2>3. PICK g : Along(rows, k - 1, g)
    BY <2>1, <2>2
  <2> DEFINE next == Append(g[rows[k].before], Entry(rows[k]))
             f == [r \in 0 .. k |-> IF r = k THEN next ELSE g[r]]
  <2>4. rows[k].before \in 0 .. k - 1
    BY <2>1 DEF Backward
  <2>5. ASSUME NEW r \in 0 .. k
        PROVE  f[r] = IF r = 0 THEN <<>> ELSE Append(f[rows[r].before], Entry(rows[r]))
    <3>1. CASE r = k
      <4> DEFINE b == rows[k].before
      <4>1. b \in 0 .. k /\ b # k
        BY <2>1, <2>4
      <4> HIDE DEF b
      <4>2. f[b] = g[b]
        BY <4>1
      <4>3. f[k] = next
        BY <2>1
      <4> QED
        BY <4>2, <4>3, <3>1, <1>5 DEF b
    <3>2. CASE r # k
      <4>1. r \in 0 .. k - 1 /\ f[r] = g[r]
        BY <2>1, <3>2
      <4>2. g[r] = IF r = 0 THEN <<>> ELSE Append(g[rows[r].before], Entry(rows[r]))
        BY <2>3, <4>1 DEF Along
      <4>3. ASSUME r # 0
            PROVE  rows[r].before \in 0 .. k - 1 /\ f[rows[r].before] = g[rows[r].before]
        <5>1. r \in Revisions /\ r < k
          BY <2>1, <4>1, <4>3, <1>2 DEF Revisions
        <5>2. rows[r].before \in 0 .. r - 1
          BY <5>1 DEF Backward
        <5> HIDE DEF next
        <5>3. rows[r].before \in 0 .. k - 1
          BY <2>1, <5>1, <5>2
        <5> QED
          BY <2>1, <5>3
      <4> QED
        BY <4>1, <4>2, <4>3
    <3> QED
      BY <3>1, <3>2
  <2>6. Along(rows, k, f)
    BY <2>5 DEF Along
  <2> QED
    BY <2>6, <1>3
<1> QED
  BY <1>4, <1>5

LEMMA LinksAre ==
  ASSUME NEW rows, Backward(rows), NEW r \in 0 .. MaxRevisions
  PROVE  Links(rows)[r] =
           IF r = 0 THEN <<>>
           ELSE Append(Links(rows)[rows[r].before], Entry(rows[r]))
<1>1. MaxRevisions \in 0 .. MaxRevisions
  BY RevisionAssumption
<1>2. \E f : Along(rows, MaxRevisions, f)
  BY <1>1, ChainExists
<1>3. Links(rows) = CHOOSE f : Along(rows, MaxRevisions, f)
  BY DEF Links, Along
<1>4. Along(rows, MaxRevisions, Links(rows))
  BY <1>2, <1>3
<1> DEFINE L == Links(rows)
<1>5. L = [q \in 0 .. MaxRevisions |->
             IF q = 0 THEN <<>> ELSE Append(L[rows[q].before], Entry(rows[q]))]
  BY <1>4 DEF Along
<1> HIDE DEF L
<1>6. L[r] = IF r = 0 THEN <<>> ELSE Append(L[rows[r].before], Entry(rows[r]))
  BY <1>5
<1> QED
  BY <1>6 DEF L

\* A link is a sequence.
LEMMA LinksAreSequences ==
  ASSUME NEW rows, Backward(rows), NEW r \in 0 .. MaxRevisions
  PROVE  Links(rows)[r] \in Seq({Entry(rows[q]) : q \in Revisions})
<1> DEFINE E == {Entry(rows[q]) : q \in Revisions}
           Bad == {k \in 0 .. MaxRevisions : Links(rows)[k] \notin Seq(E)}
<1>1. SUFFICES ASSUME Bad # {} PROVE FALSE
  OBVIOUS
<1>2. MaxRevisions \in Nat
  BY RevisionAssumption
<1>3. PICK k \in Bad : \A m \in Bad : k <= m
  <2>1. Bad \in SUBSET (0 .. MaxRevisions)
    OBVIOUS
  <2> HIDE DEF Bad
  <2> QED
    BY <1>1, <1>2, <2>1, Least
<1>4. k \in 0 .. MaxRevisions /\ k \in Nat
  BY <1>2, <1>3
<1>5. Links(rows)[k] = IF k = 0 THEN <<>>
                       ELSE Append(Links(rows)[rows[k].before], Entry(rows[k]))
  BY <1>4, LinksAre
<1>6. k # 0
  <2>1. <<>> \in Seq(E)
    OBVIOUS
  <2>2. Links(rows)[k] \notin Seq(E)
    BY <1>3
  <2> HIDE DEF E
  <2> QED
    BY <2>1, <2>2, <1>5
<1>7. k \in Revisions /\ rows[k].before \in 0 .. MaxRevisions /\ rows[k].before < k
  BY <1>2, <1>4, <1>6 DEF Backward, Revisions
<1>8. rows[k].before \notin Bad
  BY <1>3, <1>4, <1>7
<1>9. Links(rows)[rows[k].before] \in Seq(E) /\ Entry(rows[k]) \in E
  BY <1>7, <1>8
<1>10. Links(rows)[k] \notin Seq(E)
  BY <1>3
<1> HIDE DEF E, Bad
<1>11. Append(Links(rows)[rows[k].before], Entry(rows[k])) \in Seq(E)
  BY <1>9
<1> QED
  BY <1>5, <1>6, <1>10, <1>11

\* Rows that say the same as far as they lead back give the same link.
LEMMA LinksStand ==
  ASSUME NEW rows, NEW later, Backward(rows), Backward(later),
         NEW S \in SUBSET Revisions,
         \A q \in S : /\ later[q].before = rows[q].before
                      /\ Entry(later[q]) = Entry(rows[q])
                      /\ rows[q].before = 0 \/ rows[q].before \in S,
         NEW r \in S
  PROVE  Links(later)[r] = Links(rows)[r]
<1> DEFINE Bad == {k \in S : Links(later)[k] # Links(rows)[k]}
<1>1. SUFFICES ASSUME Bad # {} PROVE FALSE
  OBVIOUS
<1>2. MaxRevisions \in Nat
  BY RevisionAssumption
<1>3. PICK k \in Bad : \A m \in Bad : k <= m
  <2>1. S \subseteq 0 .. MaxRevisions
    BY Bounds
  <2>2. Bad \in SUBSET (0 .. MaxRevisions)
    BY <2>1
  <2> HIDE DEF Bad
  <2> QED
    BY <1>1, <1>2, <2>2, Least
<1>4. k \in S /\ k \in Revisions /\ k \in 0 .. MaxRevisions /\ k # 0 /\ k \in Nat
  <2>1. k \in S
    BY <1>3
  <2>2. k \in Revisions
    BY <2>1
  <2> QED
    BY <1>2, <2>1, <2>2 DEF Revisions
<1> DEFINE b == rows[k].before
<1>5. /\ Links(rows)[k] = Append(Links(rows)[b], Entry(rows[k]))
      /\ Links(later)[k] = Append(Links(later)[later[k].before], Entry(later[k]))
  BY <1>4, LinksAre
<1>6. b \in Nat /\ b < k /\ (b = 0 \/ b \in S) /\ later[k].before = b
      /\ Entry(later[k]) = Entry(rows[k])
  BY <1>4 DEF Backward
<1>7. Links(later)[b] # Links(rows)[b]
  BY <1>3, <1>5, <1>6
<1>8. b # 0
  <2>1. 0 \in 0 .. MaxRevisions
    BY Bounds
  <2>2. Links(rows)[0] = <<>> /\ Links(later)[0] = <<>>
    BY <2>1, LinksAre
  <2> HIDE DEF b
  <2> QED
    BY <1>7, <2>2
<1>9. b \in Bad
  BY <1>6, <1>7, <1>8
<1> HIDE DEF Bad, b
<1> QED
  BY <1>3, <1>4, <1>6, <1>9

-----------------------------------------------------------------------------
(* The order of publications.  A Draft is made from a published revision   *)
(* before it, a published revision leads back to a published one, and what *)
(* an activation decided upon its first read of the Active revision is     *)
(* still lawful if the base that the commit compares is the Active one.    *)

Ordered(r) ==
  /\ revision[r].status = "absent" =>
       \A q \in Revisions : r < q => revision[q].status = "absent"
  /\ revision[r].status # "absent" => revision[r].content \in Contents
  /\ revision[r].status \in {"draft", "validated"} =>
       /\ revision[r].base \in Revisions /\ revision[r].base < r
       /\ revision[revision[r].base].status \in Published
  /\ revision[r].before < r
  /\ revision[r].status \in Published /\ revision[r].before # 0 =>
       revision[revision[r].before].status \in Published

\* The authority that a publication of this content over the Active may name.
Authorities(content, actor) ==
  IF content \notin Enabled THEN {"none"}
  ELSE {actor} \cup IF content = revision[Active].content
                      THEN {revision[Active].intent} ELSE {}

Decided(p) ==
  desk[p].pc \in {"preparing", "committing"} =>
    LET row == revision[desk[p].rev] IN
      /\ row.status # "absent"
      /\ desk[p].version <= row.version
      /\ /\ desk[p].version = row.version
         /\ row.status \notin Published
         /\ row.base = Active
         => /\ desk[p].intent \in Authorities(row.content, p)
            /\ desk[p].pc = "committing" => desk[p].before = Active

OrderInv ==
  /\ RevisionInv
  /\ \A r \in Revisions : Ordered(r)
  /\ \A p \in Principals : Decided(p)

LEMMA OrderTypes ==
  ASSUME OrderInv
  PROVE  /\ revision \in [Revisions -> Row] /\ desk \in [Principals -> Desks]
         /\ Active \in Revisions /\ revision[Active].status = "active"
         /\ \A q \in Revisions : revision[q].status = "active" => q = Active
         /\ \A q \in Revisions : /\ q \in Nat /\ revision[q].version \in Nat
                                 /\ revision[q].base \in Nat
                                 /\ revision[q].before \in Nat
         /\ \A p \in Principals : desk[p].rev \in Revisions /\ desk[p].version \in Nat
<1>1. /\ revision \in [Revisions -> Row] /\ desk \in [Principals -> Desks]
      /\ Active \in Revisions /\ revision[Active].status = "active"
      /\ \A q \in Revisions : revision[q].status = "active" => q = Active
  BY ActiveIsOne DEF OrderInv, RevisionInv, RevisionTypeOK
<1>2. 0 .. MaxRevisions \subseteq Nat /\ 0 .. MaxVersion \subseteq Nat
  BY RevisionAssumption
<1>3. ASSUME NEW q \in Revisions
      PROVE  /\ q \in Nat /\ revision[q].version \in Nat
             /\ revision[q].base \in Nat /\ revision[q].before \in Nat
  <2>1. revision[q] \in Row
    BY <1>1
  <2> QED
    BY <2>1, <1>2, Bounds DEF Row
<1>4. ASSUME NEW p \in Principals
      PROVE  desk[p].rev \in Revisions /\ desk[p].version \in Nat
  <2>1. desk[p] \in Desks
    BY <1>1
  <2> QED
    BY <2>1, <1>2 DEF Desks
<1> QED
  BY <1>1, <1>3, <1>4

\* The Active revision is told by the statuses.
LEMMA ActiveStands ==
  ASSUME OrderInv,
         \A q \in Revisions : revision'[q].status = "active" <=> revision[q].status = "active"
  PROVE  Active' = Active
<1>1. /\ Active \in Revisions /\ revision[Active].status = "active"
      /\ \A q \in Revisions : revision[q].status = "active" => q = Active
  BY OrderTypes
<1> DEFINE a == Active
<1>2. /\ a \in Revisions /\ revision'[a].status = "active"
      /\ \A q \in Revisions : revision'[q].status = "active" => q = a
  BY <1>1
<1> HIDE DEF a
<1>3. Active' = a
  BY <1>2 DEF Active
<1> QED
  BY <1>3 DEF a

LEMMA OrderInit == RevisionInit => OrderInv
<1> SUFFICES ASSUME RevisionInit PROVE OrderInv
  OBVIOUS
<1> PICK c \in Contents, p \in Principals :
      revision = [r \in Revisions |->
         IF r = 1 THEN [Absent EXCEPT !.status = "active", !.version = 1,
                          !.content = c, !.actor = p,
                          !.intent = IF c \in Enabled THEN p ELSE "none"]
                  ELSE Absent]
  BY DEF RevisionInit
<1>1. RevisionInv
  BY InitEstablishes
<1>2. /\ revision[1].status = "active" /\ revision[1].content = c
      /\ revision[1].before = 0
      /\ \A r \in Revisions : r # 1 => revision[r] = Absent
  BY Bounds DEF Absent
<1>3. ASSUME NEW r \in Revisions PROVE Ordered(r)
  <2>1. CASE r = 1
    BY <1>2, <2>1 DEF Ordered
  <2>2. CASE r # 1
    <3>1. /\ revision[r].status = "absent" /\ revision[r].before = 0
          /\ 0 < r /\ r > 1
      BY <1>2, <2>2 DEF Absent, Revisions
    <3>2. \A q \in Revisions : r < q => revision[q].status = "absent"
      BY <1>2, <3>1 DEF Absent, Revisions
    <3> QED
      BY <3>1, <3>2 DEF Ordered, Published
  <2> QED
    BY <2>1, <2>2
<1>4. \A q \in Principals : Decided(q)
  BY DEF RevisionInit, AtRest, Decided
<1> QED
  BY <1>1, <1>3, <1>4 DEF OrderInv

-----------------------------------------------------------------------------
(* What a step does to the rows: nothing, ...                              *)

LEMMA DeskStands ==
  ASSUME OrderInv, UNCHANGED revision, NEW p \in Principals,
         desk'[p] = desk[p]
  PROVE  Decided(p)'
<1>1. Active' = Active
  BY ActiveStands
<1>2. Decided(p)
  BY DEF OrderInv
<1> QED
  BY <1>1, <1>2 DEF Decided, Authorities

LEMMA OrderStands ==
  ASSUME OrderInv, UNCHANGED revision, RevisionInv',
         \A p \in Principals : desk'[p] = desk[p] \/ Decided(p)'
  PROVE  OrderInv'
<1>1. \A r \in Revisions : Ordered(r)'
  BY DEF OrderInv, Ordered
<1>2. \A p \in Principals : Decided(p)'
  BY DeskStands
<1> QED
  BY <1>1, <1>2 DEF OrderInv

(* ... a Draft is made or its row written anew, ...                        *)

Drafts(r) ==
  /\ revision[r].status = "absent"
  /\ revision'[r].status = "draft" /\ revision'[r].base = Active
  /\ revision'[r].content = revision[Active].content /\ revision'[r].before = 0
  /\ \A q \in Revisions : q < r => revision[q].status # "absent"
  /\ \A q \in Revisions : q # r => revision'[q] = revision[q]

Rewrites(r) ==
  /\ revision[r].status \in {"draft", "validated"}
  /\ revision'[r].status \in {"draft", "validated"}
  /\ revision'[r].base = revision[r].base /\ revision'[r].before = revision[r].before
  /\ revision'[r].content \in Contents
  /\ \/ revision'[r].version > revision[r].version
     \/ revision'[r].version = revision[r].version
        /\ revision'[r].content = revision[r].content
  /\ \A q \in Revisions : q # r => revision'[q] = revision[q]

LEMMA DraftOrdered ==
  ASSUME OrderInv, RevisionInv', NEW r \in Revisions, Drafts(r),
         UNCHANGED desk
  PROVE  OrderInv'
<1>1. /\ Active \in Revisions /\ revision[Active].status = "active"
      /\ \A q \in Revisions : q \in Nat
  BY OrderTypes
<1>2. Active' = Active
  BY ActiveStands DEF Drafts
<1>3. Active # r /\ Active < r
  <2>1. Ordered(r)
    BY DEF OrderInv
  <2>2. Active # r /\ ~(r < Active)
    BY <1>1, <2>1 DEF Drafts, Ordered
  <2> DEFINE a == Active
  <2>3. a \in Nat /\ r \in Nat /\ a # r /\ ~(r < a)
    BY <1>1, <2>2
  <2> HIDE DEF a
  <2>4. a # r /\ a < r
    BY <2>3
  <2> QED
    BY <2>4 DEF a
<1>4. ASSUME NEW q \in Revisions PROVE Ordered(q)'
  <2>1. Ordered(q) /\ Ordered(r) /\ Ordered(Active)
    BY <1>1 DEF OrderInv
  <2>2. CASE q = r
    <3>1. revision[Active].content \in Contents
      BY <1>1, <2>1 DEF Ordered
    <3>2. revision'[Active].status \in Published
      BY <1>1, <1>3 DEF Drafts, Published
    <3> QED
      BY <1>1, <1>3, <2>2, <3>1, <3>2 DEF Drafts, Ordered, Published, Revisions
  <2>3. CASE q # r
    <3>1. revision'[q] = revision[q]
      BY <2>3 DEF Drafts
    <3>2. revision[q].status = "absent" =>
            \A x \in Revisions : q < x => revision'[x].status = "absent"
      <4> SUFFICES ASSUME revision[q].status = "absent", NEW x \in Revisions, q < x
                   PROVE  revision'[x].status = "absent"
        OBVIOUS
      <4>1. q > r
        BY <1>1, <2>3 DEF Drafts
      <4>2. x # r
        BY <1>1, <4>1
      <4> QED
        BY <2>1, <4>2 DEF Drafts, Ordered
    <3>3. \A x \in Revisions : revision[x].status \in Published =>
             revision'[x].status \in Published
      BY DEF Drafts, Published
    <3>4. revision[q].before # 0 => revision[q].before \in Revisions \/ revision[q].before \notin Revisions
      OBVIOUS
    <3>5. revision[q].before \in 0 .. MaxRevisions
      BY OrderTypes DEF Row
    <3>6. revision[q].before # 0 => revision[q].before \in Revisions
      BY <3>5, RevisionAssumption DEF Revisions
    <3> QED
      BY <2>1, <3>1, <3>2, <3>3, <3>6 DEF Ordered
  <2> QED
    BY <2>2, <2>3
<1>5. ASSUME NEW p \in Principals PROVE Decided(p)'
  <2>1. Decided(p) /\ desk[p].rev \in Revisions
    BY OrderTypes DEF OrderInv
  <2>2. CASE desk[p].rev = r
    BY <2>1, <2>2 DEF Decided, Drafts
  <2>3. CASE desk[p].rev # r
    <3>1. revision'[desk[p].rev] = revision[desk[p].rev]
          /\ revision'[Active] = revision[Active]
      BY <1>1, <1>3, <2>1, <2>3 DEF Drafts
    <3> QED
      BY <1>2, <2>1, <3>1 DEF Decided, Authorities
  <2> QED
    BY <2>2, <2>3
<1> QED
  BY <1>4, <1>5 DEF OrderInv

LEMMA RewriteOrdered ==
  ASSUME OrderInv, RevisionInv', NEW r \in Revisions, Rewrites(r),
         \A p \in Principals : desk'[p] = desk[p] \/ desk'[p].pc = "idle"
  PROVE  OrderInv'
<1>1. /\ Active \in Revisions /\ revision[Active].status = "active"
      /\ \A q \in Revisions : q \in Nat
  BY OrderTypes
<1>2. Active' = Active /\ Active # r
  BY <1>1, ActiveStands DEF Rewrites
<1>3. \A x \in Revisions : /\ revision'[x].status \in Published <=> revision[x].status \in Published
                           /\ revision'[x].status = "absent" <=> revision[x].status = "absent"
  BY DEF Rewrites, Published
<1>4. ASSUME NEW q \in Revisions PROVE Ordered(q)'
  <2>1. Ordered(q)
    BY DEF OrderInv
  <2>2. revision[q].before # 0 => revision[q].before \in Revisions
    <3>1. revision[q].before \in 0 .. MaxRevisions
      BY OrderTypes DEF Row
    <3> QED
      BY <3>1, RevisionAssumption DEF Revisions
  <2>3. /\ revision'[q].base = revision[q].base
        /\ revision'[q].before = revision[q].before
        /\ revision'[q].status \in {"draft", "validated"} <=>
             revision[q].status \in {"draft", "validated"}
        /\ revision'[q].content = revision[q].content \/ revision'[q].content \in Contents
    BY DEF Rewrites
  <2> QED
    BY <1>3, <2>1, <2>2, <2>3 DEF Ordered
<1>5. ASSUME NEW p \in Principals PROVE Decided(p)'
  <2>1. Decided(p) /\ desk[p].rev \in Revisions
    BY OrderTypes DEF OrderInv
  <2>2. CASE desk'[p].pc = "idle"
    BY <2>2 DEF Decided
  <2>3. CASE desk'[p] = desk[p] /\ desk[p].rev = r
    <3>1. /\ revision'[Active] = revision[Active]
          /\ desk[p].version \in Nat /\ revision[r].version \in Nat
          /\ revision'[r].version \in Nat
      <4>1. revision' \in [Revisions -> Row]
        BY DEF RevisionInv, RevisionTypeOK
      <4>2. revision'[r].version \in Nat
        BY <4>1, RevisionAssumption DEF Row
      <4> QED
        BY <1>1, <1>2, <4>2, OrderTypes DEF Rewrites
    <3>2. CASE revision'[r].version > revision[r].version
      BY <2>1, <2>3, <3>1, <3>2 DEF Decided, Rewrites
    <3>3. CASE revision'[r].version = revision[r].version
               /\ revision'[r].content = revision[r].content
      BY <1>2, <2>1, <2>3, <3>1, <3>3 DEF Decided, Authorities, Rewrites, Published
    <3> QED
      BY <3>2, <3>3 DEF Rewrites
  <2>4. CASE desk'[p] = desk[p] /\ desk[p].rev # r
    <3>1. /\ revision'[desk[p].rev] = revision[desk[p].rev]
          /\ revision'[Active] = revision[Active]
      BY <1>1, <1>2, <2>1, <2>4 DEF Rewrites
    <3> QED
      BY <1>2, <2>1, <2>4, <3>1 DEF Decided, Authorities
  <2> QED
    BY <2>2, <2>3, <2>4
<1> QED
  BY <1>4, <1>5 DEF OrderInv

(* ... or a validated revision takes the place of the Active one.          *)

Publishes(p, b) ==
  /\ Replaces(Active, b)
  /\ revision'[b].before = Active /\ revision'[b].actor = p
  /\ revision'[b].intent \in Authorities(revision[b].content, p)
  /\ \A q \in Revisions : q # b =>
       /\ revision'[q].before = revision[q].before
       /\ Entry(revision'[q]) = Entry(revision[q])

LEMMA ActivationPublishes ==
  ASSUME OrderInv, NEW p \in Principals, CommitActivation(p),
         Activatable(desk[p].rev, desk[p].version)
  PROVE  Publishes(p, desk[p].rev)
<1> DEFINE b == desk[p].rev
           old == [revision[Active] EXCEPT !.status = "superseded"]
           new == [revision[b] EXCEPT !.status = "active",
                     !.before = desk[p].before, !.actor = p,
                     !.intent = desk[p].intent]
<1>1. /\ revision \in [Revisions -> Row] /\ b \in Revisions
      /\ Active \in Revisions /\ revision[Active].status = "active"
  BY OrderTypes
<1>2. Replaces(Active, b)
  BY ActivationReplaces DEF OrderInv
<1>3. /\ revision[b].status = "validated" /\ revision[b].version = desk[p].version
      /\ revision[b].base = Active /\ b # Active
      /\ desk[p].pc = "committing"
  BY <1>1 DEF Activatable, CommitActivation
<1>4. revision' = [revision EXCEPT ![Active] = old, ![b] = new]
  BY <1>1, <1>3 DEF CommitActivation
<1>5. revision[Active] \in Row /\ revision[b] \in Row
  BY <1>1
<1>6. /\ old.before = revision[Active].before
      /\ Entry(old) = Entry(revision[Active])
  BY <1>5 DEF Row, Entry
<1>7. new.before = desk[p].before /\ new.actor = p /\ new.intent = desk[p].intent
  BY <1>5 DEF Row
<1>8. /\ desk[p].intent \in Authorities(revision[b].content, p)
      /\ desk[p].before = Active
  <2>1. Decided(p)
    BY DEF OrderInv
  <2> QED
    BY <2>1, <1>3 DEF Decided, Published
<1> HIDE DEF old, new
<1>9. /\ revision'[Active] = old /\ revision'[b] = new
      /\ \A q \in Revisions : q \notin {Active, b} => revision'[q] = revision[q]
  BY <1>1, <1>3, <1>4
<1> QED
  BY <1>2, <1>6, <1>7, <1>8, <1>9 DEF Publishes

LEMMA PublishOrdered ==
  ASSUME OrderInv, RevisionInv', NEW p \in Principals, NEW b \in Revisions,
         Publishes(p, b),
         \A q \in Principals : desk'[q] = desk[q] \/ desk'[q].pc = "idle"
  PROVE  OrderInv'
<1>1. /\ Active \in Revisions /\ revision[Active].status = "active"
      /\ \A q \in Revisions : q \in Nat
  BY OrderTypes
<1>2. Replaces(Active, b)
  BY DEF Publishes
<1>3. /\ Active' \in Revisions /\ Active' = b
  BY <1>2 DEF RevisionInv, RevisionTypeOK, Active, Replaces
<1>4. \A x \in Revisions :
        /\ revision[x].status \in Published => revision'[x].status \in Published
        /\ revision'[x].status = "absent" <=> revision[x].status = "absent"
        /\ revision'[x].status \in {"draft", "validated"} =>
             revision[x].status \in {"draft", "validated"} /\ x # b
        /\ revision'[x].content = revision[x].content
        /\ revision'[x].version = revision[x].version
        /\ revision'[x].base = revision[x].base
  BY <1>2 DEF Replaces, Published
<1>5. ASSUME NEW q \in Revisions PROVE Ordered(q)'
  <2>1. Ordered(q) /\ Ordered(b)
    BY DEF OrderInv
  <2>2. revision[q].before # 0 => revision[q].before \in Revisions
    <3>1. revision[q].before \in 0 .. MaxRevisions
      BY OrderTypes DEF Row
    <3> QED
      BY <3>1, RevisionAssumption DEF Revisions
  <2>3. revision[q].status \in {"draft", "validated"} =>
          revision[q].base \in Revisions
    BY <2>1 DEF Ordered
  <2>4. CASE q = b
    <3>1. /\ revision[b].status = "validated" /\ revision[b].base = Active
          /\ revision'[b].before = Active
      BY <1>2 DEF Publishes, Replaces
    <3>2. Active < b
      BY <2>1, <3>1 DEF Ordered
    <3>3. revision'[Active].status \in Published /\ revision'[b].status = "active"
      BY <1>1, <1>2 DEF Replaces, Published
    <3> QED
      BY <1>4, <2>1, <2>4, <3>1, <3>2, <3>3 DEF Ordered
  <2>5. CASE q # b
    <3>1. revision'[q].before = revision[q].before
      BY <2>5 DEF Publishes
    <3>2. revision'[q].status \in Published => revision[q].status \in Published
      BY <1>1, <1>2, <2>5 DEF Replaces, Published
    <3> QED
      BY <1>4, <2>1, <2>2, <2>3, <3>1, <3>2 DEF Ordered
  <2> QED
    BY <2>4, <2>5
<1>6. ASSUME NEW q \in Principals PROVE Decided(q)'
  <2>1. Decided(q) /\ desk[q].rev \in Revisions
    BY OrderTypes DEF OrderInv
  <2>2. CASE desk'[q].pc = "idle"
    BY <2>2 DEF Decided
  <2>3. CASE desk'[q] = desk[q]
    <3>1. ~(revision'[desk[q].rev].status \notin Published
            /\ revision'[desk[q].rev].base = b
            /\ revision[desk[q].rev].status # "absent")
      <4> SUFFICES ASSUME revision'[desk[q].rev].status \notin Published,
                          revision'[desk[q].rev].base = b,
                          revision[desk[q].rev].status # "absent"
                   PROVE  FALSE
        OBVIOUS
      <4>1. /\ revision[desk[q].rev].status \in {"draft", "validated"}
            /\ revision[desk[q].rev].base = b
        <5>1. revision[desk[q].rev] \in Row
          BY <2>1, OrderTypes
        <5> QED
          BY <5>1, <1>4, <2>1 DEF Row, Statuses
      <4>2. Ordered(desk[q].rev)
        BY <2>1 DEF OrderInv
      <4>3. revision[b].status \in Published
        BY <4>1, <4>2 DEF Ordered
      <4> QED
        BY <4>3, <1>2 DEF Replaces, Published
    <3> QED
      BY <1>3, <1>4, <2>1, <2>3, <3>1 DEF Decided
  <2> QED
    BY <2>2, <2>3
<1> QED
  BY <1>5, <1>6 DEF OrderInv

-----------------------------------------------------------------------------
(* The reads of an activation.                                             *)

LEMMA DecideOrdered ==
  ASSUME OrderInv, RevisionInv', NEW p \in Principals, NEW r \in Revisions,
         DecideIntent(p, r)
  PROVE  OrderInv'
<1> DEFINE seat(principal) ==
      [AtRest EXCEPT !.pc = "preparing", !.rev = r,
         !.version = revision[r].version, !.content = revision[r].content,
         !.intent = principal]
<1>1. /\ desk \in [Principals -> Desks] /\ Active \in Revisions
      /\ revision[r].version \in Nat
  BY OrderTypes
<1>2. UNCHANGED revision /\ revision[r].status = "validated"
  BY DEF DecideIntent
<1>3. PICK i \in Authorities(revision[r].content, p) :
        desk' = [desk EXCEPT ![p] = seat(i)]
  BY DEF DecideIntent, Authorities, Retains
<1>4. /\ seat(i).pc = "preparing" /\ seat(i).rev = r /\ seat(i).intent = i
      /\ seat(i).version = revision[r].version
  BY DEF AtRest
<1>5. desk'[p] = seat(i) /\ \A q \in Principals : q # p => desk'[q] = desk[q]
  BY <1>1, <1>3
<1> HIDE DEF seat
<1>6. Active' = Active
  BY <1>2, ActiveStands
<1>7. Decided(p)'
  BY <1>1, <1>2, <1>4, <1>5, <1>6 DEF Decided, Authorities
<1> QED
  BY <1>2, <1>5, <1>7, OrderStands

LEMMA AttestOrdered ==
  ASSUME OrderInv, RevisionInv', NEW p \in Principals, AttestPredecessor(p)
  PROVE  OrderInv'
<1> DEFINE seat == [desk[p] EXCEPT !.pc = "committing", !.before = Active]
<1>1. desk \in [Principals -> Desks] /\ desk[p] \in Desks
  BY OrderTypes
<1>2. desk' = [desk EXCEPT ![p] = seat] /\ UNCHANGED revision
      /\ desk[p].pc = "preparing"
  BY <1>1 DEF AttestPredecessor
<1>3. /\ seat.pc = "committing" /\ seat.before = Active
      /\ seat.rev = desk[p].rev /\ seat.version = desk[p].version
      /\ seat.intent = desk[p].intent
  BY <1>1 DEF Desks
<1>4. desk'[p] = seat /\ \A q \in Principals : q # p => desk'[q] = desk[q]
  BY <1>1, <1>2
<1> HIDE DEF seat
<1>5. Active' = Active
  BY <1>2, ActiveStands
<1>6. Decided(p)
  BY DEF OrderInv
<1>7. Decided(p)'
  BY <1>2, <1>3, <1>4, <1>5, <1>6 DEF Decided, Authorities
<1> QED
  BY <1>2, <1>4, <1>7, OrderStands

-----------------------------------------------------------------------------
(* Every step, by what it does to the rows.                                *)

RowsMove ==
  \/ UNCHANGED revision
  \/ \E r \in Revisions : Drafts(r) \/ Rewrites(r)
  \/ \E p \in Principals, b \in Revisions : Publishes(p, b)

LEMMA OrderStep ==
  ASSUME OrderInv, [RevisionNext]_revisionVars
  PROVE  OrderInv' /\ RowsMove
<1>1. RevisionInv'
  BY StepKeeps DEF OrderInv
<1>2. /\ revision \in [Revisions -> Row] /\ desk \in [Principals -> Desks]
      /\ \A q \in Revisions : revision[q].version \in Nat
  BY OrderTypes
<1>3. AtRest.pc = "idle"
  BY DEF AtRest
<1>4. CASE UNCHANGED revisionVars
  BY <1>1, <1>4, OrderStands DEF revisionVars, RowsMove
<1>5. ASSUME NEW r \in Revisions, CreateSuccessor(r) PROVE OrderInv' /\ RowsMove
  <2>1. Drafts(r)
    BY <1>2, <1>5 DEF CreateSuccessor, Drafts, Absent
  <2> QED
    BY <1>1, <1>5, <2>1, DraftOrdered DEF CreateSuccessor, RowsMove
<1>6. ASSUME NEW r \in Revisions, NEW c \in Contents, EditDraft(r, c)
      PROVE  OrderInv' /\ RowsMove
  <2>1. revision[r] \in Row
    BY <1>2
  <2>2. Rewrites(r)
    BY <1>2, <1>6, <2>1 DEF EditDraft, Rewrites, Row
  <2> QED
    BY <1>1, <1>6, <2>2, RewriteOrdered DEF EditDraft, RowsMove
<1>7. ASSUME NEW p \in Principals, NEW r \in Revisions, BeginValidate(p, r)
      PROVE  OrderInv' /\ RowsMove
  <2> PICK valid \in BOOLEAN :
        desk' = [desk EXCEPT ![p] =
          [AtRest EXCEPT !.pc = "validating", !.rev = r, !.valid = valid,
             !.version = revision[r].version, !.content = revision[r].content]]
    BY <1>7 DEF BeginValidate
  <2>1. /\ desk'[p].pc = "validating"
        /\ \A q \in Principals : q # p => desk'[q] = desk[q]
    BY <1>2 DEF AtRest
  <2>2. Decided(p)'
    BY <2>1 DEF Decided
  <2>3. \A q \in Principals : desk'[q] = desk[q] \/ Decided(q)'
    BY <1>2, <2>1, <2>2
  <2>4. UNCHANGED revision
    BY <1>7 DEF BeginValidate
  <2> QED
    BY <1>1, <2>3, <2>4, OrderStands DEF RowsMove
<1>8. ASSUME NEW p \in Principals, RecordValidation(p)
      PROVE  OrderInv' /\ RowsMove
  <2> DEFINE d == desk[p]
  <2>1. /\ desk[p].pc = "validating"
        /\ \A q \in Principals : desk'[q] = desk[q] \/ desk'[q].pc = "idle"
    BY <1>2, <1>3, <1>8 DEF RecordValidation
  <2>2. \A q \in Principals : desk'[q] = desk[q] \/ Decided(q)'
    BY <2>1 DEF Decided
  <2>3. CASE Unchanged(d.rev, d.version)
    <3>1. d.rev \in Revisions /\ revision[d.rev] \in Row
      BY <1>2, OrderTypes
    <3>2. Current(p) /\ Ordered(d.rev)
      BY <3>1 DEF OrderInv, RevisionInv
    <3>3. /\ revision[d.rev].status \in {"draft", "validated"}
          /\ d.content = revision[d.rev].content /\ d.content \in Contents
      BY <2>1, <2>3, <3>1, <3>2 DEF Current, Ordered, Unchanged, Row, Statuses
    <3> DEFINE row == [revision[d.rev] EXCEPT !.content = d.content,
                         !.status = IF d.valid THEN "validated" ELSE "draft"]
    <3>4. revision' = [revision EXCEPT ![d.rev] = row]
      BY <1>2, <1>8, <2>3, <3>1 DEF RecordValidation
    <3>5. /\ row.status \in {"draft", "validated"} /\ row.content = d.content
          /\ row.version = revision[d.rev].version
          /\ row.base = revision[d.rev].base /\ row.before = revision[d.rev].before
      BY <3>1 DEF Row
    <3> HIDE DEF row
    <3>6. revision'[d.rev] = row /\ \A q \in Revisions : q # d.rev => revision'[q] = revision[q]
      BY <1>2, <3>1, <3>4
    <3>7. Rewrites(d.rev)
      BY <3>3, <3>5, <3>6 DEF Rewrites
    <3> QED
      BY <1>1, <2>1, <3>1, <3>7, RewriteOrdered DEF RowsMove
  <2>4. CASE ~Unchanged(d.rev, d.version)
    <3>1. UNCHANGED revision
      BY <1>8, <2>4 DEF RecordValidation
    <3> QED
      BY <1>1, <2>2, <3>1, OrderStands DEF RowsMove
  <2> QED
    BY <2>3, <2>4
<1>9. ASSUME NEW p \in Principals, NEW r \in Revisions, DecideIntent(p, r)
      PROVE  OrderInv' /\ RowsMove
  BY <1>1, <1>9, DecideOrdered DEF DecideIntent, RowsMove
<1>10. ASSUME NEW p \in Principals, AttestPredecessor(p)
       PROVE  OrderInv' /\ RowsMove
  BY <1>1, <1>10, AttestOrdered DEF AttestPredecessor, RowsMove
<1>11. ASSUME NEW p \in Principals, CommitActivation(p)
       PROVE  OrderInv' /\ RowsMove
  <2>1. \A q \in Principals : desk'[q] = desk[q] \/ desk'[q].pc = "idle"
    BY <1>2, <1>3, <1>11 DEF CommitActivation
  <2>2. desk[p].rev \in Revisions
    BY OrderTypes
  <2>3. CASE Activatable(desk[p].rev, desk[p].version)
    <3>1. Publishes(p, desk[p].rev)
      BY <1>11, <2>3, ActivationPublishes
    <3> QED
      BY <1>1, <2>1, <2>2, <3>1, PublishOrdered DEF RowsMove
  <2>4. CASE ~Activatable(desk[p].rev, desk[p].version)
    <3>1. UNCHANGED revision
      BY <1>11, <2>4 DEF CommitActivation
    <3>2. \A q \in Principals : desk'[q] = desk[q] \/ Decided(q)'
      BY <2>1 DEF Decided
    <3> QED
      BY <1>1, <3>1, <3>2, OrderStands DEF RowsMove
  <2> QED
    BY <2>3, <2>4
<1>12. ASSUME NEW p \in Principals, ChangePermission(p)
       PROVE  OrderInv' /\ RowsMove
  BY <1>1, <1>12, OrderStands DEF ChangePermission, RowsMove
<1> QED
  BY <1>4, <1>5, <1>6, <1>7, <1>8, <1>9, <1>10, <1>11, <1>12 DEF RevisionNext

-----------------------------------------------------------------------------
(* The chain under a step.                                                 *)

LEMMA RowsLeadBack == OrderInv => Backward(revision)
BY OrderTypes DEF OrderInv, Ordered, Backward

\* The published revisions keep what the chain reads of them.
LEMMA PublishedLinksStand ==
  ASSUME OrderInv, OrderInv',
         \A q \in Revisions : revision[q].status \in Published =>
            /\ revision'[q].before = revision[q].before
            /\ Entry(revision'[q]) = Entry(revision[q])
  PROVE  Links(revision')[Active] = Links(revision)[Active]
<1> DEFINE S == {q \in Revisions : revision[q].status \in Published}
<1>1. Backward(revision)
  BY RowsLeadBack
<1>2. Backward(revision')
  <2>1. \A r \in Revisions : revision'[r].before < r
    BY DEF OrderInv, Ordered
  <2>2. revision' \in [Revisions -> Row]
    BY DEF OrderInv, RevisionInv, RevisionTypeOK
  <2>3. \A r \in Revisions : revision'[r].before \in Nat
    BY <2>2, RevisionAssumption DEF Row
  <2> QED
    BY <2>1, <2>3 DEF Backward
<1>3. Active \in S
  BY OrderTypes DEF Published
<1>4. ASSUME NEW q \in S
      PROVE  /\ revision'[q].before = revision[q].before
             /\ Entry(revision'[q]) = Entry(revision[q])
             /\ revision[q].before = 0 \/ revision[q].before \in S
  <2>1. Ordered(q)
    BY DEF OrderInv
  <2>2. revision[q].before # 0 => revision[q].before \in Revisions
    <3>1. revision[q].before \in 0 .. MaxRevisions
      BY OrderTypes DEF Row
    <3> QED
      BY <3>1, RevisionAssumption DEF Revisions
  <2> QED
    BY <2>1, <2>2 DEF Ordered
<1>5. S \in SUBSET Revisions
  OBVIOUS
<1> HIDE DEF S
<1> QED
  BY <1>1, <1>2, <1>3, <1>4, <1>5, LinksStand

LEMMA ChainStands ==
  ASSUME OrderInv, OrderInv', UNCHANGED revision \/ \E r \in Revisions : Drafts(r) \/ Rewrites(r)
  PROVE  Chain' = Chain
<1>1. Active' = Active
  BY ActiveStands DEF Drafts, Rewrites
<1>2. \A q \in Revisions : revision[q].status \in Published =>
            /\ revision'[q].before = revision[q].before
            /\ Entry(revision'[q]) = Entry(revision[q])
  BY DEF Drafts, Rewrites, Published
<1>3. Links(revision')[Active] = Links(revision)[Active]
  BY <1>2, PublishedLinksStand
<1>4. Chain' = Links(revision')[Active']
  BY DEF Chain, Links, Entry
<1> QED
  BY <1>1, <1>3, <1>4, ChainIsLinks

\* The chain ends with the Active revision.
LEMMA LatestIsActive ==
  ASSUME OrderInv
  PROVE  Chain[Len(Chain)] = Entry(revision[Active])
<1>1. Backward(revision) /\ Active \in Revisions
  BY RowsLeadBack, OrderTypes
<1> DEFINE E == {Entry(revision[q]) : q \in Revisions}
           e == Entry(revision[Active])
           s == Links(revision)[revision[Active].before]
<1>2. Active \in 0 .. MaxRevisions /\ Active # 0
  BY <1>1, Bounds DEF Revisions
<1>3. revision[Active].before \in 0 .. MaxRevisions
  BY <1>1, OrderTypes DEF Row
<1>4. Chain = Append(s, e)
  BY <1>1, <1>2, LinksAre, ChainIsLinks
<1>5. s \in Seq(E)
  BY <1>1, <1>3, LinksAreSequences
<1>6. e \in E
  BY <1>1
<1> HIDE DEF s, e, E
<1> QED
  BY <1>4, <1>5, <1>6 DEF e

LEMMA PublicationExtends ==
  ASSUME OrderInv, OrderInv', NEW p \in Principals, NEW b \in Revisions,
         Publishes(p, b)
  PROVE  P!Publish
<1>1. /\ Active \in Revisions /\ revision[Active].status = "active"
      /\ revision \in [Revisions -> Row]
  BY OrderTypes
<1>2. /\ Replaces(Active, b) /\ revision[b].status = "validated"
      /\ revision'[b].content = revision[b].content
      /\ revision'[b].before = Active /\ revision'[b].actor = p
  BY DEF Publishes, Replaces
<1>3. Active' = b
  BY <1>2 DEF OrderInv, RevisionInv, RevisionTypeOK, Active, Replaces
<1>4. Backward(revision')
  <2>1. \A r \in Revisions : revision'[r].before < r
    BY DEF OrderInv, Ordered
  <2>2. revision' \in [Revisions -> Row]
    BY DEF OrderInv, RevisionInv, RevisionTypeOK
  <2>3. \A r \in Revisions : revision'[r].before \in Nat
    BY <2>2, RevisionAssumption DEF Row
  <2> QED
    BY <2>1, <2>3 DEF Backward
<1>5. Links(revision')[Active] = Links(revision)[Active]
  <2>1. \A q \in Revisions : revision[q].status \in Published =>
            /\ revision'[q].before = revision[q].before
            /\ Entry(revision'[q]) = Entry(revision[q])
    BY <1>2 DEF Publishes, Published
  <2> QED
    BY <2>1, PublishedLinksStand
<1>6. Chain' = Links(revision')[b]
  BY <1>3 DEF Chain, Links, Entry
<1>7. Links(revision')[b] = Append(Links(revision')[Active], Entry(revision'[b]))
  <2>1. b \in 0 .. MaxRevisions /\ b # 0
    BY Bounds DEF Revisions
  <2>2. Links(revision')[b] =
          Append(Links(revision')[revision'[b].before], Entry(revision'[b]))
    BY <1>4, <2>1, LinksAre
  <2> QED
    BY <1>2, <2>2
<1>8. Chain' = Append(Chain, Entry(revision'[b]))
  BY <1>5, <1>6, <1>7, ChainIsLinks
<1> DEFINE c == revision[b].content
           i == revision'[b].intent
<1>9. c \in Contents
  <2>1. Ordered(b)
    BY DEF OrderInv
  <2> QED
    BY <1>2, <2>1 DEF Ordered
<1>10. i \in P!Named(c, p)
  <2>1. i \in Authorities(c, p)
    BY DEF Publishes
  <2>2. P!Latest = Entry(revision[Active])
    BY LatestIsActive DEF P!Latest
  <2>3. /\ P!Latest.content = revision[Active].content
        /\ P!Latest.intent = revision[Active].intent
    BY <2>2 DEF Entry
  <2> QED
    BY <2>1, <2>3 DEF P!Named, Authorities, P!Enabled, Enabled
<1>11. Entry(revision'[b]) = [content |-> c, actor |-> p, intent |-> i]
  BY <1>2 DEF Entry
<1> HIDE DEF c, i
<1> QED
  BY <1>8, <1>9, <1>10, <1>11 DEF P!Publish

LEMMA FirstPublication == RevisionInit => P!PublicationInit
<1> SUFFICES ASSUME RevisionInit PROVE P!PublicationInit
  OBVIOUS
<1> PICK c \in Contents, p \in Principals :
      revision = [r \in Revisions |->
         IF r = 1 THEN [Absent EXCEPT !.status = "active", !.version = 1,
                          !.content = c, !.actor = p,
                          !.intent = IF c \in Enabled THEN p ELSE "none"]
                  ELSE Absent]
  BY DEF RevisionInit
<1>1. OrderInv
  BY OrderInit
<1>2. /\ revision[1].status = "active" /\ revision[1].content = c
      /\ revision[1].before = 0 /\ revision[1].actor = p
      /\ revision[1].intent = IF c \in Enabled THEN p ELSE "none"
  BY Bounds DEF Absent
<1>3. Active = 1
  BY <1>1, <1>2, Bounds, OrderTypes
<1> DEFINE e == [content |-> c, actor |-> p,
                 intent |-> IF c \in Enabled THEN p ELSE "none"]
<1>4. Entry(revision[1]) = e
  BY <1>2 DEF Entry
<1>5. Links(revision)[0] = <<>>
  BY <1>1, RowsLeadBack, Bounds, LinksAre
<1>6. Links(revision)[1] = Append(<<>>, e)
  <2>1. Backward(revision) /\ 1 \in 0 .. MaxRevisions
    BY <1>1, RowsLeadBack, Bounds
  <2>2. \A r \in 0 .. MaxRevisions : r # 0 =>
          Links(revision)[r] =
            Append(Links(revision)[revision[r].before], Entry(revision[r]))
    BY <2>1, LinksAre
  <2> HIDE DEF e
  <2> QED
    BY <2>1, <2>2, <1>2, <1>4, <1>5
<1>7. Chain = <<e>>
  BY <1>3, <1>6, ChainIsLinks
<1>8. e \in P!Foundation
  BY DEF P!Foundation, P!Evidence, P!Enabled, Enabled
<1> HIDE DEF e
<1> QED
  BY <1>7, <1>8 DEF P!PublicationInit

\* Whatever publishers read, decide and commit between each other, what the
\* audits of the activations tell is one publication after the other, each
\* under a lawful authority.
THEOREM PublishedInOrder == RevisionSpec => PublishesInOrder
<1>1. RevisionInit => OrderInv
  BY OrderInit
<1>2. OrderInv /\ [RevisionNext]_revisionVars => OrderInv'
  BY OrderStep
<1>3. OrderInv /\ OrderInv' /\ [RevisionNext]_revisionVars => [P!Publish]_Chain
  BY OrderStep, ChainStands, PublicationExtends DEF RowsMove
<1> QED
  BY <1>1, <1>2, <1>3, FirstPublication, PTL
     DEF RevisionSpec, PublishesInOrder, P!PublicationSpec

=============================================================================
