------------------------ MODULE ConfigurationRevisions ------------------------
(* Managed configuration revisions: successor Drafts of the Active          *)
(* revision, edited and validated under a version compare, and activated    *)
(* by reading the Active twice before one transaction replaces it.  Of a    *)
(* document the model keeps what it says of one Automation Task Definition; *)
(* an activation records under whose authority the definition then runs.    *)
(* The published chain implements Publications.                             *)
EXTENDS Naturals, Sequences

CONSTANTS Principals,     \* principals that publish
          Contents,       \* what a document can say of the definition
          MaxRevisions,   \* bound: revisions
          MaxVersion,     \* bound: versions of a Draft
          MaxPermissions  \* bound: changes of a permission

ASSUME RevisionAssumption ==
  /\ "none" \notin Principals
  /\ Contents \subseteq {"gone", "off", "on", "wide"} /\ Contents # {}
  /\ MaxRevisions \in Nat \ {0}
  /\ MaxVersion \in Nat \ {0}
  /\ MaxPermissions \in Nat

VARIABLES
  revision,   \* managed_configuration_revisions with their activation audit
  permitted,  \* principals that now hold the scheduled execution permission
  desk,       \* the validation or activation each principal is in
  permissions

revisionVars == <<revision, permitted, desk, permissions>>

Revisions == 1 .. MaxRevisions
Enabled   == {"on", "wide"}
Published == {"active", "superseded"}
Statuses  == {"absent", "draft", "validated"} \cup Published

\* "before", "actor" and "intent" are the evidence of the activation audit;
\* "edited" is history.
Row == [status : Statuses, version : 0 .. MaxVersion, base : 0 .. MaxRevisions,
        content : Contents \cup {"gone"}, edited : BOOLEAN,
        before : 0 .. MaxRevisions, actor : Principals \cup {"none"},
        intent : Principals \cup {"none"}]

Absent == [status |-> "absent", version |-> 0, base |-> 0, content |-> "gone",
           edited |-> FALSE, before |-> 0, actor |-> "none", intent |-> "none"]

AtRest == [pc |-> "idle", rev |-> 1, version |-> 0, content |-> "gone",
           valid |-> FALSE, intent |-> "none", before |-> 0]

Active == CHOOSE r \in Revisions : revision[r].status = "active"

RevisionInit ==
  /\ \E c \in Contents, p \in Principals :
       revision = [r \in Revisions |->
         IF r = 1 THEN [Absent EXCEPT !.status = "active", !.version = 1,
                          !.content = c, !.actor = p,
                          !.intent = IF c \in Enabled THEN p ELSE "none"]
                  ELSE Absent]
  /\ permitted = Principals
  /\ desk = [p \in Principals |-> AtRest]
  /\ permissions = 0

-----------------------------------------------------------------------------
(* Drafts.                                                                 *)

CreateSuccessor(r) ==
  /\ revision[r].status = "absent"
  /\ \A q \in Revisions : q < r => revision[q].status # "absent"
  /\ revision' = [revision EXCEPT ![r] =
       [Absent EXCEPT !.status = "draft", !.version = 1, !.base = Active,
                      !.content = revision[Active].content]]
  /\ UNCHANGED <<permitted, desk, permissions>>

\* edit_draft: a published revision is immutable, and every edit is a new
\* version that has to be validated again.
EditDraft(r, c) ==
  /\ revision[r].status \in {"draft", "validated"}
  /\ revision[r].version < MaxVersion
  /\ revision' = [revision EXCEPT ![r].status = "draft", ![r].content = c,
                    ![r].version = @ + 1, ![r].edited = TRUE]
  /\ UNCHANGED <<permitted, desk, permissions>>

\* validate reads the revision and loads its document ...
BeginValidate(p, r) ==
  /\ desk[p].pc = "idle"
  /\ revision[r].status \in {"draft", "validated"}
  /\ \E valid \in BOOLEAN :
       desk' = [desk EXCEPT ![p] =
         [AtRest EXCEPT !.pc = "validating", !.rev = r, !.valid = valid,
            !.version = revision[r].version, !.content = revision[r].content]]
  /\ UNCHANGED <<revision, permitted, permissions>>

Unchanged(r, version) ==
  revision[r].version = version /\ revision[r].status \notin Published

\* ... and writes it back whole if nobody has edited or published it.
RecordValidation(p) ==
  /\ desk[p].pc = "validating"
  /\ LET d == desk[p] IN
       revision' = IF Unchanged(d.rev, d.version)
         THEN [revision EXCEPT ![d.rev].content = d.content,
                 ![d.rev].status = IF d.valid THEN "validated" ELSE "draft"]
         ELSE revision
  /\ desk' = [desk EXCEPT ![p] = AtRest]
  /\ UNCHANGED <<permitted, permissions>>

-----------------------------------------------------------------------------
(* Activation.                                                             *)

RetainsById(content, previous) == content \in Enabled  \* mutant: scope ignored
                                  /\ revision[previous].content \in Enabled

\* An enabled definition whose effective scope the predecessor already had.
Retains(content, previous) ==
  content \in Enabled /\ revision[previous].content = content

\* activate reads the validated revision and the Active, and decides under
\* whose authority the definition will run; a new or changed scope, or an
\* explicit save, takes the publisher's own current permission.
DecideIntent(p, r) ==
  /\ desk[p].pc = "idle"
  /\ revision[r].status = "validated"
  /\ LET content == revision[r].content
         decided(principal) ==
           desk' = [desk EXCEPT ![p] = [AtRest EXCEPT !.pc = "preparing",
             !.rev = r, !.version = revision[r].version, !.content = content,
             !.intent = principal]]
     IN \/ content \notin Enabled /\ decided("none")
        \/ Retains(content, Active) /\ decided(revision[Active].intent)
        \/ content \in Enabled /\ p \in permitted /\ decided(p)
  /\ UNCHANGED <<revision, permitted, permissions>>

\* The runtime is prepared; then the Active is read again for the audit.
AttestPredecessor(p) ==
  /\ desk[p].pc = "preparing"
  /\ desk' = [desk EXCEPT ![p].pc = "committing", ![p].before = Active]
  /\ UNCHANGED <<revision, permitted, permissions>>

StillValidated(r, version) ==        \* mutant: the base is not compared
  revision[r].version = version /\ revision[r].status = "validated"

\* What activate_revision compares again inside its transaction.
Activatable(r, version) ==
  /\ revision[r].version = version
  /\ revision[r].status = "validated"
  /\ revision[r].base = Active

\* mutant: the replaced revision is not superseded
CommitBeside(p) ==
  /\ desk[p].pc = "committing"
  /\ LET d == desk[p] IN
       IF Activatable(d.rev, d.version)
         THEN revision' = [revision EXCEPT ![d.rev].status = "active",
                ![d.rev].before = d.before, ![d.rev].actor = p,
                ![d.rev].intent = d.intent]
         ELSE UNCHANGED revision
  /\ desk' = [desk EXCEPT ![p] = AtRest]
  /\ UNCHANGED <<permitted, permissions>>

CommitActivation(p) ==
  /\ desk[p].pc = "committing"
  /\ LET d == desk[p] IN
       IF Activatable(d.rev, d.version)
         THEN revision' = [revision EXCEPT ![Active].status = "superseded",
                ![d.rev].status = "active", ![d.rev].before = d.before,
                ![d.rev].actor = p, ![d.rev].intent = d.intent]
         ELSE UNCHANGED revision
  /\ desk' = [desk EXCEPT ![p] = AtRest]
  /\ UNCHANGED <<permitted, permissions>>

ChangePermission(p) ==
  /\ permissions < MaxPermissions
  /\ permissions' = permissions + 1
  /\ permitted' = IF p \in permitted THEN permitted \ {p}
                                     ELSE permitted \cup {p}
  /\ UNCHANGED <<revision, desk>>

RevisionNext ==
  \/ \E r \in Revisions :
       CreateSuccessor(r) \/ \E c \in Contents : EditDraft(r, c)
  \/ \E p \in Principals :
       \/ \E r \in Revisions : BeginValidate(p, r) \/ DecideIntent(p, r)
       \/ RecordValidation(p) \/ AttestPredecessor(p) \/ CommitActivation(p)
       \/ ChangePermission(p)

RevisionSpec == RevisionInit /\ [][RevisionNext]_revisionVars

-----------------------------------------------------------------------------

\* The rows have their shape, and whatever activations race there is exactly
\* one Active revision: activate_revision supersedes the one it replaces in
\* the same transaction.
RevisionTypeOK ==
  /\ revision \in [Revisions -> Row]
  /\ permitted \subseteq Principals
  /\ \E r \in Revisions :
       /\ revision[r].status = "active"
       /\ \A q \in Revisions : revision[q].status = "active" => q = r

\* What one editor published is not undone by another editor's older Draft:
\* a newly Active revision whose Draft never touched the definition says of
\* it exactly what the revision it replaces said.
NoLostPublication ==
  [][\A a, b \in Revisions :
       /\ revision[a].status = "active" /\ revision'[b].status = "active"
       /\ a # b /\ ~revision[b].edited
       => revision'[b].content = revision[a].content]_revisionVars

\* The chain that the activation audits lead back along is the sequence of
\* publications: no activation is lost from it, entered twice or out of
\* order, and each names a lawful authority although it was decided upon an
\* earlier read of the Active revision.
Chain ==
  LET upto[r \in 0 .. MaxRevisions] ==
        IF r = 0 THEN <<>>
        ELSE Append(upto[revision[r].before],
               [content |-> revision[r].content, actor |-> revision[r].actor,
                intent |-> revision[r].intent])
  IN  upto[Active]

P == INSTANCE Publications WITH published <- Chain

PublishesInOrder == P!PublicationSpec

=============================================================================
