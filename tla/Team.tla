-------------------------------- MODULE Team --------------------------------
(***************************************************************************)
(* The members of a workspace, their roles and the invitations.  A request *)
(* reads the caller's role in the guards, then the rows it is about, and   *)
(* writes afterwards without looking again.                                *)
(***************************************************************************)
EXTENDS Naturals, FiniteSets, Rbac

CONSTANTS Person,      \* users, each with one e-mail address
          Founder,     \* the one who registered or created the workspace
          Offered,     \* the roles that requests ask for
          TeamRequest, \* requests under way at the same time
          MaxInvites   \* bound on the invitation rows

ASSUME TeamAssumption ==
  /\ IsFiniteSet(Person) /\ Founder \in Person
  /\ Offered \subseteq {"VIEWER", "ANALYST", "EDITOR", "ADMIN", "OWNER"}
  /\ IsFiniteSet(TeamRequest) /\ MaxInvites \in Nat

VARIABLES
  role,      \* each person's WorkspaceMember row, or "none"
  invite,    \* the WorkspaceInvitation rows, in the order they were made
  invites,   \* how many there are
  teamwork   \* the request each caller has under way

teamVars == <<role, invite, invites, teamwork>>

\* Mutant of CanAssign: an owner may make somebody an owner.
CanAssignUpTo(actor, current, new, isSelf) ==
  /\ ~isSelf /\ "member:change_role" \in Permissions[actor]
  /\ Rank[current] < Rank[actor] /\ Rank[new] <= Rank[actor]

CanAssign(actor, current, new, isSelf) ==
  /\ ~isSelf /\ "member:change_role" \in Permissions[actor]
  /\ Rank[current] < Rank[actor] /\ Rank[new] < Rank[actor]
CanInvite(actor, new) == "member:invite" \in Permissions[actor] /\ Rank[actor] > Rank[new]
CanRemove(actor, current) == "member:remove" \in Permissions[actor] /\ Rank[actor] > Rank[current]

NoInvite == [email |-> "none", role |-> "none", status |-> "none", pending |-> FALSE, old |-> FALSE]
NoWork == [kind |-> "none", who |-> "none", about |-> "none", give |-> "none", row |-> 0, old |-> FALSE]
Row == 1..MaxInvites

TeamTypeOK ==
  /\ role \in [Person -> Roles \cup {"none"}] /\ invites \in 0..MaxInvites
  /\ \A i \in Row : /\ invite[i].status \in {"none", "PENDING", "ACCEPTED", "EXPIRED"}
                    /\ (invite[i].status = "none") = (i > invites)
                    /\ invite[i].role \in Roles \cup {"none"}
  /\ \A q \in TeamRequest : teamwork[q].row \in 0..invites

TeamInit ==
  /\ role = [p \in Person |-> IF p = Founder THEN "OWNER" ELSE "none"]
  /\ invite = [i \in Row |-> NoInvite] /\ invites = 0
  /\ teamwork = [q \in TeamRequest |-> NoWork]
-----------------------------------------------------------------------------
Begin(q, work) == teamwork[q] = NoWork /\ teamwork' = [teamwork EXCEPT ![q] = work]
Done(q) == teamwork' = [teamwork EXCEPT ![q] = NoWork]
Pending(p) == {i \in Row : invite[i].email = p /\ invite[i].status = "PENDING"}

(* inviteMember: the caller outranks the role, the address is not yet a    *)
(* member; then the pending row is looked up.                              *)
InviteRead(q, who, p, give) ==
  /\ role[who] # "none" /\ CanInvite(role[who], give) /\ role[p] = "none"
  /\ \E i \in IF Pending(p) = {} THEN {0} ELSE Pending(p) :
       Begin(q, [NoWork EXCEPT !.kind = "invite", !.about = p, !.give = give, !.row = i,
                               !.old = IF i = 0 THEN FALSE ELSE invite[i].old])
  /\ UNCHANGED <<role, invite, invites>>

(* createOrRefreshInvitation: a valid row gets a new role, token and date; *)
(* an expired one makes room; pendingEmail is unique.                      *)
InviteWrite(q) ==
  LET w == teamwork[q]
      kept == IF w.row # 0 /\ w.old
              THEN [invite EXCEPT ![w.row].status = "EXPIRED", ![w.row].pending = FALSE]
              ELSE invite
      taken == \E i \in Row : kept[i].email = w.about /\ kept[i].pending
  IN
  /\ w.kind = "invite" /\ Done(q) /\ UNCHANGED role
  /\ IF w.row # 0 /\ ~w.old
     THEN /\ invite' = [invite EXCEPT ![w.row].role = w.give, ![w.row].old = FALSE]
          /\ UNCHANGED invites
     ELSE IF taken THEN invite' = kept /\ UNCHANGED invites
     ELSE /\ invites < MaxInvites /\ invites' = invites + 1
          /\ invite' = [kept EXCEPT ![invites + 1] =
                          [email |-> w.about, role |-> w.give, status |-> "PENDING",
                           pending |-> TRUE, old |-> FALSE]]

InviteExpires(i) ==   \* seven days
  /\ invite[i].status = "PENDING" /\ ~invite[i].old
  /\ invite' = [invite EXCEPT ![i].old = TRUE] /\ UNCHANGED <<role, invites, teamwork>>

(* acceptInvitation runs in a transaction: when the invitation has expired *)
(* the error rolls the status EXPIRED back, so nothing changes.            *)
AcceptRead(q, i) ==
  /\ invite[i].status = "PENDING" /\ ~invite[i].old
  /\ Begin(q, [NoWork EXCEPT !.kind = IF role[invite[i].email] = "none" THEN "join" ELSE "close",
                             !.about = invite[i].email, !.give = invite[i].role, !.row = i])
  /\ UNCHANGED <<role, invite, invites>>

Accepted(i) == [invite EXCEPT ![i].status = "ACCEPTED", ![i].pending = FALSE]

(* The membership is unique: a second acceptance under way is rolled back. *)
AcceptWrite(q) ==
  LET w == teamwork[q] IN
  /\ w.kind \in {"join", "close"} /\ Done(q) /\ UNCHANGED invites
  /\ \/ /\ w.kind = "join" /\ role[w.about] = "none"
        /\ role' = [role EXCEPT ![w.about] = w.give] /\ invite' = Accepted(w.row)
     \/ /\ w.kind = "join" /\ role[w.about] # "none" /\ UNCHANGED <<role, invite>>
     \/ w.kind = "close" /\ invite' = Accepted(w.row) /\ UNCHANGED role

(* changeMemberRole and removeMember decide on the role they read.  The    *)
(* count of owners is only asked for a target that is an owner.            *)
ChangeRoleRead(q, who, p, give) ==
  /\ role[who] # "none" /\ role[p] # "none" /\ CanAssign(role[who], role[p], give, who = p)
  /\ Begin(q, [NoWork EXCEPT !.kind = "change", !.about = p, !.give = give])
  /\ UNCHANGED <<role, invite, invites>>

RemoveRead(q, who, p) ==
  /\ role[who] # "none" /\ role[p] # "none" /\ who # p /\ CanRemove(role[who], role[p])
  /\ role[p] = "OWNER" => Cardinality({m \in Person : role[m] = "OWNER"}) > 1
  /\ Begin(q, [NoWork EXCEPT !.kind = "remove", !.about = p])
  /\ UNCHANGED <<role, invite, invites>>

MemberWrite(q) ==   \* update and delete of a row that is gone fail
  LET w == teamwork[q] IN
  /\ w.kind \in {"change", "remove"} /\ Done(q) /\ UNCHANGED <<invite, invites>>
  /\ role' = IF role[w.about] = "none" THEN role
             ELSE [role EXCEPT ![w.about] = IF w.kind = "change" THEN w.give ELSE "none"]

TeamNext ==
  \/ \E q \in TeamRequest : \/ \E who, p \in Person, give \in Offered :
                                 InviteRead(q, who, p, give) \/ ChangeRoleRead(q, who, p, give)
                            \/ \E who, p \in Person : RemoveRead(q, who, p)
                            \/ \E i \in Row : AcceptRead(q, i)
                            \/ InviteWrite(q) \/ AcceptWrite(q) \/ MemberWrite(q)
  \/ \E i \in Row : InviteExpires(i)

TeamSpec == TeamInit /\ [][TeamNext]_teamVars
-----------------------------------------------------------------------------
(* The workspace always has exactly one owner, its founder, whatever roles *)
(* are changed, members removed and invitations accepted at the same time  *)
(* on what may be outdated roles (rbac.ts: never two owners, never none).  *)
OneOwner == {p \in Person : role[p] = "OWNER"} = {Founder}

(* Everybody but the founder is a member through an invitation that is     *)
(* marked accepted, also when it was sent again or expired meanwhile.      *)
MembersWereInvited ==
  \A p \in Person \ {Founder} : role[p] # "none" =>
    \E i \in Row : invite[i].email = p /\ invite[i].status \in {"ACCEPTED", "EXPIRED"}

(* The unique pendingEmail is given back with the invitation: an address   *)
(* is only blocked by a row that is still pending.                         *)
NobodyIsLockedOut == \A i \in Row : invite[i].pending => invite[i].status = "PENDING"

(* One owner, members by invitation, no address blocked for nothing.       *)
MembershipHolds == OneOwner /\ MembersWereInvited /\ NobodyIsLockedOut
=============================================================================
