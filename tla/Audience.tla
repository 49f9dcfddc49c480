------------------------------ MODULE Audience ------------------------------
(***************************************************************************)
(* Who is shown what.  One row of an exercise reaches a browser in two     *)
(* ways: pushed as a WebSocket frame (services/ws_projector chooses the    *)
(* fan-out, services/ws_manager the sockets) and pulled by the page's list *)
(* and detail requests (routers/*, services/access_control).  The two are  *)
(* written apart; Delivery relates them.                                   *)
(*                                                                         *)
(* An item is [kind, groups, author, team]: groups are the teams it is     *)
(* addressed to, {} for everyone; author and team are those of the         *)
(* participant who wrote it; a comment has a single column for its team,   *)
(* that of its author.  A viewer is [user, role, group].                   *)
(***************************************************************************)

CONSTANTS Users, Groups, NoGroup
ASSUME NoGroupAssumption == NoGroup \notin Groups

Roles == {"facilitator", "participant", "observer"}

\* What only the facilitators' console shows.
ConsoleKinds == {"inject_updated", "response_submitted", "response_assessed",
                 "inject_suggested", "summary_generated"}
Kinds == ConsoleKinds \cup {"exercise_state_changed", "inject_released",
                            "inject_comment_created", "inbound", "outbound"}

Items == {i \in [kind : Kinds, groups : SUBSET Groups,
                 author : Users, team : Groups \cup {NoGroup}] :
             i.kind = "inject_comment_created" => i.groups \subseteq {i.team}}
Viewers == [user : Users, role : Roles, group : Groups \cup {NoGroup}]

Oversees(v) == v.role \in {"facilitator", "observer"}
Addressed(item, v) == item.groups = {} \/ v.group \in item.groups

\* broadcast_to_exercise, broadcast_to_groups, send_to_facilitators,
\* send_to_facilitators_and_user(_and_groups), as on_* call them.
Pushed(item, v) ==
    CASE item.kind \in ConsoleKinds -> v.role = "facilitator"
      [] item.kind = "exercise_state_changed" -> TRUE
      [] item.kind \in {"inject_released", "inject_comment_created", "inbound"} ->
            Addressed(item, v) \/ Oversees(v)
      [] item.kind = "outbound" ->
            v.role = "facilitator" \/ v.user = item.author \/ v.group \in item.groups

\* sender_team_for_comm: the column, or the sender's present team; either way a
\* sender keeps sight of what was sent from no team or from the present one.
SentBy(item, v) == item.author = v.user /\ item.team \in {NoGroup, v.group}

\* The detail requests: is_inject_visible_to_user, _can_see_comment,
\* _comm_visible_to_user, get_response.
Readable(item, v) ==
    \/ v.role = "facilitator" \/ item.kind = "exercise_state_changed"
    \/ v.role = "observer" /\ item.kind \notin ConsoleKinds \ {"response_submitted"}
    \/ item.kind = "response_submitted" /\ item.author = v.user
    \/ item.kind \in {"inject_released", "inbound"} /\ Addressed(item, v)
    \/ /\ item.kind = "inject_comment_created"
       /\ item.groups = IF v.group = NoGroup THEN {} ELSE {v.group}
    \/ item.kind = "outbound" /\ (SentBy(item, v) \/ v.group \in item.groups)

\* list_communications: every message for the overseers, the participant's own
\* and their team's otherwise.  The other lists filter as the details do.
Listed(item, v) ==
    IF item.kind \in {"inbound", "outbound"}
    THEN \/ v.role # "participant"
         \/ item.kind = "outbound" /\ (SentBy(item, v) \/ v.group \in item.groups)
         \/ item.kind = "inbound" /\ Addressed(item, v)
    ELSE Readable(item, v)
=============================================================================
