------------------------- MODULE MCApprovalHandoff -------------------------
(***************************************************************************)
(* One chat.  The founder names no project or one, states a complete or a  *)
(* vague intent, answers on thread 1, confirms on it in words or approves. *)
(***************************************************************************)
EXTENDS ApprovalHandoff

Complete == [confirms |-> FALSE, answers |-> 4,
             marks |-> {"constraints", "user", "scope", "expected_success"}]
Vague == [confirms |-> FALSE, answers |-> 1, marks |-> {}]
Confirms == [confirms |-> TRUE, answers |-> 1, marks |-> {}]

Says(command, project, issue, body, message) ==
    [command |-> command, project |-> project, issue |-> issue, body |-> body,
     message |-> message]

MCTexts == {Says("lummevia", FALSE, 0, "project", Vague),
            Says("lummevia", FALSE, 0, "text", Vague),
            Says("lummevia", TRUE, 0, "text", Complete),
            Says("lummevia", TRUE, 1, "text", Complete),
            Says("lummevia", TRUE, 1, "text", Confirms),
            Says("approve", FALSE, 0, "none", Vague)}
=============================================================================
