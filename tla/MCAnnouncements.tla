---------------------------- MODULE MCAnnouncements ----------------------------
(* Announcements with one owner of each sort and a few tasks.              *)
EXTENDS Announcements

MCOwners == {[at |-> FALSE, system |-> FALSE, email |-> TRUE]}

MCTasks ==
  {[method |-> "MockBuild", parent |-> FALSE, state |-> "FAILED", email_to |-> TRUE]}
=============================================================================
