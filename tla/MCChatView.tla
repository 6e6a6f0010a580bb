------------------------------ MODULE MCChatView ------------------------------
(* Instances of ChatView: the user's navigations are bounded by MaxViews, the   *)
(* messages by Turn.  In every instance all of Existing are pages, or there is  *)
(* one, and no other chat is a page: the chats of each kind are alike.          *)
EXTENDS ChatView, TLC

Symmetry ==
  Permutations(Turn) \cup Permutations(Existing) \cup Permutations(Chat \ Existing)
===============================================================================
