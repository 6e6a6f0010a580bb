---------------------------- MODULE MCSettingsView ----------------------------
(* Instances of SettingsView.  The contents of a row are alike, so the overlay    *)
(* starts with the first; one list of rules is enough for what is checked.  While *)
(* the page has not been visited, one field is read, shown and read back.         *)
EXTENDS SettingsView, SettingsFields

CONSTANT v1

VARIABLE field

NoField == [of |-> "nothing"]
Fields ==
  [of : {"device"}, raw : Raw, inventory : Inventories] \cup [of : {"ttl"}, ttl : StoredTtl]
    \cup [of : {"entry"}, text : Field]

MCInit == Init /\ stored.models = [m \in Model |-> v1] /\ field = NoField

MCNext ==
  \/ field = NoField /\ Next /\ UNCHANGED field
  \/ Init /\ field = NoField /\ field' \in Fields /\ UNCHANGED vars

MCFairSpec == MCInit /\ [][MCNext]_<<vars, field>> /\ Fairness

\* A row that the user only looks at is not changed by the page.
FieldsKeepTheirValues ==
  CASE field.of = "device" -> DeviceIsOffered(field.raw, field.inventory)
    [] field.of = "ttl" -> TtlSurvives(field.ttl)
    [] field.of = "entry" -> BlankIsNoTtl(field.text)
    [] OTHER -> TRUE
===============================================================================
