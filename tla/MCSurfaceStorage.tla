-------------------------- MODULE MCSurfaceStorage --------------------------
(* Small instances of SurfaceStorage. *)
EXTENDS SurfaceStorage

\* Which entries the generated structs accept: a StandBy entry has every field
\* the home widget requires, and a widget entry those of the lock accessory.
MCShapes == {<<k, k>> : k \in AllKinds} \cup {<<"widget", "standby">>, <<"lockAccessory", "widget">>}

TwoKinds == {"widget", "control"}
=============================================================================
