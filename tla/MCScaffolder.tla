----------------------------- MODULE MCScaffolder -----------------------------
(* Disks for Scaffolder: an Expo app in each state of its lockfile, app.json *)
(* and widget directory; a monorepo; an empty directory, one with the target *)
(* directory made, and one where the target is taken.                        *)
EXTENDS Scaffolder

Bare == [p \in Paths |-> "absent"]

ExpoApps ==
    {[Bare EXCEPT !["package.json"] = "old", !["lockfile"] = l, !["app.json"] = a, !["widget"] = w] :
        l, a \in {"absent", "old"}, w \in {"absent", "empty", "users"}}

Monorepo == [Bare EXCEPT !["package.json"] = "old", !["workspace"] = "old"]

MCHosts == ExpoApps \union {Monorepo, Bare, [Bare EXCEPT !["target"] = "empty"], [Bare EXCEPT !["target"] = "users"]}

\* An Expo app whose app.json parses, with a widget of the user's.
MCOneApp == {[Bare EXCEPT !["package.json"] = "old", !["app.json"] = "old", !["widget"] = "users"]}
=============================================================================
