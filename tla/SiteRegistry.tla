---------------------------- MODULE SiteRegistry ----------------------------
(***************************************************************************)
(* What the commands that edit config.json promise, whatever happens       *)
(* inside them: each one takes effect on the document in one step or not   *)
(* at all, touches its own entry only, and leaves a default site that is   *)
(* configured. (internal/cli/auth.go, alias.go, internal/config.)          *)
(***************************************************************************)
CONSTANTS Site, Alias, Ref, Login, NoProfile, None

VARIABLE config  \* [sites |-> , default |-> , aliases |-> ]

Empty == [sites |-> [s \in Site |-> NoProfile], default |-> None, aliases |-> {}]

Configured(s) == config.sites[s] # NoProfile

Init == config = Empty

LogIn(s) ==
  \E r \in Ref, n \in Login :
    config' = [config EXCEPT !.sites[s] = [ref |-> r, login |-> n]]

LogOut(s) ==
  /\ Configured(s)
  /\ config' = [config EXCEPT !.sites[s] = NoProfile,
                              !.default = IF @ = s THEN None ELSE @]

SetDefault(s) == Configured(s) /\ config' = [config EXCEPT !.default = s]

ClearDefault == config' = [config EXCEPT !.default = None]

SetAlias(a) == config' = [config EXCEPT !.aliases = @ \cup {a}]

DeleteAlias(a) ==
  a \in config.aliases /\ config' = [config EXCEPT !.aliases = @ \ {a}]

Next ==
  \/ \E s \in Site : LogIn(s) \/ LogOut(s) \/ SetDefault(s)
  \/ \E a \in Alias : SetAlias(a) \/ DeleteAlias(a)
  \/ ClearDefault

Spec == Init /\ [][Next]_config
=============================================================================
