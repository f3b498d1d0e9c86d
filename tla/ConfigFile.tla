----------------------------- MODULE ConfigFile -----------------------------
(***************************************************************************)
(* The configuration file and the isolated profiles (internal/config, and  *)
(* the commands of internal/app that change them).  Commands of several    *)
(* processes overlap; each reads the whole file, works on its copy, and    *)
(* writes the whole file back by a rename.                                 *)
(*                                                                         *)
(* A configuration has one profile per client and, at its root, the model  *)
(* map of a first, single-client version.  Of a profile the model depends  *)
(* on the model its map names for every alias; the fields that name a      *)
(* provider's endpoint or an executable are left out.                      *)
(***************************************************************************)
EXTENDS FiniteSets

CONSTANTS Proc,      \* macaz processes
          Claude, Codex,
          Model,     \* models a user can name in the wizard
          Builtin,   \* the model of Default()'s map
          NoProfile, NoFile

Client == {Claude, Codex}
Map == Model \cup {Builtin}

Profile == [map : Map]
Config == [clients : [Client -> Profile \cup {NoProfile}],
           provider : BOOLEAN,   \* a provider at the root, as version 1 wrote it
           map : Map]

Default == [clients |-> [c \in Client |-> NoProfile], provider |-> FALSE, map |-> Builtin]

VARIABLES
  file,     \* config.json
  dirs,     \* clients with an isolated profile directory
  keys,     \* macaz holds a provider's credential
  pc, client,
  root,     \* the configuration a process has loaded and changed
  selected, \* the profile it is to run with
  named     \* history: the models the user has named for each client, or for both
            \* when there was one configuration for both

vars == <<file, dirs, keys, pc, client, root, selected, named>>

TypeOK ==
  /\ file \in Config \cup {NoFile}
  /\ dirs \subseteq Client
  /\ keys \in BOOLEAN
  /\ pc \in [Proc -> {"new", "load", "wizard", "save", "launch", "running",
                      "loadReset", "saveReset", "removeProfile",
                      "resetProfiles", "resetKeys", "done"}]
  /\ client \in [Proc -> Client]
  /\ root \in [Proc -> Config]
  /\ selected \in [Proc -> Profile]
  /\ named \in [Client -> SUBSET Model]

\* no file yet, or one of version 1, which only ever configured Claude
Init ==
  /\ \/ file = NoFile /\ named = [c \in Client |-> {}]
     \/ \E m \in Model :
          /\ file = [Default EXCEPT !.provider = TRUE, !.map = m]
          /\ named = [c \in Client |-> {m}]
  /\ dirs = {}
  /\ keys = FALSE
  /\ pc = [p \in Proc |-> "new"]
  /\ client = [p \in Proc |-> Claude]
  /\ root = [p \in Proc |-> Default]
  /\ selected = [p \in Proc |-> [map |-> Builtin]]

Goto(p, here, there) == pc[p] = here /\ pc' = [pc EXCEPT ![p] = there]

----------------------------------------------------------------------------
(* config.go                                                               *)

HasClient(config, c) ==
  config.clients[c] # NoProfile \/ (c = Claude /\ config.provider)

\* a client without a profile starts from the root's map
ForClient(config, c) ==
  [map |-> IF config.clients[c] = NoProfile THEN config.map ELSE config.clients[c].map]

SetClient(config, c, profile) ==
  [config EXCEPT !.clients[c] = profile,
                 !.provider = IF c = Claude THEN FALSE ELSE @]

RemoveClient(config, c) ==
  [config EXCEPT !.clients[c] = NoProfile,
                 !.provider = IF c = Claude THEN FALSE ELSE @]

\* a file of version 1 becomes Claude's profile, and its map stays at the root
LoadPath ==
  IF file = NoFile THEN Default
  ELSE IF file.provider /\ \A c \in Client : file.clients[c] = NoProfile
         THEN SetClient(file, Claude, [map |-> file.map])
         ELSE file

----------------------------------------------------------------------------
(* macaz claude, macaz codex                                               *)

RunClient(p) ==
  /\ Goto(p, "new", "load")
  /\ client' \in {[client EXCEPT ![p] = c] : c \in Client}
  /\ UNCHANGED <<file, dirs, keys, root, selected, named>>

\* loadOrConfigure: run with the profile there is, or ask for one
Load(p) ==
  /\ pc[p] = "load"
  /\ root' = [root EXCEPT ![p] = LoadPath]
  /\ selected' = [selected EXCEPT ![p] = ForClient(LoadPath, client[p])]
  /\ Goto(p, "load",
          IF file # NoFile /\ HasClient(LoadPath, client[p]) THEN "launch" ELSE "wizard")
  /\ UNCHANGED <<file, dirs, keys, client, named>>

\* a provider that leaves the model map alone: an account, a key, a CLI
ChooseProvider(p) ==
  /\ Goto(p, "wizard", "save")
  /\ keys' \in {keys, TRUE}
  /\ UNCHANGED <<file, dirs, client, root, selected, named>>

\* OpenRouter, Anthropic or a manual endpoint: the user names a model, and the
\* wizard stores it for every alias of cfg.ModelMap.  ForClient has copied the
\* Config of a client without a profile, and a copied Config has the same Go map.
NameModel(p) ==
  /\ Goto(p, "wizard", "save")
  /\ \E m \in Model :
       /\ selected' = [selected EXCEPT ![p].map = m]
       /\ root' = [root EXCEPT ![p].map = m]
       /\ named' = [named EXCEPT ![client[p]] = @ \cup {m}]
  /\ keys' \in {keys, TRUE}
  /\ UNCHANGED <<file, dirs, client>>

\* end of input, an invalid choice, an account that is not connected: the key that
\* was asked for before may be stored already
WizardFails(p) ==
  /\ Goto(p, "wizard", "done")
  /\ keys' \in {keys, TRUE}
  /\ UNCHANGED <<file, dirs, client, root, selected, named>>

Save(p) ==
  /\ Goto(p, "save", "launch")
  /\ file' = SetClient(root[p], client[p], selected[p])
  /\ UNCHANGED <<dirs, keys, client, root, selected, named>>

\* no file is left half written
SaveFails(p) ==
  /\ Goto(p, "save", "done")
  /\ UNCHANGED <<file, dirs, keys, client, root, selected, named>>

\* the launcher fills the client's isolated profile
Launch(p) ==
  /\ Goto(p, "launch", "running")
  /\ dirs' = dirs \cup {client[p]}
  /\ UNCHANGED <<file, keys, client, root, selected, named>>

ClientExits(p) ==
  /\ Goto(p, "running", "done")
  /\ UNCHANGED <<file, dirs, keys, client, root, selected, named>>

----------------------------------------------------------------------------
(* macaz reset                                                             *)

ResetClient(p) ==
  /\ Goto(p, "new", "loadReset")
  /\ client' \in {[client EXCEPT ![p] = c] : c \in Client}
  /\ UNCHANGED <<file, dirs, keys, root, selected, named>>

LoadReset(p) ==
  /\ Goto(p, "loadReset", IF file = NoFile THEN "removeProfile" ELSE "saveReset")
  /\ root' = [root EXCEPT ![p] = RemoveClient(LoadPath, client[p])]
  /\ UNCHANGED <<file, dirs, keys, client, selected, named>>

SaveReset(p) ==
  /\ pc[p] = "saveReset"
  /\ \/ Goto(p, "saveReset", "removeProfile") /\ file' = root[p]
     \/ Goto(p, "saveReset", "done") /\ UNCHANGED file
  /\ UNCHANGED <<dirs, keys, client, root, selected, named>>

RemoveProfile(p) ==
  /\ Goto(p, "removeProfile", "done")
  /\ dirs' \in {dirs, dirs \ {client[p]}}
  /\ UNCHANGED <<file, keys, client, root, selected, named>>

ResetAll(p) ==
  /\ Goto(p, "new", "resetProfiles")
  /\ file' = NoFile
  /\ UNCHANGED <<dirs, keys, client, root, selected, named>>

ResetProfiles(p) ==
  /\ pc[p] = "resetProfiles"
  /\ \/ Goto(p, "resetProfiles", "resetKeys") /\ dirs' = {}
     \/ Goto(p, "resetProfiles", "done") /\ dirs' \in {dirs, dirs \ {Claude}}
  /\ UNCHANGED <<file, keys, client, root, selected, named>>

ResetKeys(p) ==
  /\ Goto(p, "resetKeys", "done")
  /\ keys' \in {keys, FALSE}
  /\ UNCHANGED <<file, dirs, client, root, selected, named>>

----------------------------------------------------------------------------
Next ==
  \E p \in Proc :
    \/ RunClient(p) \/ Load(p) \/ ChooseProvider(p) \/ NameModel(p)
    \/ WizardFails(p) \/ Save(p) \/ SaveFails(p) \/ Launch(p) \/ ClientExits(p)
    \/ ResetClient(p) \/ LoadReset(p) \/ SaveReset(p) \/ RemoveProfile(p)
    \/ ResetAll(p) \/ ResetProfiles(p) \/ ResetKeys(p)

Spec == Init /\ [][Next]_vars

----------------------------------------------------------------------------
(* Properties                                                              *)

\* The two clients have independent model configuration (src/README.md:35,
\* config.go:410-412): a client's profile names the built-in model or one the
\* user has named for that client, never one named for the other.
ClientsIndependent ==
  file # NoFile =>
    \A c \in Client :
      file.clients[c] # NoProfile => file.clients[c].map \in named[c] \cup {Builtin}
=============================================================================
