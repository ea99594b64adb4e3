------------------------------ MODULE Profiles ------------------------------
(***************************************************************************)
(* Agent profiles, their persona versions and their bindings:              *)
(* repositories/profiles.py and the operator's requests.                   *)
(***************************************************************************)
EXTENDS Handlers

CONSTANTS
    MaxProfile,  \* bound: profiles
    MaxVersion   \* bound: persona versions of a profile

ASSUME ProfilesAssumption == MaxProfile \in Nat \ {0} /\ MaxVersion \in Nat \ {0}

Profile == 1..MaxProfile

VARIABLES
    versions,  \* profile -> its newest version, 0 when there is no such profile
    active,    \* profile -> its active version
    named,     \* the profile with the default name, 0 for none
    binding    \* conversation -> its profile, 0 for none

profileVars == <<versions, active, named, binding>>

ProfilesTypeOK ==
    /\ versions \in [Profile -> 0..MaxVersion]
    /\ active \in [Profile -> 0..MaxVersion]
    /\ named \in 0..MaxProfile
    /\ binding \in [Place -> 0..MaxProfile]

ProfilesInit ==
    /\ versions = [k \in Profile |-> 0] /\ active = versions
    /\ named = 0
    /\ binding = [c \in Place |-> 0]

Exists(k) == versions[k] > 0
Fresh == {k \in Profile : ~Exists(k) /\ \A e \in 1..(k - 1) : Exists(e)}

AddProfile(k) ==
    /\ versions' = [versions EXCEPT ![k] = 1]
    /\ active' = [active EXCEPT ![k] = 1]

\* ensure_default: the profile with the default name is created unless it exists.
EnsureDefault ==
    \/ named # 0 /\ UNCHANGED profileVars
    \/ /\ named = 0
       /\ \E k \in Fresh : AddProfile(k) /\ named' = k
       /\ UNCHANGED binding

\* resolve(): the profile of the conversation, or the default.
Resolve(c) ==
    \/ binding[c] # 0 /\ UNCHANGED profileVars
    \/ binding[c] = 0 /\ EnsureDefault

\* create(): a profile, under the default name or another.
CreateNamed(k) ==
    /\ AddProfile(k)
    /\ named' \in {named, IF named = 0 THEN k ELSE named}

CreateProfile ==
    /\ \E k \in Fresh : CreateNamed(k)
    /\ Request /\ UNCHANGED binding

\* update(): only a name taken from or given to the default profile matters.
\* Names are unique.
Update(k) ==
    /\ Exists(k) /\ named \in {0, k}
    /\ named' = IF named = k THEN 0 ELSE k
    /\ UNCHANGED <<versions, active, binding>>

UpdateProfile(k) == Update(k) /\ Request

Bind(c, k) == binding' = [binding EXCEPT ![c] = k] /\ UNCHANGED <<versions, active, named>>
Unbind(c) == binding' = [binding EXCEPT ![c] = 0] /\ UNCHANGED <<versions, active, named>>

\* The operator binds a conversation to a profile that is there, or to none.
BindProfile(c, k) ==
    /\ binding[c] # k
    /\ \/ k = 0 /\ Unbind(c)
       \/ k # 0 /\ Exists(k) /\ Bind(c, k)
    /\ Request

\* delete(): a profile that is not the default and not bound goes with its
\* versions; the delete waits for whoever holds the profile's row.
Delete(k) ==
    /\ Exists(k) /\ k # named
    /\ \A c \in Place : binding[c] # k
    /\ \A q \in Proc : ~(stage[q] = "version" /\ pick[q] = k)
    /\ versions' = [versions EXCEPT ![k] = 0]
    /\ active' = [active EXCEPT ![k] = 0]
    /\ UNCHANGED <<named, binding>>

DeleteProfile(k) == Delete(k) /\ Request

\* A request for a new version ...
EditPersona(p, k) ==
    /\ Exists(k)
    /\ Begin(p, None, None, k, "edit")
    /\ UNCHANGED profileVars

\* ... or to go back to an older one: its text is read first, and a new version
\* with that text is then asked for.
RollbackPersona(p, k) == EditPersona(p, k)

\* Mutant: the newest version is read without the lock on the profile's row.
PersonaReadsUnlocked(p) ==
    /\ stage[p] = "edit"
    /\ \/ Exists(pick[p]) /\ versions[pick[p]] < MaxVersion
          /\ Read(p, "version", versions[pick[p]])
       \/ ~Exists(pick[p]) /\ Done(p)
    /\ UNCHANGED profileVars

\* create_persona_version locks the row of the profile and reads its newest
\* version; the profile may be gone by now ...
PersonaReads(p) ==
    /\ stage[p] = "edit"
    /\ \A q \in Proc : ~(stage[q] = "version" /\ pick[q] = pick[p])
    /\ \/ Exists(pick[p]) /\ versions[pick[p]] < MaxVersion
          /\ Read(p, "version", versions[pick[p]])
       \/ ~Exists(pick[p]) /\ Done(p)
    /\ UNCHANGED profileVars

\* ... and adds the next one, which becomes the active one.
PersonaWrites(p) ==
    /\ stage[p] = "version"
    /\ versions' = [versions EXCEPT ![pick[p]] = base[p] + 1]
    /\ active' = [active EXCEPT ![pick[p]] = base[p] + 1]
    /\ Done(p) /\ UNCHANGED <<named, binding>>

\* The newest version of a persona is the active one, a rollback included, and
\* two editors never compute the same version: what an editor has read is
\* still the newest when it writes.  A bound conversation has its profile.
PersonaIsNewest ==
    /\ active = versions
    /\ \A p \in Proc : stage[p] = "version" => base[p] = versions[pick[p]]
    /\ \A c \in Place : binding[c] # 0 => Exists(binding[c])
=============================================================================
