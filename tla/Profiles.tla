------------------------------ MODULE Profiles ------------------------------
(***************************************************************************)
(* .agentos/profile.yaml: the profiles and which of them is active.  Every *)
(* command that needs it first creates it if it does not exist; `profile   *)
(* set` reads it, changes the active profile and writes it in place, and   *)
(* the restore of a backup writes the copy in the backup over it.          *)
(*                                                                         *)
(* The contents differ in their first line only, and a tail left over from *)
(* a longer one is a fragment of the last line, which is not read: writing *)
(* over another content gives the new one.  A truncated file is read as    *)
(* the active profile "default" in an empty list of profiles.              *)
(***************************************************************************)
EXTENDS ProjectFiles

CONSTANTS
  Profile,          \* the profiles in the file
  DefaultProfile,   \* the one active in a new file
  NoWish            \* the command only reads

ASSUME ProfileAssumption ==
  /\ DefaultProfile \in Profile
  /\ {NoWish, NoFile, Blank} \cap Profile = {} /\ NoWish # Blank

VARIABLES
  profile,       \* the active profile in profile.yaml
  profilePc,     \* where each process is
  wish,          \* the profile its command activates
  activated,     \* history: the profile last set or restored
  profileMixed,  \* history: one was set while another process was to write the defaults
  profileGutted  \* history: a process was killed between truncating and writing, or a
                 \* restore brought an empty file back

profileVars == <<profile, profilePc, wish, activated, profileMixed, profileGutted>>

ProfileStep == {"idle", "ensure", "create", "default", "open", "write", "known", "error"}

ProfileGoto(p, step) == profilePc' = [profilePc EXCEPT ![p] = step]
Truncated(p) == profilePc[p] \in {"default", "write"}
AboutToCreate(p) == profilePc[p] \in {"create", "default"}

---------------------------------------------------------------------------
ProfileInit ==
  /\ profile = NoFile
  /\ profilePc = [p \in Proc |-> "idle"]
  /\ wish = [p \in Proc |-> NoWish]
  /\ activated = DefaultProfile
  /\ profileMixed = FALSE /\ profileGutted = FALSE

NeedProfile(p, w) ==
  /\ profilePc[p] \in {"idle", "known", "error"}
  /\ wish' = [wish EXCEPT ![p] = w]
  /\ ProfileGoto(p, "ensure")
  /\ UNCHANGED <<profile, activated, profileMixed, profileGutted>>

\* profile set
StartSetProfile(p, w) == w \in Profile /\ NeedProfile(p, w)

\* memory add, a policy service, a usage event: what is active?
StartReadProfile(p) == NeedProfile(p, NoWish)

\* backup restore: w is active in the copy; it is Blank if the copy was made of a truncated
\* file.
StartRestoreProfile(p, w) ==
  /\ w \in Profile \cup {Blank}
  /\ profilePc[p] \in {"idle", "known", "error"}
  /\ wish' = [wish EXCEPT ![p] = w]
  /\ ProfileGoto(p, "open")
  /\ UNCHANGED <<profile, activated, profileMixed, profileGutted>>

\* Mutant of FindNoProfiles: the file is created whether it exists or not.
FindNoProfilesAnyway(p) ==
  /\ profilePc[p] = "ensure"
  /\ ProfileGoto(p, "create")
  /\ UNCHANGED <<profile, wish, activated, profileMixed, profileGutted>>

FindNoProfiles(p) ==
  /\ profilePc[p] = "ensure" /\ profile = NoFile
  /\ ProfileGoto(p, "create")
  /\ UNCHANGED <<profile, wish, activated, profileMixed, profileGutted>>

\* The file is opened without looking again whether it exists.
CreateProfiles(p) ==
  /\ profilePc[p] = "create"
  /\ profile' = Blank
  /\ ProfileGoto(p, "default")
  /\ UNCHANGED <<wish, activated, profileMixed, profileGutted>>

WriteDefaultProfiles(p) ==
  /\ profilePc[p] = "default"
  /\ profile' = DefaultProfile
  /\ ProfileGoto(p, "ensure")
  /\ UNCHANGED <<wish, activated, profileMixed, profileGutted>>

\* KeyError if the active or the wanted profile is not in the list.
ReadProfile(p) ==
  /\ profilePc[p] = "ensure" /\ profile # NoFile
  /\ ProfileGoto(p, IF profile = Blank THEN "error"
                    ELSE IF wish[p] = NoWish THEN "known" ELSE "open")
  /\ UNCHANGED <<profile, wish, activated, profileMixed, profileGutted>>

OpenProfile(p) ==
  /\ profilePc[p] = "open"
  /\ profile' = Blank
  /\ ProfileGoto(p, "write")
  /\ UNCHANGED <<wish, activated, profileMixed, profileGutted>>

\* Writing nothing leaves what another process wrote since.
WriteProfile(p) ==
  /\ profilePc[p] = "write"
  /\ \/ /\ wish[p] = Blank
        /\ profileGutted' = TRUE
        /\ UNCHANGED <<profile, activated, profileMixed>>
     \/ /\ wish[p] # Blank
        /\ profile' = wish[p] /\ activated' = wish[p]
        /\ profileMixed' = (profileMixed \/ \E q \in Proc : AboutToCreate(q))
        /\ UNCHANGED profileGutted
  /\ ProfileGoto(p, "known")
  /\ UNCHANGED wish

\* Also when a restore stops because it cannot read its archive.
KillProfile(p) ==
  /\ ProfileGoto(p, "idle")
  /\ profileGutted' = (profileGutted \/ Truncated(p))
  /\ UNCHANGED <<profile, wish, activated, profileMixed>>

ProfileWork(p) ==
  \/ FindNoProfiles(p) \/ CreateProfiles(p) \/ WriteDefaultProfiles(p) \/ ReadProfile(p)
  \/ OpenProfile(p) \/ WriteProfile(p)

ProfileNext == \E p \in Proc :
  \/ ProfileWork(p) \/ KillProfile(p)
  \/ StartReadProfile(p) \/ (\E w \in Profile : StartSetProfile(p, w))
  \/ \E w \in Profile \cup {Blank} : StartRestoreProfile(p, w)

ProfileSpec == ProfileInit /\ [][ProfileNext]_profileVars

---------------------------------------------------------------------------
\* The type invariant.
ProfileTypeOK ==
  /\ profile \in Profile \cup {NoFile, Blank}
  /\ profilePc \in [Proc -> ProfileStep]
  /\ wish \in [Proc -> Profile \cup {NoWish, Blank}]
  /\ activated \in Profile
  /\ profileMixed \in BOOLEAN /\ profileGutted \in BOOLEAN

\* profile.yaml has no usable profile only while a process is writing it, or after one was
\* killed doing so or an empty copy was restored, from which no command but a restore
\* recovers; otherwise the active profile is the one set or restored last, unless that
\* happened while another process, which had found no file, was about to write the
\* defaults (create_default_profile, set_active_profile, BackupManager.restore).
ProfileKept ==
  /\ profile = Blank => profileGutted \/ \E p \in Proc : Truncated(p)
  /\ profile \in Profile => profile = activated \/ profileMixed
=============================================================================
