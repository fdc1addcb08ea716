----------------------------- MODULE ConfigFile -----------------------------
(***************************************************************************)
(* The configuration file, the web server that shows and saves it (web.rs, *)
(* config.rs), the pages open in several windows (web/index.html) and an   *)
(* editor outside the bridge.                                              *)
(*                                                                         *)
(* A save is not one step: its request reads the file and is checked, the  *)
(* new file is written beside the old one, renamed over it, and the rename *)
(* is made durable.  Windows, the editor and a crash come in between.      *)
(*                                                                         *)
(* A configuration is the Home Assistant URL, its token and the rest; a    *)
(* token is known by the URL it was entered for and the edit it came from. *)
(***************************************************************************)
EXTENDS Naturals, Sequences

CONSTANTS Windows,
          Visible,   \* the windows that are in view: a hidden page does not poll
          Urls,      \* Home Assistant URLs
          MaxEdits,  \* bound: edits in windows and in the outside editor
          MaxFiles,  \* bound: files that are kept when the directory cannot be written
          Nothing

ASSUME WindowsAssumption == Visible \subseteq Windows /\ Nothing \notin Windows
ASSUME UrlsAssumption == Nothing \notin Urls /\ Urls # {}
ASSUME BoundsAssumption == MaxEdits \in Nat /\ MaxFiles \in Nat

VARIABLES disk,     \* the files the path has named, from the last one that a crash
                    \* cannot undo: the configuration, and of the later ones who
                    \* wrote it and what it was to replace, Nothing to overwrite
          edits,    \* number of edits
          crashed,  \* the one crash, or restart of the bridge, has happened
          page,     \* window -> what the page holds
          poll,     \* window -> the answer under way to the poll of the page
          save      \* window -> the save under way

vars == <<disk, edits, crashed, page, poll, save>>

Tokens == [for : Urls \cup {Nothing}, edit : 0..MaxEdits] \cup {Nothing}
Configs == [rest : 0..MaxEdits, url : Urls \cup {Nothing}, token : Tokens]

Current == disk[Len(disk)].config

Durable(config) == <<[config |-> config, by |-> Nothing, base |-> Nothing]>>

(* What a window is shown: of a token only whether there is one.           *)
View(config) == [config EXCEPT !.token = @ # Nothing]

\* Wrong variant of Revision: the secrets are left out.
RevisionOfView(config) == View(config)

(* The hash of all the file says, secrets included.                        *)
Revision(config) == config

(* The draft of a page: the configuration without its token, the change to *)
(* the token (keep, remove or enter), and the edit that entered it.        *)
Unedited(config) == [rest |-> config.rest, url |-> config.url, token |-> "keep", edit |-> 0]

Edited(w) == page[w].draft # Unedited(page[w].config)

(* load(): the page shows a configuration and forgets its edits.           *)
Loaded(config) == [config |-> config, draft |-> Unedited(config), stale |-> Nothing,
                   armed |-> FALSE]

(* base: the configuration the page was loaded from, Nothing to overwrite. *)
(* found: the file that was checked, which the code does not keep.  Both   *)
(* are of no use once the file is replaced.                                *)
NoSave == [pc |-> "idle", base |-> Nothing, config |-> Nothing, found |-> Nothing]

Init ==
    /\ LET url == CHOOSE url \in Urls : TRUE
           config == [rest |-> 0, url |-> url, token |-> [for |-> url, edit |-> 0]]
       IN  /\ disk = Durable(config)
           /\ page = [w \in Windows |-> Loaded(config)]
    /\ edits = 0 /\ crashed = FALSE
    /\ poll = [w \in Windows |-> Nothing]
    /\ save = [w \in Windows |-> NoSave]

----------------------------------------------------------------------------
(* A window.                                                               *)

(* The fields are disabled while a save is under way.                      *)
Edit(w) ==
    /\ save[w].pc = "idle" /\ edits < MaxEdits
    /\ edits' = edits + 1
    /\ \/ page' = [page EXCEPT ![w].draft.rest = edits']
       \/ \E url \in Urls \cup {Nothing} : page' = [page EXCEPT ![w].draft.url = url]
       \/ page' = [page EXCEPT ![w].draft.token = "remove", ![w].draft.edit = 0]
       \/ \E url \in Urls : page' = [page EXCEPT ![w].draft.url = url, ![w].draft.token = "enter",
                                               ![w].draft.edit = edits']
    /\ UNCHANGED <<disk, crashed, poll, save>>

Discard(w) ==
    /\ save[w].pc = "idle" /\ Edited(w)
    /\ page' = [page EXCEPT ![w].draft = Unedited(page[w].config)]
    /\ UNCHANGED <<disk, edits, crashed, poll, save>>

(* "Load saved version"                                                    *)
LoadStale(w) ==
    /\ save[w].pc = "idle" /\ page[w].stale # Nothing
    /\ page' = [page EXCEPT ![w] = Loaded(page[w].stale)]
    /\ UNCHANGED <<disk, edits, crashed, poll, save>>

(* Save: the first click warns of a file known to have changed.            *)
Warn(w) ==
    /\ save[w].pc = "idle" /\ Edited(w)
    /\ page[w].stale # Nothing /\ ~page[w].armed
    /\ page' = [page EXCEPT ![w].armed = TRUE]
    /\ UNCHANGED <<disk, edits, crashed, poll, save>>

Send(w) ==
    /\ save[w].pc = "idle" /\ Edited(w)
    /\ page[w].stale = Nothing \/ page[w].armed
    /\ save' = [save EXCEPT ![w].pc = "sent",
                            ![w].base = IF page[w].armed THEN Nothing ELSE page[w].config]
    /\ UNCHANGED <<disk, edits, crashed, page, poll>>

(* After a refusal for an old revision the page fetches the file, which    *)
(* may fail.                                                               *)
Conflict(w) ==
    /\ save[w].pc = "conflict"
    /\ \E stale \in {Current, page[w].stale} :
          page' = [page EXCEPT ![w].stale = stale, ![w].armed = TRUE]
    /\ save' = [save EXCEPT ![w] = NoSave]
    /\ UNCHANGED <<disk, edits, crashed, poll>>

Saved(w) ==
    /\ save[w].pc = "saved"
    /\ page' = [page EXCEPT ![w] = Loaded(save[w].config)]
    /\ save' = [save EXCEPT ![w] = NoSave]
    /\ UNCHANGED <<disk, edits, crashed, poll>>

(* The page fetches the file every few seconds.  Left out are polls that   *)
(* tell a page what it shows, unless a save may change that before they    *)
(* are answered.                                                           *)
Poll(w) ==
    /\ w \in Visible /\ poll[w] = Nothing
    /\ View(Current) # View(page[w].config) \/ save[w].pc # "idle"
    /\ poll' = [poll EXCEPT ![w] = Current]
    /\ UNCHANGED <<disk, edits, crashed, page, save>>

\* Wrong variant of PollAnswered: it warns of a change also when there are no edits.
PollAnsweredWarns(w) ==
    /\ poll[w] # Nothing
    /\ page' = IF View(poll[w]) # View(page[w].config) /\ Edited(w)
               THEN [page EXCEPT ![w].stale = poll[w]] ELSE page
    /\ poll' = [poll EXCEPT ![w] = Nothing]
    /\ UNCHANGED <<disk, edits, crashed, save>>

(* Without edits the page shows the file that changed; edits are kept, and *)
(* the window is warned.                                                   *)
PollAnswered(w) ==
    /\ poll[w] # Nothing
    /\ page' = IF View(poll[w]) = View(page[w].config)
               THEN page
               ELSE IF Edited(w) THEN [page EXCEPT ![w].stale = poll[w]]
                                 ELSE [page EXCEPT ![w] = Loaded(poll[w])]
    /\ poll' = [poll EXCEPT ![w] = Nothing]
    /\ UNCHANGED <<disk, edits, crashed, save>>

----------------------------------------------------------------------------
(* The web server: draft_config, save_config and write_to_path.            *)

\* Wrong variant of Token: a new URL keeps the stored token.
TokenKept(draft, stored) ==
    CASE draft.token = "enter"  -> [for |-> draft.url, edit |-> draft.edit]
      [] draft.token = "remove" -> Nothing
      [] draft.token = "keep"   -> stored.token

(* The token of the new file: entered, removed, or the stored one, unless  *)
(* the URL changed.                                                        *)
Token(draft, stored) ==
    CASE draft.token = "enter"  -> [for |-> draft.url, edit |-> draft.edit]
      [] draft.token = "remove" -> Nothing
      [] draft.token = "keep"   -> IF draft.url = stored.url THEN stored.token ELSE Nothing

(* A file edited since the page was loaded is a conflict; a new URL needs a *)
(* token; and the file may be unreadable or the draft invalid.             *)
Check(w) ==
    LET draft == page[w].draft
        base == save[w].base
        config == [rest |-> draft.rest, url |-> draft.url, token |-> Token(draft, Current)]
        outdated == base # Nothing /\ Revision(base) # Revision(Current)
        tokenMissing == /\ draft.url \notin {Current.url, Nothing}
                        /\ draft.token # "enter"
    IN  /\ save[w].pc = "sent"
        /\ save' = [save EXCEPT ![w] =
              IF outdated THEN [NoSave EXCEPT !.pc = "conflict"]
              ELSE IF tokenMissing THEN NoSave
              ELSE [pc |-> "checked", base |-> base, config |-> config, found |-> Current]]
        /\ UNCHANGED <<disk, edits, crashed, page, poll>>

(* Every writer has a temporary file of its own, so that writing it is no  *)
(* step of its own here.                                                   *)
Rename(w) ==
    /\ save[w].pc = "checked"
    /\ disk' = Append(disk, [config |-> save[w].config, by |-> w, base |-> save[w].base])
    /\ save' = [save EXCEPT ![w] = [NoSave EXCEPT !.pc = "renamed", !.config = save[w].config]]
    /\ UNCHANGED <<edits, crashed, page, poll>>

\* Wrong variant of SyncDirectory: the directory is not written.
SyncFileOnly(w) ==
    /\ save[w].pc = "renamed"
    /\ save' = [save EXCEPT ![w].pc = "saved"]
    /\ UNCHANGED <<disk, edits, crashed, page, poll>>

(* The directory entry is written; the answer is sent.                     *)
SyncDirectory(w) ==
    /\ save[w].pc = "renamed"
    /\ disk' = Durable(Current)
    /\ save' = [save EXCEPT ![w].pc = "saved"]
    /\ UNCHANGED <<edits, crashed, page, poll>>

(* Reading, validating, writing or the directory fails: the window is told *)
(* of an error, also when the file was already replaced.                   *)
SaveFails(w) ==
    /\ \/ save[w].pc \in {"sent", "checked"}
       \/ save[w].pc = "renamed" /\ Len(disk) <= MaxFiles
    /\ save' = [save EXCEPT ![w] = NoSave]
    /\ UNCHANGED <<disk, edits, crashed, page, poll>>

----------------------------------------------------------------------------
(* The world around.                                                       *)

(* Somebody else replaces the file.                                        *)
OutsideEdit ==
    /\ edits < MaxEdits
    /\ edits' = edits + 1
    /\ \E url \in Urls :
          LET config == [rest |-> edits', url |-> url, token |-> [for |-> url, edit |-> edits']]
          IN  disk' = Durable(config)
    /\ UNCHANGED <<crashed, page, poll, save>>

(* The bridge restarts, after a loss of power or on request.  Renames that *)
(* are not durable may be undone; saves and polls get no answer.           *)
Crash ==
    /\ ~crashed
    /\ crashed' = TRUE
    /\ \E i \in DOMAIN disk : disk' = Durable(disk[i].config)
    /\ save' = [w \in Windows |-> IF save[w].pc = "conflict" THEN save[w] ELSE NoSave]
    /\ poll' = [w \in Windows |-> Nothing]
    /\ UNCHANGED <<edits, page>>

SaveStep(w) ==
    Check(w) \/ Rename(w) \/ SyncDirectory(w) \/ Saved(w) \/ Conflict(w)

Next ==
    \/ \E w \in Windows :
          \/ Edit(w) \/ Discard(w) \/ LoadStale(w) \/ Warn(w) \/ Send(w)
          \/ SaveStep(w) \/ SaveFails(w)
          \/ Poll(w) \/ PollAnswered(w)
    \/ OutsideEdit \/ Crash

(* A request is carried out and answered; a page that is shown polls.      *)
Fairness ==
    \A w \in Windows :
        WF_vars(SaveStep(w)) /\ WF_vars(Poll(w)) /\ WF_vars(PollAnswered(w))

Spec == Init /\ [][Next]_vars /\ Fairness

----------------------------------------------------------------------------
(* "Replaces the file atomically and durably": no crash undoes a save that *)
(* a window is told of, whatever other saves are under way.                *)
SavesLast ==
    \A w \in Windows : save[w].pc = "saved" => \A i \in DOMAIN disk : disk[i].by # w

(* The token in the file was entered for the URL in the file, whichever    *)
(* saves based on whichever files crossed each other.                      *)
TokenOfUrl == Current.token # Nothing => Current.token.for = Current.url

(* A save that does not overwrite on purpose can only undo changes made    *)
(* while it is being written: at its check the file, secrets included, was *)
(* the one its page was loaded from.                                       *)
OnlyRacingSavesAreLost ==
    \A w \in Windows :
        save[w].pc = "checked" => save[w].base \in {Nothing, save[w].found}

(* "A save fails when the file has changed since", here for what another   *)
(* window saved.                                                           *)
NoLostUpdate ==
    \A i \in DOMAIN disk :
        disk[i].base # Nothing /\ disk[i - 1].by # Nothing => disk[i - 1].config = disk[i].base

(* A page in view comes to show what the file says, or to warn that it does *)
(* not, also when an answer to a poll overtakes that to a save.       *)
PageCatchesUp ==
    \A w \in Visible : []<>(page[w].stale # Nothing \/ View(page[w].config) = View(Current))
=============================================================================
