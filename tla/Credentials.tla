---------------------------- MODULE Credentials ----------------------------
(* The archive.org sign-in: iaauth.c on a file and its temporary file, and   *)
(* ArchiveOrgLoginScreen, whose coroutines call it.                          *)
(*                                                                           *)
(* A job is one coroutine of the screen; each value of pc is a suspension    *)
(* point or a system call of save_root.  A native call is not interrupted    *)
(* when its screen is left (or rotated): it ends by itself, unseen.          *)
(*                                                                           *)
(* Abstractions: a credential is the job that saved it; texts are wording;   *)
(* a header is built from what Loaded says.                                  *)
EXTENDS Naturals, FiniteSets

CONSTANTS
  Logins,       \* jobs that sign in with email and password
  KeySaves,     \* jobs that save API keys
  CookieSaves,  \* jobs that save a pasted cookie
  SignOuts,     \* jobs that sign out
  Visits        \* bound: how often the screen is opened

Savers == Logins \cup KeySaves \cup CookieSaves
Look == "look"        \* LaunchedEffect: the status when the screen opens
Jobs == Savers \cup SignOuts \cup {Look}
Old == "old"          \* a cookie saved earlier
Nothing == "nothing"
Files == Savers \cup {Old}  \* what an inode holds: each save writes its own

ASSUME JobsAssumption ==
  /\ Savers \cap (SignOuts \cup {Look, Old, Nothing}) = {}
  /\ SignOuts \cap {Look, Old, Nothing} = {} /\ Visits \in Nat

VARIABLES
  credentials,  \* the file of that name, or Nothing
  tmp,          \* the file named credentials.tmp, or Nothing
  content,      \* how much of each file is written
  pc, ok,       \* per job: where it is, and what its call returned
  seen,         \* per job: the status it has read, while it has still to show it
  open, busy, status,  \* the screen; its state is lost when it is left
  here,         \* the jobs of the screen that is open
  visits,
  met,          \* savers that were in save_root beside another
  overlapped    \* a job began beside another since none was running

disk == <<credentials, tmp, content, met>>
screen == <<open, busy, status, here, visits, overlapped>>
vars == <<disk, pc, ok, seen, screen>>

InSaveRoot == {"open", "write", "rename"}
Native == {"ask", "unlink", "out"} \cup InSaveRoot
Steps == {"idle", "read", "show", "ended"} \cup Native
Modes == {"anonymous", "S3", "cookie"}
Unread == ""

Saving == {s \in Savers : pc[s] \in InSaveRoot}
Live == {j \in Jobs : pc[j] \notin {"idle", "ended"}}

\* dlm_ia_load: no file, and one that does not parse, mean anonymous.
Loaded == IF credentials # Nothing /\ content[credentials] = "whole" THEN credentials ELSE Nothing
Mode(f) == IF f = Nothing THEN "anonymous" ELSE IF f \in KeySaves THEN "S3" ELSE "cookie"

Init ==
  /\ credentials \in {Nothing, Old} /\ tmp = Nothing
  /\ content = [f \in Files |-> IF f = Old THEN "whole" ELSE "part"]
  /\ pc = [j \in Jobs |-> "idle"] /\ ok = [j \in Jobs |-> FALSE]
  /\ seen = [j \in Jobs |-> "anonymous"]
  /\ open = FALSE /\ busy = FALSE /\ status = Unread /\ here = {} /\ visits = 0
  /\ met = {} /\ overlapped = FALSE

---------------------------------------------------------------------------
(* The screen *)

Goto(j, p) == pc' = [pc EXCEPT ![j] = p]

Enter ==
  /\ ~open /\ visits < Visits
  /\ open' = TRUE /\ visits' = visits + 1
  /\ here' = {Look}
  /\ Goto(Look, "read") /\ overlapped' = (Live # {})
  /\ UNCHANGED <<disk, ok, seen, busy, status>>

\* The coroutines of the screen are cancelled.  One in a native call returns
\* from it first; a call that was not dispatched yet never begins.
Leave ==
  /\ open
  /\ open' = FALSE /\ busy' = FALSE /\ status' = Unread /\ here' = {}
  /\ \E unstarted \in SUBSET {j \in here : pc[j] \in {"ask", "unlink", "out"}} :
       pc' = [j \in Jobs |-> IF pc[j] \in {"read", "show"} \/ j \in unstarted
                             THEN "ended" ELSE pc[j]]
  /\ seen' = [j \in Jobs |-> "anonymous"]
  /\ UNCHANGED <<disk, ok, visits, overlapped>>

\* The three Save buttons wait for one another; Sign out waits for nobody.
PressSave(s) ==
  /\ open /\ ~busy /\ pc[s] = "idle"
  /\ busy' = TRUE /\ here' = here \cup {s}
  /\ Goto(s, IF s \in Logins THEN "ask" ELSE "unlink") /\ overlapped' = (Live # {})
  /\ UNCHANGED <<disk, ok, seen, open, status, visits>>

PressSignOut(o) ==
  /\ open /\ pc[o] = "idle"
  /\ here' = here \cup {o}
  /\ Goto(o, "out") /\ overlapped' = (Live # {})
  /\ UNCHANGED <<disk, ok, seen, open, busy, status, visits>>

\* The native call of j returns r; who was left behind stops here.
Returns(j, r) ==
  /\ Goto(j, IF j \in here THEN "read" ELSE "ended")
  /\ ok' = [ok EXCEPT ![j] = r]
  /\ UNCHANGED <<seen, screen>>

ReadsStatus(j) ==
  /\ pc[j] = "read"
  /\ seen' = [seen EXCEPT ![j] = Mode(Loaded)]
  /\ Goto(j, "show")
  /\ UNCHANGED <<disk, ok, screen>>

ShowsStatus(j) ==
  /\ pc[j] = "show"
  /\ status' = seen[j] /\ seen' = [seen EXCEPT ![j] = "anonymous"]
  /\ busy' = (busy /\ j \notin Savers)
  /\ Goto(j, "ended")
  /\ UNCHANGED <<disk, ok, open, here, visits, overlapped>>

---------------------------------------------------------------------------
(* dlm_ia_login_password, dlm_ia_save_s3, dlm_ia_save_cookie and save_root *)

\* archive.org answers with a session, or with anything else, or not at all.
Answered(s) ==
  /\ pc[s] = "ask"
  /\ \/ Goto(s, "unlink") /\ UNCHANGED <<ok, seen, screen>>
     \/ Returns(s, FALSE)
  /\ UNCHANGED disk

\* A control character in the value: nothing is touched.
Refused(s) == pc[s] = "unlink" /\ Returns(s, FALSE) /\ UNCHANGED disk

UnlinksTmp(s) ==
  /\ pc[s] = "unlink"
  /\ tmp' = Nothing
  /\ Goto(s, "open")
  /\ met' = met \cup (IF Saving = {} THEN {} ELSE Saving \cup {s})
  /\ UNCHANGED <<credentials, content, ok, seen, screen>>

\* O_EXCL: a temporary file that is there is not reused.
CreatesTmp(s) ==
  /\ pc[s] = "open" /\ tmp = Nothing
  /\ tmp' = s
  /\ Goto(s, "write")
  /\ UNCHANGED <<credentials, content, met, ok, seen, screen>>
\* When fdopen fails, the file stays behind.
CreateFails(s) ==
  /\ pc[s] = "open"
  /\ tmp' = tmp \/ (tmp = Nothing /\ tmp' = s)
  /\ Returns(s, FALSE)
  /\ UNCHANGED <<credentials, content, met>>

WritesTmp(s) ==
  /\ pc[s] = "write"
  /\ content' = [content EXCEPT ![s] = "whole"]
  /\ Goto(s, "rename")
  /\ UNCHANGED <<credentials, tmp, met, ok, seen, screen>>

\* What could not be written or renamed is unlinked, by its name.
WriteErrorMissed(s) ==
  /\ pc[s] = "write"
  /\ Goto(s, "rename")
  /\ UNCHANGED <<disk, ok, seen, screen>>
WriteFails(s) ==
  /\ pc[s] = "write"
  /\ tmp' = Nothing
  /\ Returns(s, FALSE)
  /\ UNCHANGED <<credentials, content, met>>

RenamesTmp(s) ==
  /\ pc[s] = "rename" /\ tmp # Nothing
  /\ credentials' = tmp /\ tmp' = Nothing
  /\ Returns(s, TRUE)
  /\ UNCHANGED <<content, met>>
RenameFails(s) ==
  /\ pc[s] = "rename"
  /\ tmp' = Nothing
  /\ Returns(s, FALSE)
  /\ UNCHANGED <<credentials, content, met>>

\* dlm_ia_logout
SignsOutUnseen(o) ==
  /\ pc[o] = "out"
  /\ credentials' = Nothing
  /\ Goto(o, "ended") /\ ok' = [ok EXCEPT ![o] = TRUE]
  /\ UNCHANGED <<tmp, content, met, seen, screen>>
SignsOut(o) ==
  /\ pc[o] = "out"
  /\ credentials' = Nothing
  /\ Returns(o, TRUE)
  /\ UNCHANGED <<tmp, content, met>>

\* The process dies: the files stay as they are.
Crash ==
  /\ pc' = [j \in Jobs |-> IF j \in Live THEN "ended" ELSE pc[j]]
  /\ open' = FALSE /\ busy' = FALSE /\ status' = Unread /\ here' = {}
  /\ seen' = [j \in Jobs |-> "anonymous"]
  /\ UNCHANGED <<disk, ok, visits, overlapped>>

---------------------------------------------------------------------------

Next ==
  \/ Enter \/ Leave \/ Crash
  \/ \E j \in Jobs : ReadsStatus(j) \/ ShowsStatus(j)
  \/ \E o \in SignOuts : PressSignOut(o) \/ SignsOut(o)
  \/ \E s \in Savers :
       \/ PressSave(s) \/ Answered(s) \/ Refused(s) \/ UnlinksTmp(s)
       \/ CreatesTmp(s) \/ CreateFails(s) \/ WritesTmp(s) \/ WriteFails(s)
       \/ RenamesTmp(s) \/ RenameFails(s)

Spec == Init /\ [][Next]_vars

---------------------------------------------------------------------------
(* Properties *)

\* Every variable has its type (checked as part of StatusHonest).
TypeOK ==
  /\ {credentials, tmp} \subseteq Files \cup {Nothing}
  /\ content \in [Files -> {"part", "whole"}]
  /\ pc \in [Jobs -> Steps] /\ ok \in [Jobs -> BOOLEAN] /\ seen \in [Jobs -> Modes]
  /\ {open, busy, overlapped} \subseteq BOOLEAN /\ status \in Modes \cup {Unread}
  /\ here \subseteq Jobs /\ visits \in 0 .. Visits /\ met \subseteq Savers

\* What a step of save_root by s, and a sign-out, may do to what the app would
\* load: all of it in the step that reports success, nothing before or else.
SavedBy(s) == ~ok[s] /\ ok'[s]
Atomic(S) ==
  /\ \A s \in S : SavedBy(s) => Loaded' = s
  /\ Loaded' # Loaded =>
       \/ \E s \in S : SavedBy(s)
       \/ \E o \in SignOuts : ~ok[o] /\ ok'[o] /\ Loaded' = Nothing

\* "Persist credentials (atomically ...)" (iaauth.h:37): a save that fails, or
\* that the end of the process cuts off, leaves the credentials alone, and one
\* that reports success has replaced them, except by a saver that was in
\* save_root beside another.
SavesAtomic == [][(\E s \in met : pc'[s] # pc[s] /\ pc[s] \in InSaveRoot) \/ Atomic(Savers \ met)]_vars

\* When nothing goes on, the screen says how the next request will sign in,
\* unless two of its jobs ran at once and showed their readings out of order.
StatusHonest ==
  /\ TypeOK
  /\ open /\ Live = {} /\ ~overlapped => status = Mode(Loaded)
=============================================================================
