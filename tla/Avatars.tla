-------------------------------- MODULE Avatars --------------------------------
(***************************************************************************)
(* The pictures of the accounts (api/profile/avatar/route.ts,              *)
(* avatar-storage.ts): a file on the disk and the name of it in the        *)
(* account's row, changed by requests of several tabs that hold no lock,   *)
(* while the account may be deleted.  Every upload makes a file of a new   *)
(* name.                                                                   *)
(***************************************************************************)
EXTENDS Naturals

CONSTANTS
    User,
    Request,    \* requests under way at once
    MaxImages,  \* bound: pictures uploaded
    MaxFaults   \* bound: answers of the database that are lost

VARIABLES
    gone,     \* accounts deleted
    image,    \* the picture the account names, 0 when it names none
    files,    \* the pictures stored, each under its account
    unheard,  \* pictures whose update was made, but its answer lost
    request,
    images, faults

vars == <<gone, image, files, unheard, request, images, faults>>

Image == 0..MaxImages
Ready == [at |-> "ready", user |-> CHOOSE u \in User : TRUE, old |-> 0, new |-> 0]
Steps == {"ready", "storing", "stored", "updated", "clearing", "cleared"}

TypeOK ==
    /\ gone \subseteq User
    /\ image \in [User -> Image] /\ {files, unheard} \subseteq SUBSET (User \X Image)
    /\ request \in [Request -> [at : Steps, user : User, old : Image, new : Image]]
    /\ images \in Image /\ faults \in 0..MaxFaults

Init ==
    /\ gone = {} /\ image = [u \in User |-> 0] /\ files = {} /\ unheard = {}
    /\ request = [r \in Request |-> Ready] /\ images = 0 /\ faults = 0

Old(r) == <<request[r].user, request[r].old>>
New(r) == <<request[r].user, request[r].new>>
Goes(r, step) == request' = [request EXCEPT ![r].at = step]
Ends(r) == request' = [request EXCEPT ![r] = Ready]

\* POST: the session says which picture the account has.
Draw(r, u) ==
    /\ request[r].at = "ready" /\ u \notin gone /\ images < MaxImages
    /\ images' = images + 1
    /\ request' = [request EXCEPT ![r] = [at |-> "storing", user |-> u, old |-> image[u],
                                          new |-> images']]
    /\ UNCHANGED <<gone, image, files, unheard, faults>>

\* Mistake: the old picture makes room before the account names the new one.
StoreInPlace(r) ==
    /\ request[r].at = "storing"
    /\ files' = (files \ {Old(r)}) \cup {New(r)}
    /\ Goes(r, "stored")
    /\ UNCHANGED <<gone, image, unheard, images, faults>>

Store(r) ==
    /\ request[r].at = "storing"
    /\ files' = files \cup {New(r)}
    /\ Goes(r, "stored")
    /\ UNCHANGED <<gone, image, unheard, images, faults>>

\* DELETE: there is nothing to do without a picture.
Clear(r, u) ==
    /\ request[r].at = "ready" /\ u \notin gone /\ image[u] # 0
    /\ request' = [request EXCEPT ![r] = [at |-> "clearing", user |-> u, old |-> image[u],
                                          new |-> 0]]
    /\ UNCHANGED <<gone, image, files, unheard, images, faults>>

\* updateUserImage, for both; the session ends with the account.
Update(r) ==
    LET u == request[r].user
    IN /\ request[r].at \in {"stored", "clearing"} /\ u \notin gone
       /\ image' = [image EXCEPT ![u] = request[r].new]
       /\ Goes(r, IF request[r].at = "stored" THEN "updated" ELSE "cleared")
       /\ UNCHANGED <<gone, files, unheard, images, faults>>

\* It fails, or is made and its answer lost: the new picture is removed again.
UpdateFails(r) ==
    LET u == request[r].user
    IN /\ request[r].at \in {"stored", "clearing"}
       /\ \/ UNCHANGED <<image, unheard, faults>>
          \/ /\ u \notin gone /\ faults < MaxFaults
             /\ image' = [image EXCEPT ![u] = request[r].new]
             /\ unheard' = unheard \cup {New(r)}
             /\ faults' = faults + 1
       /\ files' = files \ {New(r)}
       /\ Ends(r)
       /\ UNCHANGED <<gone, images>>

\* The picture before is removed, or stays when that fails.
Forget(r) ==
    /\ request[r].at \in {"updated", "cleared"}
    /\ files' \in {files, files \ {Old(r)}}
    /\ Ends(r)
    /\ UNCHANGED <<gone, image, unheard, images, faults>>

\* The owner deletes the account; removeUserAvatars comes afterwards.
DeleteUser(u) ==
    /\ u \notin gone
    /\ gone' = gone \cup {u} /\ image' = [image EXCEPT ![u] = 0]
    /\ UNCHANGED <<files, unheard, request, images, faults>>

RemoveUserAvatars(u) ==
    /\ u \in gone
    /\ files' = {f \in files : f[1] # u}
    /\ UNCHANGED <<gone, image, unheard, request, images, faults>>

Next ==
    \/ \E r \in Request :
        \/ Store(r) \/ Update(r) \/ UpdateFails(r) \/ Forget(r)
        \/ \E u \in User : Draw(r, u) \/ Clear(r, u)
    \/ \E u \in User : DeleteUser(u) \/ RemoveUserAvatars(u)

Spec == Init /\ [][Next]_vars

-----------------------------------------------------------------------------
\* The picture an account names is stored, however uploads, removals and the
\* deletion of the account interleave (api/profile/avatar/route.ts:87-106); but
\* for an update whose answer was lost.
ImageExists == \A u \in User : image[u] # 0 => <<u, image[u]>> \in files \cup unheard
=============================================================================
