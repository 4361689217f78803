------------------------------- MODULE Images -------------------------------
(***************************************************************************)
(* The images of listings, tiles, categories, cities and users: a column   *)
(* of a row holds the URL of a file in the object store, and the handlers  *)
(* that upload, replace and delete it touch row and store in separate      *)
(* steps (the controllers of core, city and users, libs/storage).          *)
(*                                                                         *)
(* The module follows one column of one row, of any kind, under            *)
(* concurrent requests; every action is the code between two awaits.  A    *)
(* file's key is made of the row's id and the extension of the processed   *)
(* image, webp or svg, so that a key is an extension here.  What the       *)
(* handlers take for the key of an old image is cut out of its URL, whose  *)
(* form depends on the configured endpoint.  A listing's gallery is rows   *)
(* of their own, each with a file named after the millisecond of its       *)
(* upload and its place in it; it is followed instead of a column when     *)
(* kind is "gallery".                                                      *)
(***************************************************************************)
EXTENDS Integers, FiniteSets

CONSTANTS
    Requests,    \* concurrent requests
    MaxRequests, \* bound: requests in a behaviour
    MaxClock,    \* bound: milliseconds in which files are uploaded
    MaxFiles,    \* bound: files of one upload (10 in the code)
    MaxFailures  \* bound: failed calls of the store or the database, crashes

ASSUME ImagesAssumption == {MaxRequests, MaxClock, MaxFiles, MaxFailures} \subseteq Nat

VARIABLES
    kind,       \* which column it is
    pathStyle,  \* the endpoint's host is a single label (a local MinIO)
    exists,     \* the row is there
    url,        \* the column: the key its URL names, or "none"
    files,      \* keys that exist in the store
    pc, old, ext,    \* each request: control, image it read, extension it writes
    conflict,   \* history: requests overlapped that were not alike
    media, stored,   \* the gallery: rows [by, key], and keys in the store
    clock,           \* the current millisecond
    file, target,    \* each request: its file <<millisecond, place>>, its rows
    moments,    \* history: milliseconds and places of the uploads
    left, failures   \* what remains of the bounds

rowVars   == <<exists, url>>
boundVars == <<left, failures>>
gallery   == <<media, stored, clock, file, target, moments>>
imageVars == <<kind, pathStyle, exists, url, files, pc, old, ext, conflict, media,
               stored, clock, file, target, moments, left, failures>>

Exts == {"webp", "svg"}

\* A listing without a hero image shows this file, which all of them share.
Placeholder == "placeholder"

CityImages == {"cityHeader", "cityDarkLogo", "cityLightLogo"}
CategoryImages == {"categoryImage", "categoryIcon"}
CityCategoryImages == {"cityCategoryImage", "cityCategoryIcon"}
TileImages == {"tileBackground", "tileIcon"}
Kinds == {"listingHero", "profilePhoto", "gallery"} \cup CityImages \cup CategoryImages
         \cup CityCategoryImages \cup TileImages

Stages == {"idle", "replace", "upload", "write", "remove", "clear", "purge", "drop",
           "storeMedia", "createMedia", "eraseMedia", "forgetMedia"}

NoFile == <<0, 0>>

ImagesInit ==
    /\ kind \in Kinds
    /\ pathStyle \in BOOLEAN
    /\ exists = TRUE
    /\ url = "none"
    /\ files = {Placeholder}
    /\ pc = [r \in Requests |-> "idle"]
    /\ old = [r \in Requests |-> "none"]
    /\ ext = [r \in Requests |-> "none"]
    /\ conflict = FALSE
    /\ media = {} /\ stored = {} /\ moments = {}
    /\ clock = 1
    /\ file = [r \in Requests |-> NoFile]
    /\ target = [r \in Requests |-> {}]
    /\ left = MaxRequests
    /\ failures = MaxFailures

Failure == failures > 0 /\ failures' = failures - 1 /\ UNCHANGED left

Goto(r, label) == pc' = [pc EXCEPT ![r] = label]

\* Slip: the extension stays.
FinishButExt(r) ==
    /\ Goto(r, "idle")
    /\ old' = [old EXCEPT ![r] = "none"]
    /\ ext' = ext

Finish(r) ==
    /\ Goto(r, "idle")
    /\ old' = [old EXCEPT ![r] = "none"]
    /\ ext' = [ext EXCEPT ![r] = "none"]

-----------------------------------------------------------------------------
(* The store                                                               *)

\* The files that go when the key cut out of k's URL is deleted.  Public URLs
\* carry the bucket in the host unless the host is a single label, but the
\* first segment of the path is cut off as the bucket in any case; the store
\* does not mind a key it does not have.  The placeholder's URL never carries
\* the bucket in its path.
KeysDeleted(k) == IF pathStyle THEN {k} \ {Placeholder} ELSE {}

\* Errors of the store are logged and swallowed.
DeleteFile(k) ==
    \/ files' = files \ KeysDeleted(k) /\ UNCHANGED boundVars
    \/ Failure /\ UNCHANGED files

\* Two requests are alike that write to the same key.
Unlike(r, label, x) ==
    \E q \in Requests \ {r} : pc[q] # "idle" /\ (ext[q] # x \/ label # "replace")

Start(r, label, k, x) ==
    /\ pc[r] = "idle"
    /\ exists
    /\ left > 0
    /\ left' = left - 1
    /\ Goto(r, label)
    /\ old' = [old EXCEPT ![r] = k]
    /\ ext' = [ext EXCEPT ![r] = x]
    /\ conflict' = (conflict \/ Unlike(r, label, x))
    /\ UNCHANGED <<kind, pathStyle, rowVars, files, gallery, failures>>

-----------------------------------------------------------------------------
(* Uploads: the row is read, the image validated and converted             *)

\* The request sees the placeholder as the listing's image if it has none.
UploadHeroImage(r) ==
    /\ kind = "listingHero"
    /\ \E x \in Exts :
          Start(r, "replace", IF url = "none" THEN Placeholder ELSE url, x)

UploadTileBackground(r) ==
    kind = "tileBackground" /\ \E x \in Exts : Start(r, "replace", url, x)

UploadTileIcon(r) ==
    kind = "tileIcon" /\ \E x \in Exts : Start(r, "replace", url, x)

UploadCityHeader(r) ==
    kind = "cityHeader" /\ \E x \in Exts : Start(r, "replace", url, x)

UploadDarkLogo(r) ==
    kind = "cityDarkLogo" /\ \E x \in Exts : Start(r, "replace", url, x)

UploadLightLogo(r) ==
    kind = "cityLightLogo" /\ \E x \in Exts : Start(r, "replace", url, x)

UploadCategoryImage(r) ==
    kind = "categoryImage" /\ \E x \in Exts : Start(r, "replace", url, x)

UploadCategoryIcon(r) ==
    kind = "categoryIcon" /\ \E x \in Exts : Start(r, "replace", url, x)

UploadCityCategoryImage(r) ==
    kind = "cityCategoryImage" /\ \E x \in Exts : Start(r, "replace", url, x)

UploadCityCategoryIcon(r) ==
    kind = "cityCategoryIcon" /\ \E x \in Exts : Start(r, "replace", url, x)

\* A user's old photo is not deleted.
UploadProfilePhoto(r) ==
    kind = "profilePhoto" /\ \E x \in Exts : Start(r, "replace", "none", x)

\* Slip: the old file is kept, as the new one will overwrite it.
KeepOld(r) ==
    /\ pc[r] = "replace"
    /\ Goto(r, "upload")
    /\ UNCHANGED <<kind, pathStyle, rowVars, files, old, ext, conflict, gallery, boundVars>>

\* Slip: the old image is deleted after the new one has been stored.
DeleteOldLast(r) ==
    /\ pc[r] = "replace"
    /\ files' = (files \cup {ext[r]}) \ KeysDeleted(old[r])
    /\ Goto(r, "write")
    /\ UNCHANGED <<kind, pathStyle, rowVars, old, ext, conflict, gallery, boundVars>>

DeleteOld(r) ==
    /\ pc[r] = "replace"
    /\ DeleteFile(old[r])
    /\ Goto(r, "upload")
    /\ UNCHANGED <<kind, pathStyle, rowVars, old, ext, conflict, gallery>>

StoreFile(r) ==
    /\ pc[r] = "upload"
    /\ files' = files \cup {ext[r]}
    /\ Goto(r, "write")
    /\ UNCHANGED <<kind, pathStyle, rowVars, old, ext, conflict, gallery, boundVars>>

\* The update fails if the row has been deleted meanwhile.
WriteUrl(r) ==
    /\ pc[r] = "write"
    /\ url' = IF exists THEN ext[r] ELSE url
    /\ Finish(r)
    /\ UNCHANGED <<kind, pathStyle, exists, files, conflict, gallery, boundVars>>

-----------------------------------------------------------------------------
(* Deletions of an image; without one they do nothing or are refused       *)

HasImage == url # "none"

DeleteHeroImage(r) ==
    kind = "listingHero" /\ HasImage /\ Start(r, "remove", url, "none")

DeleteCityHeader(r) ==
    kind = "cityHeader" /\ HasImage /\ Start(r, "remove", url, "none")

DeleteDarkLogo(r) ==
    kind = "cityDarkLogo" /\ HasImage /\ Start(r, "remove", url, "none")

DeleteLightLogo(r) ==
    kind = "cityLightLogo" /\ HasImage /\ Start(r, "remove", url, "none")

DeleteCategoryImage(r) ==
    kind = "categoryImage" /\ HasImage /\ Start(r, "remove", url, "none")

DeleteCategoryIcon(r) ==
    kind = "categoryIcon" /\ HasImage /\ Start(r, "remove", url, "none")

DeleteCityCategoryImage(r) ==
    kind = "cityCategoryImage" /\ HasImage /\ Start(r, "remove", url, "none")

DeleteCityCategoryIcon(r) ==
    kind = "cityCategoryIcon" /\ HasImage /\ Start(r, "remove", url, "none")

RemoveFile(r) ==
    /\ pc[r] = "remove"
    /\ DeleteFile(old[r])
    /\ Goto(r, "clear")
    /\ UNCHANGED <<kind, pathStyle, rowVars, old, ext, conflict, gallery>>

ClearUrl(r) ==
    /\ pc[r] = "clear"
    /\ url' = IF exists THEN "none" ELSE url
    /\ Finish(r)
    /\ UNCHANGED <<kind, pathStyle, exists, files, conflict, gallery, boundVars>>

-----------------------------------------------------------------------------
(* Deletions of the row                                                    *)

DeleteTile(r) ==
    kind \in TileImages /\ Start(r, "purge", url, "none")

\* Of a category no listing is in.
DeleteCategory(r) ==
    kind \in CategoryImages /\ Start(r, "purge", url, "none")

PurgeFile(r) ==
    /\ pc[r] = "purge"
    /\ DeleteFile(old[r])
    /\ Goto(r, "drop")
    /\ UNCHANGED <<kind, pathStyle, rowVars, old, ext, conflict, gallery>>

DropRow(r) ==
    /\ pc[r] = "drop"
    /\ exists' = FALSE
    /\ url' = "none"
    /\ Finish(r)
    /\ UNCHANGED <<kind, pathStyle, files, conflict, gallery, boundVars>>

\* The daily clean-up of expired events leaves their files.
ExpireListing ==
    /\ kind \in {"listingHero", "gallery"}
    /\ exists
    /\ exists' = FALSE
    /\ url' = "none"
    /\ media' = {}
    /\ UNCHANGED <<kind, pathStyle, files, pc, old, ext, conflict, stored, clock, file,
                   target, moments, boundVars>>

-----------------------------------------------------------------------------
(* The gallery of a listing                                                *)

UploadMedia(r) ==
    /\ kind = "gallery"
    /\ pc[r] = "idle"
    /\ exists
    /\ left > 0
    /\ left' = left - 1
    /\ Goto(r, "storeMedia")
    /\ UNCHANGED <<kind, pathStyle, rowVars, files, old, ext, conflict, gallery, failures>>

\* Slip: the key of a file is its place in the upload.
MediaKeyByPlace(i) == <<1, i>>

MediaKey(i) == <<clock, i>>

\* Two files stored in the same millisecond at the same place have one key.
StoreMedia(r) ==
    LET i == file[r][2]
    IN  /\ pc[r] = "storeMedia"
        /\ stored' = stored \cup {MediaKey(i)}
        /\ file' = [file EXCEPT ![r] = MediaKey(i)]
        /\ moments' = moments \cup {<<clock, i>>}
        /\ conflict' = (conflict \/ <<clock, i>> \in moments)
        /\ Goto(r, "createMedia")
        /\ UNCHANGED <<kind, pathStyle, rowVars, files, old, ext, media, clock,
                       target, boundVars>>

\* A row of a listing that is gone is refused.  The next file follows, or
\* the answer.
CreateListingMedia(r) ==
    LET i == file[r][2]
    IN  /\ pc[r] = "createMedia"
        /\ media' = IF exists THEN media \cup {[by |-> r, key |-> file[r]]} ELSE media
        /\ \/ /\ exists /\ i + 1 < MaxFiles
              /\ Goto(r, "storeMedia")
              /\ file' = [file EXCEPT ![r] = <<0, i + 1>>]
           \/ /\ Goto(r, "idle")
              /\ file' = [file EXCEPT ![r] = NoFile]
        /\ UNCHANGED <<kind, pathStyle, rowVars, files, old, ext, conflict, stored,
                       clock, target, moments, boundVars>>

\* Of one row or of several: all must be found.
DeleteListingMedia(r) ==
    /\ kind = "gallery"
    /\ pc[r] = "idle"
    /\ left > 0
    /\ left' = left - 1
    /\ \E M \in SUBSET media \ {{}} : target' = [target EXCEPT ![r] = M]
    /\ Goto(r, "eraseMedia")
    /\ UNCHANGED <<kind, pathStyle, rowVars, files, old, ext, conflict, media, stored,
                   clock, file, moments, failures>>

\* The files go one after the other, in one step here: the rows still stand.
\* Errors are logged and swallowed.
EraseMedia(r) ==
    /\ pc[r] = "eraseMedia"
    /\ \/ /\ pathStyle
          /\ stored' = stored \ {m.key : m \in target[r]}
          /\ UNCHANGED <<conflict, boundVars>>
       \/ /\ pathStyle
          /\ \E m \in target[r] : stored' = stored \ {x.key : x \in target[r] \ {m}}
          /\ Failure
          /\ UNCHANGED conflict
       \/ ~pathStyle /\ UNCHANGED <<stored, conflict, boundVars>>
    /\ Goto(r, "forgetMedia")
    /\ UNCHANGED <<kind, pathStyle, rowVars, files, old, ext, media, clock, file, target,
                   moments>>

ForgetMedia(r) ==
    /\ pc[r] = "forgetMedia"
    /\ media' = media \ target[r]
    /\ target' = [target EXCEPT ![r] = {}]
    /\ Goto(r, "idle")
    /\ UNCHANGED <<kind, pathStyle, rowVars, files, old, ext, conflict, stored, clock,
                   file, moments, boundVars>>

Tick ==
    /\ kind = "gallery"
    /\ clock < MaxClock
    /\ clock' = clock + 1
    /\ UNCHANGED <<kind, pathStyle, rowVars, files, pc, old, ext, conflict, media, stored,
                   file, target, moments, boundVars>>

\* A call of the store or the database fails, or the service crashes.
Fail(r) ==
    /\ pc[r] # "idle"
    /\ Failure
    /\ Finish(r)
    /\ file' = [file EXCEPT ![r] = NoFile]
    /\ target' = [target EXCEPT ![r] = {}]
    /\ UNCHANGED <<kind, pathStyle, rowVars, files, conflict, media, stored, clock,
                   moments>>

-----------------------------------------------------------------------------
Upload(r) ==
    \/ UploadHeroImage(r) \/ UploadTileBackground(r) \/ UploadTileIcon(r)
    \/ UploadCityHeader(r) \/ UploadDarkLogo(r) \/ UploadLightLogo(r)
    \/ UploadCategoryImage(r) \/ UploadCategoryIcon(r)
    \/ UploadCityCategoryImage(r) \/ UploadCityCategoryIcon(r)
    \/ UploadProfilePhoto(r)

Delete(r) ==
    \/ DeleteHeroImage(r) \/ DeleteCityHeader(r) \/ DeleteDarkLogo(r)
    \/ DeleteLightLogo(r) \/ DeleteCategoryImage(r) \/ DeleteCategoryIcon(r)
    \/ DeleteCityCategoryImage(r) \/ DeleteCityCategoryIcon(r)
    \/ DeleteTile(r) \/ DeleteCategory(r)

Step(r) ==
    \/ UploadMedia(r) \/ StoreMedia(r) \/ CreateListingMedia(r)
    \/ DeleteListingMedia(r) \/ EraseMedia(r) \/ ForgetMedia(r)
    \/ DeleteOld(r) \/ StoreFile(r) \/ WriteUrl(r) \/ RemoveFile(r)
    \/ ClearUrl(r) \/ PurgeFile(r) \/ DropRow(r) \/ Fail(r)

ImagesNext ==
    \/ \E r \in Requests : Upload(r) \/ Delete(r) \/ Step(r)
    \/ ExpireListing
    \/ Tick

ImagesSpec == ImagesInit /\ [][ImagesNext]_imageVars

-----------------------------------------------------------------------------
(* Properties                                                              *)

\* Types; a request has an extension exactly while it uploads.
ImagesTypeOK ==
    /\ kind \in Kinds
    /\ {pathStyle, exists, conflict} \subseteq BOOLEAN
    /\ url \in Exts \cup {"none"}
    /\ files \subseteq Exts \cup {Placeholder}
    /\ pc \in [Requests -> Stages]
    /\ old \in [Requests -> Exts \cup {Placeholder, "none"}]
    /\ ext \in [Requests -> Exts \cup {"none"}]
    /\ \A r \in Requests : ext[r] # "none" <=> pc[r] \in {"replace", "upload", "write"}
    /\ media \subseteq [by : Requests, key : Nat \X Nat]
    /\ stored \cup moments \subseteq Nat \X Nat
    /\ clock \in Nat
    /\ file \in [Requests -> Nat \X Nat]
    /\ target \in [Requests -> SUBSET [by : Requests, key : Nat \X Nat]]
    /\ left \in 0..MaxRequests
    /\ failures \in 0..MaxFailures

\* A row that shows an image has its file, unless a request that has deleted
\* the file is about to write the row.
RowHasFile ==
    url # "none" /\ url \notin files =>
        \E r \in Requests : pc[r] \in {"upload", "write", "clear", "drop"}

\* So has every picture of a gallery, unless its row is about to be deleted too.
MediaHaveFiles ==
    \A m \in media : m.key \in stored \/ \E r \in Requests : pc[r] = "forgetMedia" /\ m \in target[r]

\* The state is well typed, and no image is broken, unless a call failed, requests
\* overlapped that do not write to the same key, or two uploads stored a picture at
\* the same place in the same millisecond.  Two uploads of the same format may
\* overlap in any way.
NoBrokenImage ==
    /\ ImagesTypeOK
    /\ conflict \/ failures < MaxFailures \/ (RowHasFile /\ MediaHaveFiles)

\* With the bucket in the path nothing is left behind in the store: between
\* requests that did not fail or collide, the file of the row's image is the
\* only one.  Profile photos and expired listings do leave files.
NothingLeftBehind ==
    /\ pathStyle
    /\ kind # "profilePhoto"
    /\ kind = "listingHero" => exists
    /\ ~conflict
    /\ failures = MaxFailures
    /\ \A r \in Requests : pc[r] = "idle"
    => files \ {Placeholder} = {url} \ {"none"}
=============================================================================
