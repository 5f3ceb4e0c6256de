# A TLA+ development of the Training-Demos apps

The repository is a collection of iOS apps in Swift, each in a directory of its
own and independent of the others. This directory holds TLA+ models of the apps
that keep state, TLC runs on small instances, and TLAPS proofs. File names below
are relative to `src/`. Everything under a `Pods/` directory is third-party code
and is not modelled.

## 1. Inventory

| App | State it keeps | Operations | Hard behaviour |
| --- | --- | --- | --- |
| `BookStore` | Core Data context and store, image files, the list's array, the form's three arrays of image names | refresh, add, edit, delete a book; pick and delete pictures; save; relaunch | failing saves, a loop that saves once per deleted picture, lookups by file name, a form that stays usable for a second after it was saved |
| `FirebasePractise` (session) | the signed-in user of Firebase Auth, the `login` and `userID` defaults, the global `userID`, the root screen | log in, sign up, Google sign-in, log out, launch | answers of the network that arrive after the screen is gone, two requests in flight, a kill between two writes of the defaults |
| `FirebasePractise` (fruits) | the documents of `fruits`, Firestore's local queue of writes, the list, the open form | list, add, edit, delete | answers applied after a later change, a form that is saved twice, a user who changes under an open screen |
| `FirebasePractise` (details, students) | documents with an image or a PDF in Storage | list, add, edit, delete, upload, download | several steps of which one fails, images left behind, cells that are reused while an image is on its way |
| `ApiDemo` | the array of places with their weather | load, reload | the array is filled on a background thread while the table reads it |
| `TblCollDemo` | an array shown by a table and by a collection | move, delete, edit, refresh | the array and the table must agree on the number of rows |
| `PickerViewDemo` | three fields, a wheel, a date picker, a progress bar | choose, done, cancel, switch fields | Done before anything was chosen, a wheel that stops after it was closed, two handlers shared by two fields |
| `MapWebDemo` | pins on a map | locate, geocode | none: nothing is read back |
| `Local Notification Demo` | the permission and one pending notification | ask, schedule, present | a kill between two of its closures |
| `notiDemo` | pending notifications and categories | set up, fire, act | registrations that replace each other |
| `CollDemo` | a certificate pin, a collection | check a server, lay out | the hash that is pinned |
| `SplitViewDemo`, `PageViewDemo`, `Demp App`, `TabBarDemo`, `iPadSwiftUI` | the current page, tab or item | choose | none |

How parts interact. In `BookStore` the list and the form share the managed object
context and nothing else: the form never calls the list, which learns of a change
only by a pull to refresh or a relaunch. In `FirebasePractise` all screens share the
global `userID` (`Constant.swift`), the user defaults and the Firebase SDK; network
answers come back as closures on the main thread, in any order, and may find their
screen gone.

The storyboard of `FirebasePractise` holds the details and the students in navigation
controllers of their own, which no screen of the session opens; `DetailRecords`
starts where the list of the details is on the screen.

What makes each part correct:

* `BookStore`: every book keeps an image, an update stores what the form showed and
  touches no other book, a kill between two saves leaves a database the list can draw.
* session: the root screen, the two defaults, the global `userID` and the SDK agree on
  who is signed in, also after a kill.
* fruits: the settled list is what the user owns; a deleted fruit stays away, unless an
  answer that had it was already in the main queue; an edit never gives a fruit to
  somebody else.
* details: a document's picture exists, belongs to it alone, and a deleted document is
  not brought back by an upload that was under way.
* students: a deleted student stays deleted; a new one is stored as the form was when
  Add was tapped, unless that form was changed during the upload.
* `TblCollDemo`: table and array agree, row by row. `ApiDemo`: an answer is shown in the
  end.
* `PickerViewDemo`: the wheels show what Done would store, after Done or Cancel the
  selection is what the field shows, the bar follows its field.
* `notiDemo`, `Local Notification Demo`: every notification type has its actions; a
  launch that may notify does so, whatever the launch before was killed in.

## 2. Modules

| Module | Models | Role |
| --- | --- | --- |
| `BookStore` | the BookStore app | component |
| `BookShelf` | a shelf of books and a desk with pictures | abstract specification of `BookStore` |
| `BookStoreProofs` | | theorems about it |
| `FirebaseSession` | log in, sign up, log out, launch | component |
| `SignedInUser` | one user who signs in, stays over launches, signs out | abstract specification of `FirebaseSession` |
| `FirebaseSessionProofs` | | theorems about it |
| `FruitStore` | list and form of fruits, Firestore's queue | extends `FirebaseSession`: the two run together |
| `FruitStoreProofs` | | theorems about it |
| `QueueLemmas` | | facts about queues that the proofs share |
| `DetailRecords` | list and form of details, Storage, Firestore, several devices | component |
| `DetailRecordsProofs` | | theorems about it |
| `CellPictures` | pictures downloaded into the reused cells of the details | component |
| `CellPicturesProofs` | | theorem about it |
| `StudentRecords` | list and form of students, uploads, writes | component |
| `StudentRecordsProofs` | | theorems about it |
| `PickerForm` | the form of PickerViewDemo | component |
| `CompanyLists` | table and collection of TblCollDemo | component |
| `ApiList` | the request and the table of ApiDemo | component |
| `ScreenProofs` | | theorems about `PickerForm` and `CompanyLists` |
| `LocalNotice` | a launch of Local Notification Demo | component |
| `MeetingNotices` | the set up of notiDemo | component |
| `MCScreens` | | the components from `CellPictures` to `LocalNotice`, one at a time |
| `MC...` | | small instances for TLC |

Each of the four large modules has a constant `Env`, the set of things that may go wrong in an instance
(a save that throws, an answer that is lost, a user who does not wait). A run names
the ones it allows; the guards of the actions test them.

### BookStore

`ctx` is the managed object context and `store` the file behind it. A database is the
set of its books and, for each, the bag of the `img_url`s of its image rows.
`arrTblBooks` is the list's array, `rows` what the table view was last told;
`arrImages`, `arrUpdatedImages` and `arrRemoveImages` are the form's arrays, as bags,
because the order of pictures decides nothing. `popDue` is the pop that
`asyncAfter` has scheduled one second ahead, `alert` an alert on top of the screen.

Handlers run on the main thread, so a handler is one action, named after it:
`getBookRecords`, `cellForRowAt`, `click_onAddBtn`, `editAction`, `deleteAction`,
`editText`, `imagePickerController`, `Click_onDeleteBtn`, `click_onBackBtn`,
`saveRefused` (validation), `addBookRecord`, `updateBookRecord`, `popViewController`,
`closeAlert`, `launch`. The loop of `saveAndGoBack` saves once per deleted picture, so
it is a sequence of `removeImage` steps (`phase = "removing"`) ended by
`saveAndGoBack`, between which only `kill` can come. The code traps in two ways, which
are told apart: an array is indexed out of range (`app = "outOfRange"`), or the nil that
`try?` makes of a fetch that threw is unwrapped (`app = "nilUnwrapped"`, in
`deleteAction`, `updateBookRecord` and `removeImage`).

Abstractions: `book_id` is the identity of the object; whether name, author and
description are filled in is one Boolean; the image picker is modal and so atomic; a
row that was deleted but is still referenced by the in-memory relationship is not told
apart from one that was removed.

`ImplementsShelf` says that the app implements `BookShelf`. A book is on the shelf with
the pictures that its rows in the store name (`Stored`); the desk holds the names that
the form has taken and the store has not (`Unsaved`). Each save inside the loop of
`saveAndGoBack` maps to a `ChangeBook` of the edited book, opening, closing and listing
to stutters, and a kill to the desk being cleared, wherever it comes.

### FirebaseSession

`userID` is the global of `Constant.swift`, `login` and `savedID` the two user defaults,
`currentUser` the SDK's user (kept in the keychain), `screen` the root screen. A request
is a call in `Calls`: a tap starts it (`loginbtnclick`, `clickonsignup`,
`googlebtnclick`, `loginwithgooglebtnclick`), the SDK answers it (`serveAuth`,
`serveProfile`, `refuse`), its closure finishes it (`loginDone`, `loginFailed`,
`createUserDone`, `profileDone`, `googleDone`). `live` says whether the view controller
that made the call still exists: the closures use `self!`, `unowned` and forced casts.
With `"overlap"` the user goes on before the answer is there; with `"killMidWrite"` the
process may die between the two writes of the defaults in one closure.

Abstractions: an email is identified with its uid; alerts, prints and taps with empty
fields change nothing and are left out; the profile document in `users` is written and
never read by the app.

`ImplementsSignedIn` says that, for a user who waits for answers, the session implements
`SignedInUser`: `user` is the saved id while the login flag is set, `shown` the global
`userID` while the home screen is on. The writes of a sign up and the steps of the SDK
map to stutters or to `Register`, a kill to `GoAway`, a launch to `ComeBack`.

### FruitStore

`fruits` is the server's collection (a document is its `created_by`), `writes` the
queue of each user's device, which survives the process and is seen by the device's
own reads; `asked` are the queries under way. `getfruit` hands every answer to the main
queue once more (`DispatchQueue.main.async`, `DataManager.swift:139-142`), so an answer
is first in `hop` (`answer`) and reaches the list in a later step (`completion`), with
other handlers in between. A fruit that is deleted while it is in an answer in `hop` is
in the history `raced`: the answer brings its row back. `deleted` is the history of the
deletions that no later save has undone. `form` is the form that is open. `mine` marks the writes whose closure will
close it. `sessionBeside`, `sessionHome` and `sessionAway` are the steps of the session
that leave the home screen alone, show it anew, or take it away.

### DetailRecords

`docs` and `files` are the server's documents and Storage; per device there are the
`queue` of writes, the list `arrDetail`, the `query` and the `form`; `uploads` are
`putData`/`downloadURL` pairs under way and `removing` deletions asked of Storage.
Saving with a picked picture starts an upload (`saveUploads`), whose completion writes
the document (`urlDone`); without one it writes at once (`saveAtOnce`). The closures
hold their form, so they run after it was left, and read the name field when they run:
the name written is chosen at that moment. A record without a name is opened as a new
one, as the code does.

Abstractions: a file name is the time of the tap and assumed fresh; age, gender, marks
and time are left out; a second query while one is under way is merged with it. Its
answer hops through the main queue as that of the fruits does (`getDetail`, then
`getAlldetail`). The pictures in the cells are `CellPictures`.

### CellPictures

`url` is the list, `cellRow` and `cellImage` what each cell shows, `loads` the downloads
that will end in it: `cellForRowAt` starts one and never cancels the ones before; a row
without a picture starts none and leaves the old picture where it is. Downloads end in
any order and may fail (an error never calls the completion). `spoiled` is a history: the
download of the row that a cell shows failed, or ended before an older one of the cell.

### StudentRecords

As `DetailRecords`, for one device. `entry` is the form: one text for name and number,
and whether a board was chosen. An update writes at once with `updateData`; a new student
is written when the upload of the picture ends, with the fields as they are then
(`EntryNow`). Nothing is disabled during the upload: the user may go on typing, tap Add
again, or leave and open another form. `gone` is a history, and so are `tapped` and
`touched` of an upload: what the form contained at the tap, and whether that form was
changed since.

### PickerForm

The variables have the names of the code; `focus` is the field being edited, `wheelRow`
and `wheelDate` what the controls show, `turning` that the wheel still has to report its
row (`didSelectRow`), which it does when it stops and not when Done is tapped. `astray`
is a history: the fields that were left without Done or Cancel, and field 1 when its
wheel stopped after it was closed.

### CompanyLists

`tblList` and `collList` are the two `arrList`; `tblRows` and `collItems` are what UIKit
shows and counts. UIKit moves a dragged row by itself (`Dragged`) and the app changes its
array by `remove` and `insert` (`Moved`). `deleteRows` traps when the counts differ
(`companyApp = "crashed"`).

### ApiList

The append on the background thread is two steps, between which a count read by the main
thread is the old or the new one and drawing a row that is not there may trap: what the
data race can do, as a choice.

### LocalNotice and MeetingNotices

The notification centre is modelled from its use: pending requests, permission and
categories outlive the process, a request replaces the one with its identifier, and
`setNotificationCategories` replaces all categories. `kill...` comes between any two
closures of a launch. `add` may answer with an error, which the code prints
(`localApp = "addFailed"`).

## 3. Runs

| Run | Instance | Shows |
| --- | --- | --- |
| `book_disk` | 2 books, 4 pictures, fetches and file writes fail, kills | `EveryBookHasImage`, `NoSharedImage`, `CleanContext`, `Coherent` (the inductive invariant), `SavedAsShown`, `OthersUntouched`; only a list left stale by a failed fetch is indexed out of range (`OnlyStaleListOutOfRange`); a started update returns to the list (`SaveLeadsHome`); refinement of the shelf (`ImplementsShelf`) |
| `book_faulty` | 2 books, 2 pictures, everything fails, repeated saves | `TypeOK`; each book that the list or the form holds is in the context, so that no lookup by `book_id` comes back empty (`LookupsFind`) |
| `book_save_fails` | saves may throw | **violation** of `EveryBookHasImage`, finding 1 |
| `session_signup` | the profile write may fail | **violation** of `FailedSignupStays`, finding 2 |
| `fruit_ordinary` | 2 users, 2 fruits, the user waits, repeated saves, failed sign out, kills | `ListMatchesStore`, `DeletedStaysDeleted`, `ListSettles`; `SessionConsistent`, `SessionInv`; refinement of the signed-in user (`ImplementsSignedIn`) |
| `fruit_faults` | 1 fruit, all faults but overlapping calls | `FruitTypeOK`, `SessionTypeOK`, `OwnerStable` |
| `fruit_hasty` | 1 fruit, 2 overlapping calls | `OwnedByAccount`, `RootMatchesLogin`, `LoginImpliesSavedUser` |
| `detail_shared` | 2 devices, 1 document, 2 pictures, kills | `ImageBehindUrl`, `DeletedStaysGone` |
| `detail_faults` | 1 device, 2 documents, 2 pictures, all faults | `DetailTypeOK`, `NoSharedPicture`, `DeletedStaysGone` |
| `detail_edit` | 1 device, nothing fails | **violation** of `NeverTraps`, finding 3 |
| `screens` | six small components, one at a time | cells: `SettledCellShowsItsRow`, `OwnPictureComes`; picker: `WheelShowsSelection`, `SelectionMatchesText`, `ConfirmedDateStays`, `BarMatchesText`; companies: `RowsMatchArrays`; api: `AnswerShown`; notification: `LaunchNotifies`; students: `DeletedStudentGone`, `StoredAsTapped` |
| `notice_types` | the set up of notiDemo | **violation** of `TypesRegistered`, finding 4 |

Some properties hold only under part of the faults, which is itself a result:
`LoginImpliesSavedUser` fails with `"killMidWrite"` (the sign up sets the login flag
before the user id), `ImageBehindUrl` fails with `"writeFails"` (the picture is deleted
although the deletion of its document is refused), and `SessionConsistent` and
`ImplementsSignedIn` fail with `"overlap"`. `ListMatchesStore` and `ListSettles` are
claimed without failing queries: a failed one is never repeated and leaves the list as it
was. `OnlyStaleListOutOfRange` speaks of indices only: with failing fetches the app also
traps on the nil of a lookup.

Others name in their formula what the code does not exclude. A settled list may show a
fruit that was deleted while an answer was in the main queue (`raced`). A settled cell
may show the picture of another row when its own row has none, or when the row's download
failed or overtook an older one (`spoiled`). A student is stored with other texts than
the tapped ones when the form was changed during the upload (`touched`). What is selected
in the picker form differs from the text after a field was left without Done or Cancel,
or when the wheel stopped late (`astray`). A launch shows no notification when `add`
answers with an error.

Behaviour that the models contain and no run calls wrong, because nothing in the
repository says otherwise: Done before a date was ever chosen traps
(`PickerForm.doneTraps`); Done while the wheel still turns stores the row before; an
update of a student clears the board unless a button is tapped again; a student without
a name opens as a new one and is saved beside itself.

`screens` puts six components that share nothing into one run: `front` is chosen in the
initial state and only that component acts, so its states are the sum of theirs. Nothing
that a fairness condition names is enabled in the initial state of a component that does
not act. Deadlock is not checked there: an app that trapped, or a list that got its only
answer, stops.

**Bounds.** `MaxStamp` bounds the pictures ever taken: two books with one picture each
plus two more picked and deleted while editing (4) is the smallest instance in which a
form can add, keep and remove at once beside another book; 2 or 3 suffice for the other
runs. `MaxRows` (2) lets a repeated save store a name twice. Two users are enough for
one to be mistaken for the other, and calls are anonymous, so two or three overlap in
every way that matters. `MaxWrites` and `MaxGets` bound queues: length 2 lets a save
and a deletion, or a save and its repetition, be under way together. In
`detail_shared` one document is contested by two devices, with a picture and its
replacement. In `screens` one cell with three downloads is
used for two rows in every order; three companies are the fewest in which a row is
dragged over another past a third; `Marks = 3` tells the first, the last and another row
apart; the four texts are a number in range, one below, one above and none; one student
who is added, deleted and edited from a stale row, and one upload, under which the form
is changed, left, or followed by another one, are what the two properties of the students
speak of; several uploads of one form are left to the proof. `StudentRecords` holds one write at a time.
Sets of model values are symmetric where no liveness is checked.

**Fairness.** `BookStore.FairSpec` assumes that a handler that has begun runs to its end
(`removeImage`, `saveAndGoBack`) and that the main queue runs the block given to
`asyncAfter` (`popViewController`). `FruitStore.FairSpec` assumes that a query is
answered (Firestore answers from its cache when there is no network) and that the main
queue runs what it was given. `CellFairness`: every download ends, since requests time
out. `ApiFairness`: the closure runs to its end and the main thread lays out and reloads.
`LocalFairness`: the system answers for the settings and five seconds pass. Nothing is
assumed of users, of the network's answers to
a log in, or of writes reaching the server.

## 4. Proofs

`BookStoreProofs`, for any number of books and pictures:

* `TypeCorrect`: `TypeOK` under every fault.
* `CoherentAlways`: `Coherent`, if no save throws and no form is saved twice
  (`QuietSaves`). `EveryBookHasImage` is not inductive: whether a deletion leaves a
  picture depends on what the form remembers. `Coherent` adds that names are unique over
  all books (`Sound`), how the form's three arrays account for the rows of its book
  (`FormOK`, `EditOK`), and the same inside the loop with what is still to delete
  (`LoopOK`). One lemma per handler that can disturb it.
* `ImagesAlways`, `NamesUnique`, `OthersSafe`, `UpdateSavesForm`: `EveryBookHasImage`,
  `NoSharedImage`, `OthersUntouched`, `SavedAsShown`, from `Coherent`.
* `ContextClean` and `ListSafe`: `CleanContext` and `OnlyStaleListOutOfRange`, also from
  it.
* `LookupsAlwaysFind`: `LookupsFind` under every fault. A deletion takes its book out of
  the list, and no form is open behind the list (`LookupInv`).
* `AppImplementsShelf`: `ImplementsShelf`, under `QuietSaves`. Besides `Coherent` the
  mapping of a save inside the loop needs that the store differs from the context by the
  new pictures of the edited book at most (`StoreBehind`). One lemma per kind of step of
  the shelf: `PickStep`, `DropStep`, `PutStep`, `ChangeStep`, `TakeStep`.

`FirebaseSessionProofs`, for any number of users and calls:

* `SessionTypeCorrect` and `RootAlwaysMatches`: under every hazard, overlapping calls and
  kills between two writes included.
* `SessionInvAlways` and `SessionAlwaysConsistent`: for a user who waits and a process
  not killed inside a closure (`Patient`). `SessionConsistent` needs to know, before the
  home screen appears, that the call about to finish is the only one and that the SDK
  already has its user (`CallPart`).
* `LaunchFindsUser`: `LoginImpliesSavedUser` with overlapping calls, if the process is not
  killed inside a closure. `AccountInv` follows the user from the answer of the SDK, over
  the global `userID`, into the defaults.
* `SessionRefinesSignedIn`: `ImplementsSignedIn` for a `Patient` user, from `SessionInv`
  and `AccountInv`, case by case.

`FruitStoreProofs`, for any number of users and fruits and queues of any length:

* `FruitRunsSession`: the composed app runs the session (`Spec => SessionSpec`), which
  brings every theorem about the session here.
* `FruitTypeCorrect`: `FruitTypeOK` under every fault.
* `FruitsOwnedByAccounts`: `OwnedByAccount`, without kills inside a closure; the writes
  in the queues have owners as well (`OwnedInv`).
* `OwnersNeverChange`: `OwnerStable`, without overlapping calls. `OwnerInv` says that
  everything that can lead to a write of a fruit (document, queued write, row, answer,
  form) names the same user.
* `ListAlwaysMatches`: `ListMatchesStore`, when no query and no write fails and no calls
  overlap (`ListEnv`). The invariant speaks of the newest answer in the main queue, or of
  the list if there is none (`Newest`): once no query is under way it is the user's
  fruits up to races, and the main queue uses answers in order (`ListInv`).
* `DeletedAlwaysStaysAway`: `DeletedStaysDeleted`, when no write is refused, no calls
  overlap and no closure is interrupted (`DeleteEnv`). It follows what each user sees
  through the own queue, and what is in the list, the form and the answers
  (`DeletedInv`).

`DetailRecordsProofs`, for any number of devices, documents and pictures:

* `DetailTypeCorrect` and `DetailDeletedForGood`: `DetailTypeOK` and `DeletedStaysGone`
  under every fault. Only a `setData` could bring a document back; there is one for each
  document, and while it waits in its queue no other device knows the document and a
  deletion can only stand behind it (`SetInv`).
* `PicturesNeverShared`: `NoSharedPicture` under every fault. `OwnPictures` says that
  all urls of a picture, in documents, queues, lists, answers and forms, belong to one
  document, and that an upload under way has a picture nobody names.
* `PicturesBehindUrls`: `ImageBehindUrl` if no write is refused. A document whose
  picture is gone or going is deleted or has its deletion queued (`FileInv`).

`CellPicturesProofs`: `SettledAlwaysShowsItsRow`. The picture of the row is in the cell,
or it is the last download of the line, unless the cell is spoiled or the row has none
(`OnItsWay`).

`StudentRecordsProofs`: `DeletedStudentAlwaysGone`, from every id in a document, a write,
a row, an answer or the form being made before and a `setData` having one that nobody
deleted (`KeysMade`); `AlwaysStoredAsTapped`, from the uploads that still read their form
having it on the screen, so that opening another form changes nothing for them
(`TappedInv`).

`ScreenProofs`: the four properties of `PickerForm`, for any number of rows and dates;
`RowsAlwaysMatch`, for every list of companies, from `MovedIsDragged` (`remove` and
`insert` with the indices of UIKit give the list that UIKit shows).
`SelectionAlwaysMatchesText` rests on the tag being that of the field with the focus
(`TagIsFocus`) and on what Cancel would go back to being the text (`CancelMatchesText`).

Every inductive invariant was also checked by TLC, on instances like those of the runs.
The assumptions on constants (`NoBookAssumption`, `BoundAssumption`, `UserAssumption`,
`MarkerConstants`, `PickerAssumption`, ...) say that the special values are not ordinary
ones (a text that is no number is not an integer, "no document" is no document) and that
bounds are numbers. `Patient`, `QuietSaves`, `ListEnv` and `DeleteEnv` restrict the faults
of an instance and stand in the theorems that need them; the runs of section 3 satisfy
them where they check the property.

Only model-checked: the liveness properties (`SaveLeadsHome`, `ListSettles`,
`OwnPictureComes`, `AnswerShown`, `LaunchNotifies`), because fairness is beyond the
prover. Every other property of a passing run is a theorem.

## 5. Findings

1. `BookStore`: when `context.save()` throws for a new book, the book stays in the
   context and the form stays in the state "add". A second tap adds a second book with
   the same image names; removing a picture from one may delete the other's last one,
   and the list traps on `arrImg[0]` (`AddBookVC.swift:113`, `ViewController.swift:113`).
2. Session: the closure of `setData` in the sign up tests the `error` of the closure
   around it, so a failed profile write is never noticed (`SignupVC.swift:55`).
3. Details: a record added without a picture traps when it is opened for editing
   (`passDataVC.swift:65`), although the list expects such records.
4. `notiDemo`: both set up functions "register the notification type", but
   `setNotificationCategories` replaces what was registered before; the actions of the
   meeting notification are never offered (`notiDemo/ViewController.swift:80`).

## 6. Not modelled

Vendored code under `Pods/`, which is nearly all of the repository's lines and none of its
own logic; layout, colours, fonts and alerts' texts. `MapWebDemo` adds pins and prints
addresses and reads nothing back, so no order of the geocoder's answers can matter. The
other apps marked `not_modelled` in `PROJECT.json` show fixed data and keep no state that
could go wrong. `getoneDetail`, `getonestudent`, `getonefruit` and `uploadPDFFile` of
`DataManager`, and two of the three request functions of `ApiDemo`, are called by
nothing. Liveness, and the fate of writes on a network that never comes back, are not
proved.

## 7. Plan

1. `BookStore`, `FirebaseSession`, `FruitStore`, `DetailRecords`. *Done.*
2. Students, reused cells, `TblCollDemo`, `PickerViewDemo`, `ApiDemo`, the two
   notification apps. *Done.*
3. Abstract specifications and refinements, checked by TLC. *Done.*
4. Proofs of every safety property and of both refinements. *Done.*
5. Left: weaker hypotheses on the faults. `DeletedAlwaysStaysAway` assumes that no write
   is refused and `OwnersNeverChange` that no calls overlap; the runs assume the same.
