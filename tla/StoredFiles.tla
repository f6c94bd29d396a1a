----------------------------- MODULE StoredFiles ----------------------------
(***************************************************************************)
(* Documents that name a file in the object store: products and their      *)
(* image (products/), the catalogue in PDF (catalog-pdf/), and the QR code *)
(* of payments in the business configuration (tenant-config/), with the    *)
(* store itself (common/services/storage.service.ts).                      *)
(*                                                                         *)
(* A request reads the document, deletes its old file, uploads the new one *)
(* and saves the document: four awaits.  Mongoose saves only the fields    *)
(* that differ from what the request read, and fails on a document that is *)
(* gone.  Left out: every field that names no file (so also the update of  *)
(* a product without an image), the version of the configuration, and a    *)
(* store without credentials, in which nothing is ever uploaded.           *)
(***************************************************************************)
EXTENDS Requests

CONSTANTS
  Product,    \* ids of products, each used once (bounds the history)
  Ext         \* extensions of images

VARIABLES
  doc,        \* None or a Document, by item
  unborn,     \* products not created yet
  store,      \* files in the store: pairs of an item and an extension
  config,     \* the business configuration: None or a Config
  work,       \* None or a Work, by request
  torn,       \* history: items that two requests changed at once, one of whose
              \* requests died, or whose file the store did not delete
  blind       \* history: requests that read no QR before one was saved

filesVars == <<use, doc, unborn, store, config, work, torn, blind>>

\* The catalogue in PDF is one more item, with one file.
Item == Product \cup {"pdf"}

ExtOf(i) == IF i = "pdf" THEN {"pdf"} ELSE Ext

AnyExt == Ext \cup {"pdf"}

Document == [key : AnyExt \cup {None}]

Config == [qr : BOOLEAN]

\* had: the document existed; seen: the key it had; ext: of the new file.
\* pay, qr: the request writes the payment part, with a QR.
Work ==
  [op : {"create", "replace", "remove"}, at : {"delete", "upload", "save", "drop"},
   item : Item, ext : AnyExt \cup {None}, had : BOOLEAN,
   seen : AnyExt \cup {None}]
  \cup [op : {"config", "qr"}, at : {"read", "save"}, had : BOOLEAN,
        pay : BOOLEAN, qr : BOOLEAN]

ASSUME FilesAssumption ==
  /\ "pdf" \notin Product
  /\ None \notin AnyExt \cup Document \cup Config \cup Work

FilesInit ==
  /\ use \in Uses
  /\ doc = [i \in Item |-> None]
  /\ unborn = Product
  /\ store = {}
  /\ config = None
  /\ work = Idle
  /\ torn = {} /\ blind = {}

-----------------------------------------------------------------------------
(***************************************************************************)
(* Faulty variants, to show that the properties notice a slip.             *)
(***************************************************************************)
DeleteSkipped(op, seen) == "upload"

KeyNotSaved(d, w) == d

QrAsGiven(given, read) == given

-----------------------------------------------------------------------------
(***************************************************************************)
(* Files.                                                                  *)
(***************************************************************************)
FileOp == {"create", "replace", "remove"}

\* Requests that work on an item.
WorkersOf(i) ==
  {r \in Req : work[r] # None /\ work[r].op \in FileOp /\ work[r].item = i}

Handling(r, at) == work[r] # None /\ work[r].op \in FileOp /\ work[r].at = at

Proceed(r, at) == work' = [work EXCEPT ![r].at = at]

Finish(r) == work' = [work EXCEPT ![r] = None]

\* A document comes with no image; an image is uploaded after that.
CreateProduct(r, p, e) ==
  /\ work[r] = None
  /\ p \in unborn
  /\ unborn' = unborn \ {p}
  /\ doc' = [doc EXCEPT ![p] = [key |-> None]]
  /\ work' = IF e = None THEN work
             ELSE [work EXCEPT ![r] =
                    [op |-> "create", at |-> "upload", item |-> p, ext |-> e,
                     had |-> TRUE, seen |-> None]]
  /\ UNCHANGED <<store, config, torn, blind>>

\* An old file is deleted before anything else.
First(op, seen) ==
  IF seen # None THEN "delete" ELSE IF op = "remove" THEN "drop" ELSE "upload"

\* The findOne of a handler that replaces or removes the file of an item.
FindDocument(r, op, i, e) ==
  LET seen == IF doc[i] = None THEN None ELSE doc[i].key
  IN /\ work[r] = None
     /\ work' = [work EXCEPT ![r] =
          [op |-> op, at |-> First(op, seen), item |-> i, ext |-> e,
           had |-> doc[i] # None, seen |-> seen]]
     /\ torn' = IF WorkersOf(i) = {} THEN torn ELSE torn \cup {i}
     /\ UNCHANGED <<doc, unborn, store, config, blind>>

UpdateProduct(r, p, e) == doc[p] # None /\ FindDocument(r, "replace", p, e)

RemoveProduct(r, p) == doc[p] # None /\ FindDocument(r, "remove", p, None)

UpsertPdf(r) == FindDocument(r, "replace", "pdf", "pdf")

RemovePdf(r) == doc["pdf"] # None /\ FindDocument(r, "remove", "pdf", None)

\* The store deletes the file, or its error is only logged.
DeleteFile(r) ==
  LET w == work[r] IN
  /\ Handling(r, "delete")
  /\ \/ store' = store \ {<<w.item, w.seen>>} /\ UNCHANGED torn
     \/ torn' = torn \cup {w.item} /\ UNCHANGED store
  /\ Proceed(r, IF w.op = "remove" THEN "drop" ELSE "upload")
  /\ UNCHANGED <<doc, unborn, config, blind>>

UploadFile(r) ==
  /\ Handling(r, "upload")
  /\ store' = store \cup {<<work[r].item, work[r].ext>>}
  /\ Proceed(r, "save")
  /\ UNCHANGED <<doc, unborn, config, torn, blind>>

\* The document as a save leaves it: a key that did not change is not written.
Saved(d, w) == IF w.ext = w.seen THEN d ELSE [d EXCEPT !.key = w.ext]

\* A document that was read is saved, if it is still there; the catalogue's is
\* created, if nobody did that first.
SaveDocument(r) ==
  LET w == work[r]
      d == doc[w.item]
  IN /\ Handling(r, "save")
     /\ doc' = IF w.had
                 THEN IF d = None THEN doc
                      ELSE [doc EXCEPT ![w.item] = Saved(d, w)]
                 ELSE IF d = None THEN [doc EXCEPT ![w.item] = [key |-> w.ext]]
                      ELSE doc
     /\ Finish(r)
     /\ UNCHANGED <<unborn, store, config, torn, blind>>

DropDocument(r) ==
  /\ Handling(r, "drop")
  /\ doc' = [doc EXCEPT ![work[r].item] = None]
  /\ Finish(r)
  /\ UNCHANGED <<unborn, store, config, torn, blind>>

-----------------------------------------------------------------------------
(***************************************************************************)
(* The business configuration.                                             *)
(***************************************************************************)
Configuring(r, at) ==
  work[r] # None /\ work[r].op \in {"config", "qr"} /\ work[r].at = at

HasQr == config # None /\ config.qr

\* A request without a QR does not take away the one that it read.
Preserved(given, read) == given \/ read

\* upsert, up to its findOne.
UpsertConfig(r, pay, given) ==
  /\ work[r] = None
  /\ work' = [work EXCEPT ![r] =
       [op |-> "config", at |-> "save", had |-> config # None, pay |-> pay,
        qr |-> pay /\ Preserved(given, HasQr)]]
  /\ UNCHANGED <<doc, unborn, store, config, torn, blind>>

\* The file of the QR is uploaded; its key never changes.
UploadPaymentQr(r) ==
  /\ work[r] = None
  /\ work' = [work EXCEPT ![r] =
       [op |-> "qr", at |-> "read", had |-> FALSE, pay |-> TRUE, qr |-> TRUE]]
  /\ UNCHANGED <<doc, unborn, store, config, torn, blind>>

ReadConfig(r) ==
  /\ Configuring(r, "read")
  /\ work' = [work EXCEPT ![r].had = config # None, ![r].at = "save"]
  /\ UNCHANGED <<doc, unborn, store, config, torn, blind>>

\* Requests about to write a payment part without a QR.
Unaware ==
  {r \in Req : Configuring(r, "save") /\ work[r].had /\ work[r].pay /\ ~work[r].qr}

\* The payment part is written whole.  A second first document is refused.
SaveConfig(r) ==
  LET w == work[r] IN
  /\ Configuring(r, "save")
  /\ config' = IF w.had THEN IF w.pay THEN [qr |-> w.qr] ELSE config
               ELSE IF config = None THEN [qr |-> w.qr] ELSE config
  /\ blind' = (IF w.qr THEN blind \cup Unaware ELSE blind) \ {r}
  /\ Finish(r)
  /\ UNCHANGED <<doc, unborn, store, torn>>

\* A request dies: an error of the store or the database, or a restart.
FailWork(r) ==
  /\ work[r] # None
  /\ torn' = IF work[r].op \in FileOp THEN torn \cup {work[r].item} ELSE torn
  /\ blind' = blind \ {r}
  /\ Finish(r)
  /\ UNCHANGED <<doc, unborn, store, config>>

FilesStep(r) ==
  \/ "product" \in use /\ \E p \in Product :
       \/ \E e \in Ext \cup {None} : CreateProduct(r, p, e)
       \/ \E e \in Ext : UpdateProduct(r, p, e)
       \/ RemoveProduct(r, p)
  \/ "pdf" \in use /\ (UpsertPdf(r) \/ RemovePdf(r))
  \/ "businessConfig" \in use /\
       \/ \E pay, given \in BOOLEAN : UpsertConfig(r, pay, given)
       \/ UploadPaymentQr(r)
  \/ DeleteFile(r) \/ UploadFile(r) \/ SaveDocument(r) \/ DropDocument(r)
  \/ ReadConfig(r) \/ SaveConfig(r)
  \/ FailWork(r)

FilesNext == (\E r \in Req : FilesStep(r)) /\ UNCHANGED use

FilesSpec == FilesInit /\ [][FilesNext]_filesVars

-----------------------------------------------------------------------------
(***************************************************************************)
(* Properties.                                                             *)
(***************************************************************************)

\* Every variable has its type.
FilesTypeOK ==
  /\ use \in Uses
  /\ doc \in [Item -> Document \cup {None}]
  /\ unborn \subseteq Product
  /\ store \subseteq Item \X AnyExt
  /\ config \in Config \cup {None}
  /\ work \in [Req -> Work \cup {None}]
  /\ torn \subseteq Item /\ blind \subseteq Req

KeysOf(i) == IF doc[i] = None THEN {} ELSE {doc[i].key} \ {None}

\* When no request works on an item, its document names the one file that the
\* store has of it: no image is missing, and none is left behind.  Requests
\* that overlap on an item, die, or fail to delete may break this, as nothing
\* ties the store to the database.
FilesAgree ==
  \A i \in Item \ torn :
    WorkersOf(i) = {} => {e \in AnyExt : <<i, e>> \in store} = KeysOf(i)

\* A QR that was stored is not lost to a request without one
\* (tenant-config.service.ts:24), unless that request read the configuration
\* before the QR was saved, as it writes the whole payment part back.
QrKept ==
  [][HasQr => (HasQr' \/ \E r \in blind : work'[r] = None)]_filesVars
=============================================================================
