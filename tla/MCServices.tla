----------------------------- MODULE MCServices -----------------------------
(***************************************************************************)
(* The five services of the panel side by side, for TLC: each keeps its    *)
(* own documents, and they share only the processes that serve them.       *)
(* Every element of Uses holds operations of one service, so that a        *)
(* behaviour is one of that service.                                       *)
(***************************************************************************)
EXTENDS GoogleIntegration, StoredFiles, Accounts, WhatsApp, Channels, TLC

googleState == <<integ, owner, rows, calendar, used, call,
                 overtaken, strayed, unstored, shaken, crossed, cancelled>>
filesState == <<doc, unborn, store, config, work, torn, blind>>
accountsState == <<user, business, configured, token, drawn, job, founders,
                   stranded, unsettled>>
whatsAppState == <<name, status, instance, hooked, visit, astray, late>>

channelsState == <<channel, lives, forward, traffic, served, stray>>

vars == <<use, googleState, filesState, accountsState, whatsAppState,
          channelsState>>

Init == GoogleInit /\ FilesInit /\ AccountsInit /\ WhatsAppInit /\ ChannelsInit

Next ==
  \/ /\ GoogleNext
     /\ UNCHANGED <<filesState, accountsState, whatsAppState, channelsState>>
  \/ /\ FilesNext
     /\ UNCHANGED <<googleState, accountsState, whatsAppState, channelsState>>
  \/ /\ AccountsNext
     /\ UNCHANGED <<googleState, filesState, whatsAppState, channelsState>>
  \/ /\ WhatsAppNext
     /\ UNCHANGED <<googleState, filesState, accountsState, channelsState>>
  \/ /\ ChannelsNext
     /\ UNCHANGED <<googleState, filesState, accountsState, whatsAppState>>

Spec == Init /\ [][Next]_vars

\* Every variable of the services has its type.
ServicesTypeOK ==
  GoogleTypeOK /\ FilesTypeOK /\ AccountsTypeOK /\ WhatsAppTypeOK /\ ChannelsTypeOK

\* The ids of two services share their model values (Account, Email, Ext and
\* Page; Event and User; Sheet and Token), which keeps the group small.
Interchangeable ==
  Permutations(Req) \cup Permutations(Account) \cup Permutations(Event)
    \cup Permutations(Sheet)
=============================================================================
