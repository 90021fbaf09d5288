--------------------------- MODULE AccountRecipes ---------------------------
(***************************************************************************)
(* What the services do that manage an account through its client: chats,  *)
(* calls, communities, groups, labels, messages, newsletters, polls, the   *)
(* profile and the contacts.  One definition per function of the code.     *)
(*                                                                         *)
(* Each starts with ensureClientConnected of its service (Client).         *)
(***************************************************************************)
EXTENDS RequestSteps

-----------------------------------------------------------------------------
\* chat_service: each sends a mutation of the app state
ChatPin       == Once(<<Client, Invalid, Act>>)
ChatUnpin     == Once(<<Client, Invalid, Act>>)
ChatArchive   == Once(<<Client, Invalid, Act>>)
ChatUnarchive == Once(<<Client, Invalid, Act>>)
ChatMute      == Once(<<Client, Invalid, Act>>)
ChatUnmute    == Once(<<Client, Invalid, Act>>)
\* a message to the own phone
HistorySyncRequest == Once(<<Client, Act>>)

\* call_service
RejectCall == Once(<<Client, Act>>)

-----------------------------------------------------------------------------
(***************************************************************************)
(* community_service: a group that cannot be linked is reported in the     *)
(* answer, and the next one is tried.                                      *)
(***************************************************************************)
CreateCommunity == Once(<<Client, Act>>)
CommunityAdd    == Once(<<Client, Invalid>> \o Each(Ignore(Act)))
CommunityRemove == Once(<<Client, Invalid>> \o Each(Ignore(Act)))

-----------------------------------------------------------------------------
\* newsletter_service
CreateNewsletter      == Once(<<Client, Act>>)
\* the details of each are asked for; the short form stands in for missing ones
ListNewsletter        == Once(<<Client, Ask>> \o Each(Ignore(Ask)))
GetNewsletter         == Once(<<Client, Ask>>)
GetNewsletterInvite   == Once(<<Client, Ask>>)
SubscribeNewsletter   == Once(<<Client, Act>>)
GetNewsletterMessages == Once(<<Client, Ask>>)

-----------------------------------------------------------------------------
\* label_service
ChatLabel      == Once(<<Client, Invalid, Act>>)
MessageLabel   == Once(<<Client, Invalid, Act>>)
EditLabel      == Once(<<Client, Act>>)
ChatUnlabel    == Once(<<Client, Invalid, Act>>)
MessageUnlabel == Once(<<Client, Invalid, Act>>)
\* the labels come from the database; the client is asked for all the same
GetLabels      == Once(<<Client, Local>>)

-----------------------------------------------------------------------------
(***************************************************************************)
(* message_service.  The envelope of a reaction has an id of its own, so   *)
(* that WhatsApp does not take it for a repetition of the message.         *)
(***************************************************************************)
React == Once(<<Client, Parse, Send, Own>>)
\* available first; then the state, which is kept up and ended while it lasts
ChatPresence ==
  Once(<<Client, Parse, Ignore(Ask), Ask>> \o Each(Opt(Ignore(Ask))))
SubscribePresence     == Once(<<Client, Parse, Act>>)
MarkRead              == Once(<<Client, Parse, Act>>)
MarkPlayed            == Once(<<Client, Parse, Act>>)
DownloadMedia         == Once(<<Client, Invalid, Local, Ask>>)
GetMessageStatus      == Once(<<Client, Local>>)
DeleteMessageEveryone == Once(<<Client, Invalid, Send>>)
EditMessage           == Once(<<Client, Invalid, Send>>)

-----------------------------------------------------------------------------
\* group_service
ListGroups          == Once(<<Client, Ask>>)
GetGroupInfo        == Once(<<Client, Invalid, Ask>>)
\* with reset, the old link stops working
GetGroupInviteLink  == Once(<<Client, Invalid, Act>>)
SetGroupPhoto       == Once(<<Client, Invalid, Local, Act>>)
SetGroupName        == Once(<<Client, Invalid, Act>>)
SetGroupDescription == Once(<<Client, Invalid, Act>>)
\* the participants of the new group are read back, and a failure of that is the answer
CreateGroup         == Once(<<Client, Parse, Act, Ask>>)
UpdateParticipant   == Once(<<Client, Parse, Act>>)
GetMyGroups         == Once(<<Client, Ask, Own>>)
JoinGroupLink       == Once(<<Client, Act>>)
LeaveGroup          == Once(<<Client, Act>>)
UpdateGroupSettings == Once(<<Client, Invalid, Act>>)

-----------------------------------------------------------------------------
(***************************************************************************)
(* user_service.  Its ensureClientConnected waits for the started client   *)
(* as long as clientReadyWait, instead of looking once after two seconds.  *)
(***************************************************************************)
GetUser   == Once(<<Client, Parse, Ask>>)
\* a failed question is answered 200 without users; not found with formatJid: once more
CheckUser == Once(<<Client, Ignore(Local), Ignore(Ask), Opt(Ignore(Ask))>>)
GetAvatar == Once(<<Client, Local, Parse, Ask>>)
GetContacts == Once(<<Client, Local>>)

(***************************************************************************)
(* When the app state of the contacts is out of step, it is fetched anew   *)
(* and the change tried once more.  When that fails too, the phone is      *)
(* asked to send it: the request fails, and has changed something.         *)
(***************************************************************************)
SaveContact == Once(<<Client, Parse, Invalid>>) \o Attempts(2, <<Late(Act), Again(Act)>>)

GetPrivacy == Once(<<Client, Ignore(Ask)>>)
\* seven settings, one after the other
SetPrivacy == Once(<<Client>> \o Each(Act) \o <<Ignore(Ask)>>)
BlockContact  == Once(<<Client, Parse, Act>>)
UnlockContact == Once(<<Client, Parse, Act>>)
GetBlockList  == Once(<<Client, Ask>>)
SetProfilePicture == Once(<<Client, Local, Act>>)
\* the store of the device follows
SetProfileName    == Once(<<Client, Act, Ignore(Save)>>)
SetProfileStatus  == Once(<<Client, Act>>)

(***************************************************************************)
(* ResolveLid: the number of a LID from the store; when it is not there    *)
(* and the request names a group, the group is asked and the store read    *)
(* again.  A wrong or unknown LID and a wrong group are answered 4xx.      *)
(***************************************************************************)
ResolveLid ==
  Once(<<Client, Refuse(Invalid), Local, Opt(Refuse(Invalid)), Opt(Ignore(Ask)), Opt(Local),
         Refuse(Local)>>)

-----------------------------------------------------------------------------
\* poll_service: the votes of a poll, counted
GetPollResults == Once(<<Local>>)
\* receipt_repository
Find == Once(<<Local>>)
\* message_repository: the counters of the dashboard; a failure leaves them out
GetStats == Once(<<Ignore(Local)>>)
=============================================================================
