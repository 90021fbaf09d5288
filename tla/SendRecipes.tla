---------------------------- MODULE SendRecipes ----------------------------
(***************************************************************************)
(* The send service: sixteen kinds of message over one SendMessage.        *)
(*                                                                         *)
(* Every one of them but SendList begins with ConnectedClient (Session);   *)
(* five repeat the whole message when the socket dropped under it.         *)
(***************************************************************************)
EXTENDS RequestSteps

(***************************************************************************)
(* SendMessage.  The quoted message is decoded, or replaced by its text.   *)
(* The recipient is looked up on WhatsApp, unless that is switched off or  *)
(* it is no person; a failed look-up does not stop the message.            *)
(***************************************************************************)
CheckUserExists == <<Opt(Retry(Session)), Opt(Ignore(Ask)), Opt(Invalid)>>
ValidateMessageFields == <<Parse>>

\* the client is read from the map again, whatever Session returned; with a
\* delay, "composing" and "paused" go first
TakeClient == <<Reread, Opt(Retry(Ask)), Opt(Retry(Ask))>>

\* the types of message that can quote, and those that need not
QuotedContext == <<Opt(Invalid)>>
PlainContext  == <<Opt(Invalid)>>

\* a group whose members are all mentioned is asked for them
Mentions == <<Opt(Retry(Ask))>>

\* the message, with the id of the request or a fresh one; the receipt row
Transmission(id) == <<Retry(SendAs(id)), Ignore(Save), Own>>

\* with its file, fetched back; encoding what was just built does not fail
SendEvents == <<Opt(Ignore(Ask)), Emit>>

SendMessage(id) ==
  <<Ignore(Invalid)>> \o CheckUserExists \o ValidateMessageFields \o TakeClient
    \o QuotedContext \o PlainContext \o Mentions \o Transmission(id) \o SendEvents

-----------------------------------------------------------------------------
\* with the number of attempts of each ...WithRetry
SendTextWithRetry(id) == <<Session>> \o SendMessage(id)
SendText == Attempts(3, SendTextWithRetry("id"))

\* the page and its picture are fetched again with each attempt
FetchLinkMetadata == <<Opt(Again(Fetch))>>
SendLink ==
  Attempts(3, <<Session>> \o FetchLinkMetadata \o <<Opt(Again(Fetch))>> \o SendMessage("id"))

\* audio is converted by ffmpeg or by a service
ConvertAudioWithApi == <<Opt(Local)>>
ConvertAudioToOpus  == <<Opt(Local)>>
ConvertAudio        == ConvertAudioWithApi \o ConvertAudioToOpus

\* a file of a type that is not sent, or a document to a newsletter
FileType   == <<Invalid>> \o ConvertAudio \o <<Opt(Invalid)>>
UploadFile == <<Ask>>
SendMediaFile == Attempts(3, <<Session>> \o FileType \o UploadFile \o SendMessage("id"))

UrlType   == <<Fetch, Invalid>> \o ConvertAudio \o <<Opt(Invalid)>>
UploadUrl == <<Ask>>
SendMediaUrl == Attempts(3, <<Session>> \o UrlType \o UploadUrl \o SendMessage("id"))

SendPoll == Attempts(3, <<Session>> \o SendMessage("id"))

-----------------------------------------------------------------------------
(***************************************************************************)
(* The others send once.                                                   *)
(***************************************************************************)
ConvertToWebP    == <<Opt(Local)>>
FetchStickerData == <<Fetch>>
SendSticker ==
  Once(<<Session>> \o FetchStickerData \o ConvertToWebP \o <<Ask>> \o SendMessage("id"))

SendLocation == Once(<<Session>> \o SendMessage("id"))
SendContact  == Once(<<Session>> \o SendMessage("id"))

\* which buttons go together; the picture or video above them is left out when it fails
ButtonKinds  == <<Invalid>>
ButtonHeader == <<Opt(Ignore(Fetch)), Opt(Ignore(Ask))>>
SendButton   == Once(<<Session>> \o ButtonKinds \o ButtonHeader \o SendMessage("id"))

\* nothing asks for a session here
SendList == Once(SendMessage("id"))

CarouselRecipient == <<Opt(Invalid)>>
CarouselCards     == Each(Opt(Ignore(Fetch))) \o Each(Opt(Ignore(Ask)))
SendCarousel ==
  Once(<<Session>> \o CarouselRecipient \o CarouselCards \o SendMessage("id"))

(***************************************************************************)
(* An event with a text is two messages: the text, as SendText sends it    *)
(* and never with the id of the request, and the event.                    *)
(***************************************************************************)
SendEvent ==
  Once(<<Session>>) \o May(3, SendTextWithRetry("")) \o Once(<<Invalid>> \o SendMessage("id"))

ProductImageBytes == <<Fetch>>
SendProduct ==
  Once(<<Session, Invalid>> \o ProductImageBytes \o <<Ask, Opt(Invalid)>> \o SendMessage("id"))

-----------------------------------------------------------------------------
(***************************************************************************)
(* A status goes to status@broadcast without SendMessage, once.            *)
(***************************************************************************)
SendStatusWebhook == <<Emit>>
SendStatusText == Once(<<Session, Invalid, SendAs("id"), Own>> \o SendStatusWebhook)

SendStatusMedia == <<Invalid, Ask, SendAs("id"), Own>> \o SendStatusWebhook
SendStatusMediaUrl  == Once(<<Session, Invalid, Fetch>> \o SendStatusMedia)
SendStatusMediaFile == Once(<<Session, Invalid>> \o SendStatusMedia)
=============================================================================
