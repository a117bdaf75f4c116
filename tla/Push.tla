-------------------------------- MODULE Push --------------------------------
(***************************************************************************)
(* internal/push: which sender takes a notification to a device, and what  *)
(* its error tells the caller: ErrTokenInvalid, on which callers delete    *)
(* rows, or any other, which they count, log or retry.                     *)
(*                                                                         *)
(* External: the answers of Expo, APNs and FCM.  A refusal of the          *)
(* gateway's own doing (its credentials, the topic, the payload) or of the *)
(* moment (throttling, an outage) has the same status for every token.     *)
(***************************************************************************)
CONSTANTS Platform,    \* the platform of each device
          ExpoTokens,  \* devices whose token is an Expo push token
          Configured   \* which of the native senders "apns" and "fcm" there are

Native == [ios |-> "apns", android |-> "fcm"]

\* MultiSender.Send: who sends to device d, "nobody" without an error when the platform's
\* sender is not configured, "unsupported" for web and unknown platforms.
Route(d) ==
    IF Platform[d] \notin DOMAIN Native THEN "unsupported"
    ELSE IF d \in ExpoTokens THEN "expo"
    ELSE IF Native[Platform[d]] \in Configured THEN Native[Platform[d]] ELSE "nobody"

Refusals == {[code |-> 400, why |-> "BadTopic"], [code |-> 403, why |-> "credentials"],
             [code |-> 404, why |-> "BadPath"], [code |-> 429, why |-> "throttled"],
             [code |-> 503, why |-> "outage"]}
Taken    == [code |-> 200, why |-> "none"]

\* What the provider may say of a valid and of an invalid token.  Expo reports an invalid
\* one in the ticket inside a 200.
Answers(sender, valid) ==
    Refusals \cup
    IF valid \/ sender = "expo" THEN {Taken}
    ELSE IF sender = "apns" THEN {[code |-> 410, why |-> "Unregistered"],
                                  [code |-> 400, why |-> "BadDeviceToken"]}
    ELSE {[code |-> 404, why |-> "NOT_FOUND"], [code |-> 404, why |-> "UNREGISTERED"]}

\* APNsSender.Send and FCMSender.Send: which answers are ErrTokenInvalid.
TokenInvalidMutByCode(sender, a) ==
    \/ sender = "apns" /\ (a.code = 410 \/ a.why \in {"Unregistered", "BadDeviceToken"})
    \/ sender = "fcm" /\ a.code = 404
TokenInvalid(sender, a) ==
    \/ sender = "apns" /\ (a.code = 410 \/ a.why \in {"Unregistered", "BadDeviceToken"})
    \/ sender = "fcm" /\ a.why \in {"UNREGISTERED", "NOT_FOUND"}

Verdict(sender, a) ==
    IF a.code = 200 THEN "sent" ELSE IF TokenInvalid(sender, a) THEN "invalid" ELSE "error"

\* What Send may return for device d: also an error without any answer of the provider.
Outcomes(d, valid) ==
    CASE Route(d) = "unsupported" -> {"error"}
      [] Route(d) = "nobody"      -> {"sent"}
      [] OTHER -> {"error"} \cup {Verdict(Route(d), a) : a \in Answers(Route(d), valid)}
=============================================================================
