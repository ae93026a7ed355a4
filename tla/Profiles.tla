----------------------------- MODULE Profiles -----------------------------
(* A member's profile, preferences and photo: createProfile(),                *)
(* updateProfile(), updatePreferences(), uploadImage() and deleteImage(). Each *)
(* transaction locks the row it reads, so it is one step; an upload is        *)
(* several (module Pictures).                                                 *)
EXTENDS Pictures

CONSTANTS
    Cities,      \* the active cities, each with one area, named like the city
    NoArea,
    Ages         \* ages a preference may name

ASSUME ProfilesAssumption == NoArea \notin Cities /\ Ages \subseteq Nat \ {0}

VARIABLES
    profile,     \* the profile's city and area (NoProfile: none yet)
    prefs,       \* the age range and discovery_enabled (NoPrefs: none yet)
    underage,    \* underage_rejected_at is set
    badge,       \* the picture photo_verified_at was given for (NoPicture: null)
    onboarded    \* onboarding_completed_at is set

profileVars == <<profile, prefs, underage, badge, onboarded>>

NoProfile == [city |-> NoArea, area |-> NoArea]
NoPrefs == [min |-> 0, max |-> 0, discoverable |-> FALSE]

ProfilesInit ==
    /\ profile = NoProfile
    /\ prefs = NoPrefs
    /\ underage = FALSE
    /\ badge = NoPicture
    /\ onboarded = FALSE

\* assertValidLocation().
ValidLocation(city, area) == city \in Cities /\ area \in {NoArea, city}

\* computeCompletion(): every other required field is there from the start.
CompletionStatus(p, picture) ==
    CASE p = NoProfile -> "not_started"
      [] p # NoProfile /\ picture = NoPicture -> "incomplete"
      [] OTHER -> "complete"

\* syncOnboarding(), with what the transaction has written.
SyncOnboarding(p, picture) ==
    onboarded' = (onboarded \/ CompletionStatus(p, picture) = "complete")

-----------------------------------------------------------------------------
\* createProfile(), the user row locked. An adult's profile comes with the widest age range;
\* an under-age attempt is refused, and the refusal is committed.
MayCreateAgain == profile = NoProfile
MayCreateProfile == ~underage /\ profile = NoProfile

CreateProfile(city, area, adult) ==
    /\ MayCreateProfile
    /\ IF ~adult
       THEN underage' = TRUE /\ UNCHANGED <<profile, prefs, onboarded>>
       ELSE /\ ValidLocation(city, area)
            /\ profile' = [city |-> city, area |-> area]
            /\ \E min, max \in Ages :
                 /\ \A a \in Ages : min <= a /\ a <= max
                 /\ prefs' = [min |-> min, max |-> max, discoverable |-> FALSE]
            /\ SyncOnboarding(profile', image)
            /\ UNCHANGED underage
    /\ UNCHANGED <<badge, pictureVars>>

\* updateProfile(): a city or an area that is not given ("same") is kept, except that a new
\* city clears the area.
UpdateProfile(newCity, newArea) ==
    LET city == IF newCity = "same" THEN profile.city ELSE newCity
        area == CASE newArea # "same" -> newArea
                  [] newArea = "same" /\ city # profile.city -> NoArea
                  [] OTHER -> profile.area
    IN
    /\ profile # NoProfile
    /\ {newCity, newArea} # {"same"} => ValidLocation(city, area)
    /\ profile' = [city |-> city, area |-> area]
    /\ SyncOnboarding(profile', image)
    /\ UNCHANGED <<prefs, underage, badge, pictureVars>>

\* updatePreferences(): an age that is not given (0) is kept; the result must be a range.
UpdatePreferences(newMin, newMax, discoverable) ==
    LET min == IF newMin = 0 THEN prefs.min ELSE newMin
        max == IF newMax = 0 THEN prefs.max ELSE newMax
    IN
    /\ prefs # NoPrefs
    /\ min <= max
    /\ prefs' = [min |-> min, max |-> max, discoverable |-> discoverable]
    /\ UNCHANGED <<profile, underage, badge, onboarded, pictureVars>>

-----------------------------------------------------------------------------
(* The photo *)

UploadPhoto(fails) ==
    /\ profile # NoProfile
    /\ MediaUpload(fails)
    /\ UNCHANGED profileVars

\* The badge of the photo before goes with it: revokePhotoVerification().
SavePhoto(u) ==
    /\ SavePicture(u)
    /\ badge' = NoPicture
    /\ SyncOnboarding(profile, image')
    /\ UNCHANGED <<profile, prefs, underage>>

DeletePhoto ==
    /\ ClearPicture
    /\ badge' = NoPicture
    /\ UNCHANGED <<profile, prefs, underage, onboarded>>

\* An admin's photo check, which is outside this code base.
VerifyPhoto ==
    /\ image # NoPicture
    /\ badge' = image
    /\ UNCHANGED <<profile, prefs, underage, onboarded, pictureVars>>

ProfilesNext ==
    \/ \E city \in Cities : \E area \in Cities \cup {NoArea} : \E adult \in BOOLEAN :
          CreateProfile(city, area, adult)
    \/ \E city \in Cities \cup {"same"} : \E area \in Cities \cup {NoArea, "same"} :
          UpdateProfile(city, area)
    \/ \E min, max \in Ages \cup {0} : \E on \in BOOLEAN : UpdatePreferences(min, max, on)
    \/ \E fails \in BOOLEAN : UploadPhoto(fails)
    \/ \E u \in uploads : SavePhoto(u) \/ (SaveRefused(u) /\ UNCHANGED profileVars)
    \/ \E u \in uploads : \E fails \in BOOLEAN : DestroyQuietly(u, fails) /\ UNCHANGED profileVars
    \/ DeletePhoto \/ VerifyPhoto
    \/ StopUploads /\ UNCHANGED profileVars

-----------------------------------------------------------------------------
(* Properties *)

\* Whatever a member sends in which order: nobody who once gave an under-age date of birth has
\* a profile, the photo badge is only ever on the photo that was checked, the area lies in the
\* city, the age range is one, and nobody without a photo is onboarded who never had one
\* (profile.service.ts).
ProfileHonest ==
    /\ underage => profile = NoProfile
    /\ badge \in {NoPicture, image}
    /\ profile # NoProfile => ValidLocation(profile.city, profile.area)
    /\ prefs.min <= prefs.max
    /\ (profile = NoProfile) = (prefs = NoPrefs)
    /\ onboarded => uploaded > 0

=============================================================================
