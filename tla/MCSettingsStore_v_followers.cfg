SPECIFICATION Spec
CONSTANTS
    password = password
    secret = secret
    schedule = schedule
    Threads = {u1, u2}
    Fields <- TheFields
    Password = password
    Secret = secret
    Patches <- ThePatches
    Watched <- TheWatched
    Absent = Absent
    Half = Half
    NoOne = NoOne
    Boot = Boot
    MaxVersion = 4
    ListenersMayFail = FALSE
INVARIANT FollowersAgree
