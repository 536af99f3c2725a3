SPECIFICATION MCSpec
CONSTANTS
    Users = {u1, u2, u3}
    Invites = {i1}
    Groups = {g1}
    Slots = {s1, s2}
    MaxCalls = 3
    OAuthExclusive = FALSE
    None = None
    CredSlots = {s1, s2}
    Devices = {d1}
    MaxFailed = 2
    MaxCredCalls = 4
    MaxPasswords = 3
SYMMETRY Symmetry
CHECK_DEADLOCK FALSE
INVARIANTS
    RegistrationHolds
    AdministratorsHold
    DeactivatedAreOut
    PasswordsHold
    SecondFactorHolds
