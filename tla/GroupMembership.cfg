SPECIFICATION Spec
SYMMETRY Sym
CONSTANTS
    User = {u1, u2, u3}
    Creator = u1
    Request = {r1, r2}
    NoUser = NoUser
    MaxUses = 1
    MaxRequests = 3
    MaxFaults = 1
INVARIANT TypeOK
INVARIANT CountMatches
INVARIANT BannedStaysOut
INVARIANT BanRespectsRank
INVARIANT InviteWithinUses
INVARIANT LossRotates
INVARIANT CacheFollowsRows
CHECK_DEADLOCK FALSE
