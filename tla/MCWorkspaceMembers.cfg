SPECIFICATION MembersSpec
CONSTANTS
  olga = olga
  alan = alan
  root = root
  invite1 = invite1
  invite2 = invite2
  request1 = request1
  request2 = request2
  person1 = person1
  person2 = person2
  notice1 = notice1
  None = None
  Users <- MCUsers
  Owner = olga
  Admins <- MCAdmins
  Invites <- MCInvites
  Invitee <- MCInvitee
  Requests <- MCRequests
  MaxCalls = 6
  MaxStops = 1
  People <- MCPeople
  Nobody = Nobody
  NoticeIds <- MCNoticeIds
  NoticeAttempts = 2
  MaxProfileNews = 2
  MaxMishaps = 2
  Persons <- MCPersons
  NoPerson = NoPerson
  FullNames <- MCFullNames
  Wiped = Wiped
  ProfileRequests <- MCInvites
  Suffixes = 1
  MaxProfileCalls = 5
CHECK_DEADLOCK FALSE
SYMMETRY MCSymmetry
INVARIANTS
  MembersTypeOK
  MembershipKept
  ArrivalsAndDepartures
  NoticesExplained
  ProfilesKept
