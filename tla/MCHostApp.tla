----------------------------- MODULE MCHostApp -----------------------------
EXTENDS HostApp

Visit(screens, buttons, others, bounds) ==
    [screens |-> screens, buttons |-> buttons, others |-> others,
     moves |-> bounds[1], presses |-> bounds[2]]

\* Every button, with the screens that show what it changes; a screen that is not a door
\* takes a move to reach.
MCVisits ==
    { Visit({"rooms", "setup"}, {"reorderRooms", "removeRoom", "submit"}, {}, <<1, 2>>),
      Visit({"room", "rooms"}, {"saveRoom", "roomCover"}, {}, <<1, 2>>),
      Visit({"room", "rooms"}, {"saveRoom", "reorderRooms"}, {}, <<2, 2>>),
      Visit({"room", "setup"}, {"saveRoom"}, {}, <<2, 1>>),
      Visit({"newRoom", "room", "rooms"}, {"createRoom"}, {}, <<2, 2>>),
      Visit({"room"}, RoomGrid \ {"roomUpload"}, {}, <<1, 2>>),
      Visit({"photosStep", "step", "review", "setup"}, {"cover", "saveStep"}, {}, <<2, 2>>),
      Visit({"room", "rooms"}, {"roomUpload"}, {"roomPhotos"}, <<2, 1>>),
      Visit({"photosStep", "step", "setup"}, {"upload"}, {}, <<2, 1>>),
      Visit({"photosStep", "step"}, {"upload", "remove"}, {}, <<1, 2>>),
      Visit({"photosStep", "step"}, {"reorder", "cover", "remove"}, {}, <<2, 2>>),
      Visit({"step", "review", "rooms"}, {"saveStep", "submit", "removeRoom"}, {}, <<2, 2>>),
      Visit({"bookings", "booking"}, {"status", "note"}, {}, <<2, 2>>),
      Visit({"bookings", "booking"}, {"status"}, {"bookings"}, <<2, 2>>),
      Visit({"newBooking", "calendar"}, {"book"}, {}, <<2, 2>>),
      Visit({"calendar", "selection"}, {"rate", "season"}, {}, <<2, 2>>),
      Visit({"calendar", "selection", "stay"}, {"block", "unblock"}, {}, <<2, 2>>),
      Visit({"calendar", "quote", "selection"}, {"block"}, {}, <<3, 2>>),
      Visit({"newProperty", "today", "other"}, {"createProperty"}, {}, <<2, 2>>) }
=============================================================================
